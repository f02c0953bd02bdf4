--------------------------- MODULE CampaignProofs ---------------------------
(***************************************************************************)
(* Proofs about Campaign, for every fault list, number of workers and      *)
(* queue depth, any number of campaigns in any mode, and signals at any    *)
(* point: the accounting of results, the bound of the queue, and the file. *)
(*                                                                         *)
(* The first two count: the workers that have not put their output, and    *)
(* the results in the queue.  Each is the number of places of a sequence   *)
(* that hold an element of some set, so the lemmas say what the operations *)
(* on sequences do to such a number, and the steps of the campaign cite    *)
(* them.                                                                   *)
(***************************************************************************)
EXTENDS Campaign, FiniteSetTheorems, SequenceTheorems, TLAPS

(* The places of s that hold an element of C. *)
Where(s, C) == {j \in DOMAIN s : s[j] \in C}
Count(s, C) == Cardinality(Where(s, C))

One(b) == IF b THEN 1 ELSE 0

LEMMA CountBounds ==
  ASSUME NEW S, NEW s \in Seq(S), NEW C
  PROVE  IsFiniteSet(Where(s, C)) /\ Count(s, C) \in 0 .. Len(s)
<1>0. Len(s) \in Nat
  BY LenProperties
<1>1. IsFiniteSet(1 .. Len(s)) /\ Cardinality(1 .. Len(s)) = Len(s)
  BY <1>0, FS_Interval
<1>2. Where(s, C) \subseteq 1 .. Len(s)
  BY LenProperties DEF Where
<1>3. IsFiniteSet(Where(s, C)) /\ Cardinality(Where(s, C)) <= Len(s)
  BY <1>1, <1>2, FS_Subset
<1>4. Cardinality(Where(s, C)) \in Nat
  BY <1>3, FS_CardinalityType
<1>5. Count(s, C) \in 0 .. Len(s)
  BY <1>0, <1>3, <1>4 DEF Count
<1> QED
  BY <1>3, <1>5

LEMMA CountEmpty ==
  ASSUME NEW C
  PROVE  Count(<<>>, C) = 0
<1>1. Where(<<>>, C) = {}
  BY DEF Where
<1> QED
  BY <1>1, FS_EmptySet DEF Count

LEMMA CountAppend ==
  ASSUME NEW S, NEW s \in Seq(S), NEW e \in S, NEW C
  PROVE  Count(Append(s, e), C) = Count(s, C) + One(e \in C)
<1> DEFINE n == Len(s) + 1
<1>1. Len(s) \in Nat /\ DOMAIN s = 1 .. Len(s)
  BY LenProperties
<1>2. /\ Append(s, e) \in Seq(S) /\ Len(Append(s, e)) = n
      /\ \A i \in 1 .. Len(s) : Append(s, e)[i] = s[i]
      /\ Append(s, e)[n] = e
  BY AppendProperties
<1>3. DOMAIN Append(s, e) = 1 .. n
  BY <1>2, LenProperties
<1>4. Where(Append(s, e), C) = IF e \in C THEN Where(s, C) \cup {n} ELSE Where(s, C)
  BY <1>1, <1>2, <1>3 DEF Where
<1>5. IsFiniteSet(Where(s, C)) /\ n \notin Where(s, C)
  <2>1. IsFiniteSet(Where(s, C))
    BY CountBounds
  <2>2. n \notin Where(s, C)
    BY <1>1 DEF Where
  <2> QED
    BY <2>1, <2>2
<1>6. Cardinality(Where(s, C) \cup {n}) = Cardinality(Where(s, C)) + 1
  BY <1>5, FS_AddElement
<1>7. Count(s, C) \in Nat
  BY CountBounds, <1>1
<1> QED
  BY <1>4, <1>6, <1>7 DEF Count, One

(* One place k is taken out, the ones behind it move up. *)
LEMMA CountRemove ==
  ASSUME NEW S, NEW s \in Seq(S), NEW t \in Seq(S), NEW C, NEW k \in 1 .. Len(s),
         Len(t) = Len(s) - 1,
         \A j \in 1 .. Len(t) : t[j] = s[IF j < k THEN j ELSE j + 1]
  PROVE  Count(t, C) = Count(s, C) - One(s[k] \in C)
<1> DEFINE T == Where(t, C)
           R == Where(s, C) \ {k}
           shift == [j \in T |-> IF j < k THEN j ELSE j + 1]
<1>1. /\ Len(s) \in Nat /\ DOMAIN s = 1 .. Len(s)
      /\ Len(t) \in Nat /\ DOMAIN t = 1 .. Len(t)
  BY LenProperties
<1>2. shift \in [T -> R]
  BY <1>1 DEF Where
<1>3. \A i, j \in T : shift[i] = shift[j] => i = j
  BY <1>1 DEF Where
<1>4. ASSUME NEW r \in R PROVE \E j \in T : shift[j] = r
  <2> DEFINE j == IF r < k THEN r ELSE r - 1
  <2>1. r \in 1 .. Len(s) /\ r # k /\ s[r] \in C
    BY <1>1 DEF Where
  <2>2. j \in 1 .. Len(t) /\ (IF j < k THEN j ELSE j + 1) = r
    BY <2>1, <1>1
  <2>3. j \in T
    BY <2>1, <2>2, <1>1 DEF Where
  <2> QED
    BY <2>2, <2>3
<1>5. ExistsBijection(T, R)
  <2>1. DOMAIN shift = T
    OBVIOUS
  <2> HIDE DEF shift, T, R
  <2>2. shift \in Bijection(T, R)
    BY <1>2, <1>3, <1>4, <2>1 DEF Bijection, Injection, IsInjective, Surjection
  <2> QED
    BY <2>2 DEF ExistsBijection
<1>6. IsFiniteSet(Where(s, C)) /\ IsFiniteSet(T)
  BY CountBounds
<1>7. Cardinality(R) = Cardinality(T)
  BY <1>5, <1>6, FS_Bijection
<1>8. Cardinality(R) = IF k \in Where(s, C) THEN Count(s, C) - 1 ELSE Count(s, C)
  BY <1>6, FS_RemoveElement DEF Count
<1>9. k \in Where(s, C) <=> s[k] \in C
  BY <1>1 DEF Where
<1>10. Count(s, C) \in Nat
  BY CountBounds, <1>1
<1> QED
  BY <1>7, <1>8, <1>9, <1>10 DEF Count, One

LEMMA CountTail ==
  ASSUME NEW S, NEW s \in Seq(S), s # <<>>, NEW C
  PROVE  /\ Head(s) \in S /\ Tail(s) \in Seq(S)
         /\ Count(Tail(s), C) = Count(s, C) - One(Head(s) \in C)
<1>1. /\ Head(s) \in S /\ Tail(s) \in Seq(S) /\ Len(Tail(s)) = Len(s) - 1
      /\ \A i \in 1 .. Len(Tail(s)) : Tail(s)[i] = s[i + 1]
  BY HeadTailProperties
<1>2. Len(s) \in Nat \ {0} /\ Head(s) = s[1]
  BY EmptySeq
<1>3. \A j \in 1 .. Len(Tail(s)) : Tail(s)[j] = s[IF j < 1 THEN j ELSE j + 1]
  BY <1>1, <1>2
<1>4. 1 \in 1 .. Len(s)
  BY <1>2
<1>5. Count(Tail(s), C) = Count(s, C) - One(s[1] \in C)
  BY <1>1, <1>3, <1>4, CountRemove, ZenonT(40)
<1> QED
  BY <1>1, <1>2, <1>5

LEMMA CountRemoveAt ==
  ASSUME NEW S, NEW s \in Seq(S), NEW k \in 1 .. Len(s), NEW C
  PROVE  /\ RemoveAt(s, k) \in Seq(S) /\ Len(RemoveAt(s, k)) = Len(s) - 1
         /\ Count(RemoveAt(s, k), C) = Count(s, C) - One(s[k] \in C)
<1> DEFINE a == SubSeq(s, 1, k - 1)
           b == SubSeq(s, k + 1, Len(s))
           t == RemoveAt(s, k)
<1>1. Len(s) \in Nat /\ \A i \in 1 .. Len(s) : s[i] \in S
  BY LenProperties, ElementOfSeq
<1>2. /\ a \in Seq(S) /\ Len(a) = k - 1
      /\ \A i \in 1 .. k - 1 : a[i] = s[i]
  <2>1. 1 \in Int /\ k - 1 \in Int /\ \A i \in 1 .. k - 1 : s[i] \in S
    BY <1>1
  <2>2. /\ a \in Seq(S) /\ Len(a) = IF 1 <= k - 1 THEN (k - 1) - 1 + 1 ELSE 0
        /\ \A i \in 1 .. (k - 1) - 1 + 1 : a[i] = s[1 + i - 1]
    BY ONLY <2>1, SubSeqProperties
  <2> QED
    BY <2>2, <1>1
<1>3. /\ b \in Seq(S) /\ Len(b) = Len(s) - k
      /\ \A i \in 1 .. Len(s) - k : b[i] = s[k + i]
  <2>1. k + 1 \in Int /\ Len(s) \in Int /\ \A i \in k + 1 .. Len(s) : s[i] \in S
    BY <1>1
  <2>2. /\ b \in Seq(S) /\ Len(b) = IF k + 1 <= Len(s) THEN Len(s) - (k + 1) + 1 ELSE 0
        /\ \A i \in 1 .. Len(s) - (k + 1) + 1 : b[i] = s[k + 1 + i - 1]
    BY ONLY <2>1, SubSeqProperties
  <2> QED
    BY <2>2, <1>1
<1>4. t = a \o b
  BY DEF RemoveAt
<1> HIDE DEF a, b, t
<1>5. /\ t \in Seq(S) /\ Len(t) = Len(a) + Len(b)
      /\ \A i \in 1 .. Len(a) + Len(b) : t[i] = IF i <= Len(a) THEN a[i] ELSE b[i - Len(a)]
  BY <1>2, <1>3, <1>4, ConcatProperties
<1>6. Len(t) = Len(s) - 1
  BY <1>1, <1>2, <1>3, <1>5
<1>7. ASSUME NEW j \in 1 .. Len(t) PROVE t[j] = s[IF j < k THEN j ELSE j + 1]
  <2>1. CASE j < k
    BY <2>1, <1>1, <1>2, <1>3, <1>5, <1>6
  <2>2. CASE ~(j < k)
    <3>1. j - (k - 1) \in 1 .. Len(s) - k /\ ~(j <= Len(a))
      BY <2>2, <1>1, <1>2, <1>6
    <3>2. t[j] = b[j - (k - 1)]
      BY <3>1, <1>2, <1>3, <1>5, <1>6, <1>1
    <3>3. b[j - (k - 1)] = s[k + (j - (k - 1))] /\ k + (j - (k - 1)) = j + 1
      BY <3>1, <1>3, <1>1
    <3> QED
      BY <3>2, <3>3, <2>2
  <2> QED
    BY <2>1, <2>2
<1>8. Count(t, C) = Count(s, C) - One(s[k] \in C)
  BY <1>5, <1>6, <1>7, CountRemove, ZenonT(40)
<1> QED
  BY <1>5, <1>6, <1>8 DEF t

LEMMA CountExcept ==
  ASSUME NEW S, NEW s \in Seq(S), NEW k \in 1 .. Len(s), NEW e \in S, NEW C
  PROVE  /\ [s EXCEPT ![k] = e] \in Seq(S) /\ Len([s EXCEPT ![k] = e]) = Len(s)
         /\ Count([s EXCEPT ![k] = e], C) = Count(s, C) - One(s[k] \in C) + One(e \in C)
<1> DEFINE t == [s EXCEPT ![k] = e]
<1>1. /\ t \in Seq(S) /\ Len(t) = Len(s)
      /\ \A j \in 1 .. Len(s) : t[j] = IF j = k THEN e ELSE s[j]
  BY ExceptSeq
<1> HIDE DEF t
<1>2. Len(s) \in Nat /\ DOMAIN s = 1 .. Len(s) /\ DOMAIN t = 1 .. Len(s)
  BY <1>1, LenProperties
<1>3. IsFiniteSet(Where(s, C)) /\ Count(s, C) \in Nat
  BY <1>2, CountBounds
<1>4. (k \in Where(s, C) <=> s[k] \in C)
  BY <1>2 DEF Where
<1>5. /\ IsFiniteSet(Where(s, C) \ {k})
      /\ Cardinality(Where(s, C) \ {k}) = Count(s, C) - One(s[k] \in C)
  BY <1>3, <1>4, FS_RemoveElement DEF Count, One
<1>6. Where(t, C) = IF e \in C THEN (Where(s, C) \ {k}) \cup {k} ELSE Where(s, C) \ {k}
  BY <1>1, <1>2 DEF Where
<1>7. Cardinality((Where(s, C) \ {k}) \cup {k}) = Cardinality(Where(s, C) \ {k}) + 1
  BY <1>5, FS_AddElement
<1>8. Count(s, C) - One(s[k] \in C) \in Int
  BY <1>3 DEF One
<1> QED
  BY <1>1, <1>5, <1>6, <1>7, <1>8 DEF Count, One, t

-----------------------------------------------------------------------------
(* The workers that have not put their output, and the results queued.     *)
Busy  == {p \in Worker : p.state \in {"starting", "simulating", "readout"}}
Entry == {Pregolden, Golden, BackupIndex} \cup Faults

Running == Count(p_list, Busy)
Queued  == Count(queue_output, Faults)

(* What the counting rests on: the types of what is counted, and that the  *)
(* scan of the workers begins with the first.                              *)
Types ==
  /\ faultlist \in Seq(Faults) /\ itter \in 0 .. Len(faultlist)
  /\ p_list \in Seq(Worker) /\ Len(p_list) <= num_workers
  /\ scan \in Nat /\ (ctl \in {"scan", "join"} => scan > 0)
  /\ queue_output \in Seq(Entry)
  /\ num_exp \in Int /\ lost \in Nat

Bounded == Running + Queued <= queuedepth + num_workers - 1

Accounted ==
  ctl # "idle" /\ ~stop_signal_received =>
    num_exp = Len(faultlist) - itter + Running + Queued + lost

CInv == Types /\ Bounded /\ Accounted

LEMMA CountsAreThese ==
  ASSUME Types
  PROVE  /\ Running \in Nat /\ Running <= Len(p_list) /\ Running = Cardinality(Unposted)
         /\ Queued \in Nat /\ Queued <= Len(queue_output)
         /\ Queued = Cardinality(QueuedResults)
<1>1. /\ Len(p_list) \in Nat /\ Len(queue_output) \in Nat
      /\ \A k \in DOMAIN p_list : p_list[k] \in Worker
  <2>1. p_list \in Seq(Worker) /\ queue_output \in Seq(Entry)
    BY DEF Types
  <2> QED
    BY ONLY <2>1, LenProperties, ElementOfSeq
<1>2. Running \in 0 .. Len(p_list) /\ Queued \in 0 .. Len(queue_output)
  BY CountBounds DEF Types, Running, Queued
<1>3. Where(p_list, Busy) = Unposted
  BY <1>1 DEF Where, Busy, Unposted
<1>4. Where(queue_output, Faults) = QueuedResults
  BY DEF Where, QueuedResults
<1> QED
  BY <1>1, <1>2, <1>3, <1>4 DEF Running, Queued, Count

LEMMA InvariantInit == Init => CInv
<1> SUFFICES ASSUME Init PROVE CInv
  OBVIOUS
<1>1. Running = 0 /\ Queued = 0
  BY CountEmpty DEF Init, Running, Queued
<1>2. <<>> \in Seq(Faults) /\ <<>> \in Seq(Worker) /\ <<>> \in Seq(Entry) /\ Len(<<>>) = 0
  BY EmptySeq
<1> QED
  BY <1>1, <1>2, ParameterAssumption DEF Init, CInv, Types, Bounded, Accounted

(* Steps that leave alone everything that is counted, but may stop the     *)
(* campaign or move the controller within it.                              *)
LEMMA NotCounted ==
  ASSUME CInv, UNCHANGED <<faultlist, itter, p_list, queue_output, num_exp, lost>>,
         scan' \in Nat, ctl' \in {"scan", "join"} => scan' > 0,
         ctl' # "idle" => ctl # "idle", stop_signal_received => stop_signal_received'
  PROVE  CInv'
  BY DEF CInv, Types, Bounded, Accounted, Running, Queued

LEMMA QuietSteps ==
  ASSUME CInv,
         \/ \E m \in Modes : Refuse(m)
         \/ HoldWorker \/ KeepWorker \/ EndScan \/ LeaveLoop
         \/ QemuNotFound \/ AssertionFails
         \/ Open \/ Close \/ WriteResult \/ StoreFault \/ EndBackup
         \/ Stop \/ UNCHANGED vars
  PROVE  CInv'
<1>1. CASE \/ \E m \in Modes : Refuse(m)
           \/ Open \/ Close \/ WriteResult \/ StoreFault \/ EndBackup
           \/ Stop \/ UNCHANGED vars
  <2>1. /\ UNCHANGED <<faultlist, itter, p_list, scan, ctl, queue_output, num_exp, lost>>
        /\ stop_signal_received => stop_signal_received'
    BY <1>1 DEF Refuse, Open, Close, WriteResult, StoreFault, EndBackup, Stop,
                vars, controllerVars, loggerVars, loggerKeeps
  <2> QED
    BY <2>1, NotCounted DEF CInv, Types
<1>2. CASE HoldWorker \/ KeepWorker \/ EndScan \/ LeaveLoop \/ QemuNotFound \/ AssertionFails
  <2>1. /\ UNCHANGED <<faultlist, itter, p_list, queue_output, num_exp, lost,
                       stop_signal_received>>
        /\ ctl # "idle"
    BY <1>2 DEF HoldWorker, KeepWorker, EndScan, LeaveLoop, QemuNotFound, AssertionFails,
                Overdue, Looping, Scanning, loggerVars
  <2>2. scan' \in Nat /\ (ctl' \in {"scan", "join"} => scan' > 0)
    BY <1>2 DEF HoldWorker, KeepWorker, EndScan, LeaveLoop, QemuNotFound, AssertionFails,
                Overdue, Scanning, CInv, Types
  <2> QED
    BY <2>1, <2>2, NotCounted
<1> QED
  BY <1>1, <1>2

(* A campaign starts with nothing running, no result in the queue and as   *)
(* many results to come as there are faults in its list.                   *)
LEMMA LaunchStep ==
  ASSUME CInv, NEW m \in Modes, Launch(m)
  PROVE  CInv'
<1> DEFINE F == ToRun(m)
<1>1. F \subseteq Faults
  BY DEF ToRun, Missing, StoredFaults
<1>2. IsFiniteSet(F)
  <2>1. IsFiniteSet(Faults)
    BY FS_Interval, ParameterAssumption DEF Faults
  <2> QED
    BY <1>1, <2>1, FS_Subset
<1>3. Cardinality(F) \in Nat
  BY <1>2, FS_CardinalityType
<1>4. faultlist' \in Seq(Faults) /\ Len(faultlist') \in Nat
  <2>1. faultlist' \in [1 .. Cardinality(F) -> F]
    BY DEF Launch, InOrder
  <2>2. faultlist' \in [1 .. Cardinality(F) -> Faults]
    BY <1>1, <2>1
  <2> QED
    BY <1>3, <2>2
<1>5. queue_output' \in Seq({Pregolden, Golden, BackupIndex})
  <2>1. queue_output' \in {<<>>, GoldenData}
    BY DEF Launch
  <2>2. /\ <<>> \in Seq({Pregolden, Golden, BackupIndex})
        /\ <<Pregolden>> \in Seq({Pregolden, Golden, BackupIndex})
        /\ <<Golden, BackupIndex>> \in Seq({Pregolden, Golden, BackupIndex})
    OBVIOUS
  <2>3. GoldenData \in Seq({Pregolden, Golden, BackupIndex})
    BY <2>2, ConcatProperties DEF GoldenData
  <2> QED
    BY <2>1, <2>2, <2>3
<1>6. queue_output' \in Seq(Entry)
  BY <1>5, SeqMonotonic DEF Entry
<1>7. Where(queue_output', Faults) = {}
  <2>1. \A j \in DOMAIN queue_output' : queue_output'[j] \in {Pregolden, Golden, BackupIndex}
    BY <1>5, LenProperties, ElementOfSeq
  <2>2. {Pregolden, Golden, BackupIndex} \cap Faults = {}
    BY DEF Pregolden, Golden, BackupIndex, Faults
  <2> QED
    BY <2>1, <2>2 DEF Where
<1>8. Queued' = 0 /\ Running' = 0
  <2>1. Count(queue_output', Faults) = 0
    BY <1>7, FS_EmptySet DEF Count
  <2>2. Count(p_list', Busy) = 0
    BY CountEmpty DEF Launch
  <2> QED
    BY <2>1, <2>2 DEF Queued, Running
<1>9. /\ p_list' = <<>> /\ itter' = 0 /\ scan' = 0 /\ ctl' = "top"
      /\ num_exp' = Len(faultlist') /\ lost' = 0
  BY DEF Launch
<1>10. p_list' \in Seq(Worker) /\ Len(p_list') = 0
  BY <1>9, EmptySeq
<1> QED
  BY <1>4, <1>6, <1>8, <1>9, <1>10, ParameterAssumption DEF CInv, Types, Bounded, Accounted

(* The queue has room for the outputs of all workers but one when the last *)
(* is started.                                                             *)
LEMMA StartWorkerStep ==
  ASSUME CInv, StartWorker
  PROVE  CInv'
<1> DEFINE new == [fault |-> faultlist[itter + 1], state |-> "starting", overdue |-> FALSE]
<1>1. /\ p_list \in Seq(Worker) /\ Len(p_list) \in Nat
      /\ faultlist \in Seq(Faults) /\ Len(faultlist) \in Nat
      /\ itter \in Nat /\ itter + 1 \in 1 .. Len(faultlist)
      /\ Len(p_list) < num_workers /\ Len(queue_output) < queuedepth
  <2>1. p_list \in Seq(Worker) /\ faultlist \in Seq(Faults) /\ itter \in 0 .. Len(faultlist)
    BY DEF CInv, Types
  <2>2. itter < Len(faultlist) /\ Len(p_list) < num_workers /\ Len(queue_output) < queuedepth
    BY DEF StartWorker, Room
  <2> QED
    BY <2>1, <2>2, LenProperties
<1>2. new \in Worker /\ new \in Busy
  BY <1>1, ElementOfSeq DEF Worker, Busy
<1>3. p_list' = Append(p_list, new)
  BY DEF StartWorker
<1> HIDE DEF new
<1>4. /\ p_list' \in Seq(Worker) /\ Len(p_list') = Len(p_list) + 1
      /\ Running' = Running + 1
  BY <1>1, <1>2, <1>3, AppendProperties, CountAppend DEF Running, One
<1>5. /\ UNCHANGED <<faultlist, queue_output, num_exp, lost, stop_signal_received>>
      /\ itter' = itter + 1 /\ scan' = 1 /\ ctl # "idle"
  BY DEF StartWorker, Looping, loggerVars
<1>6. Queued' = Queued
  BY <1>5 DEF Queued
<1>7. Types'
  BY <1>1, <1>4, <1>5, ParameterAssumption DEF CInv, Types
<1>8. /\ Running \in Nat /\ Running <= Len(p_list)
      /\ Queued \in Nat /\ Queued <= Len(queue_output)
  BY CountsAreThese DEF CInv
<1>9. Len(queue_output) \in Nat
  <2>1. queue_output \in Seq(Entry)
    BY DEF CInv, Types
  <2> QED
    BY <2>1, LenProperties
<1>10. Bounded'
  BY <1>1, <1>4, <1>6, <1>8, <1>9, ParameterAssumption DEF Bounded
<1>11. Accounted'
  <2>1. num_exp \in Int /\ lost \in Nat
    BY DEF CInv, Types
  <2>2. Len(faultlist) - itter + Running = Len(faultlist) - (itter + 1) + (Running + 1)
    BY ONLY <1>1, <1>8
  <2>3. ~stop_signal_received => num_exp = Len(faultlist) - itter + Running + Queued + lost
    BY <1>5 DEF CInv, Accounted
  <2>4. Len(faultlist') - itter' + Running' = Len(faultlist) - itter + Running
    BY ONLY <1>4, <1>5, <2>2
  <2> QED
    BY ONLY <1>5, <1>6, <2>3, <2>4 DEF Accounted
<1> QED
  BY <1>7, <1>10, <1>11 DEF CInv

(* A worker on its own, but for putting its output. *)
Moving(k) == Begin(k) \/ QemuFails(k) \/ QemuEnds(k) \/ Exit(k) \/ TimePasses(k)

(* Entry k of p_list becomes e: a worker never gets back an output it has  *)
(* put or lost, and one that loses it is counted.                          *)
Becomes(k, e) ==
  /\ p_list' = [p_list EXCEPT ![k] = e]
  /\ e.fault = p_list[k].fault /\ (e \in Busy => p_list[k] \in Busy)
  /\ lost' = lost + One(p_list[k] \in Busy) - One(e \in Busy)

LEMMA WorkerIs ==
  ASSUME CInv, NEW k \in DOMAIN p_list
  PROVE  p_list[k] \in Worker
<1>1. p_list \in Seq(Worker)
  BY DEF CInv, Types
<1> QED
  BY <1>1, LenProperties, ElementOfSeq

(* A step to another state. *)
LEMMA StateBecomes ==
  ASSUME CInv, NEW k \in DOMAIN p_list,
         NEW state \in {"starting", "simulating", "readout", "ending", "blocked", "joining",
                        "exited"},
         p_list' = [p_list EXCEPT ![k].state = state],
         state \in {"starting", "simulating", "readout"} =>
           p_list[k].state \in {"starting", "simulating", "readout"},
         lost' = IF /\ p_list[k].state \in {"starting", "simulating", "readout"}
                    /\ state \notin {"starting", "simulating", "readout"}
                 THEN lost + 1 ELSE lost
  PROVE  \E e \in Worker : Becomes(k, e)
<1> DEFINE e == [p_list[k] EXCEPT !.state = state]
<1>1. p_list[k] \in Worker /\ lost \in Nat
  BY WorkerIs DEF CInv, Types
<1>2. e \in Worker /\ e.fault = p_list[k].fault /\ e.state = state
  BY <1>1 DEF Worker
<1>3. p_list' = [p_list EXCEPT ![k] = e]
  OBVIOUS
<1> HIDE DEF e
<1>4. /\ e \in Busy <=> state \in {"starting", "simulating", "readout"}
      /\ p_list[k] \in Busy <=> p_list[k].state \in {"starting", "simulating", "readout"}
  BY <1>1, <1>2 DEF Busy
<1>5. lost' = lost + One(p_list[k] \in Busy) - One(e \in Busy)
  BY <1>1, <1>4 DEF One
<1> QED
  BY <1>2, <1>3, <1>4, <1>5 DEF Becomes

LEMMA MovingBecomes ==
  ASSUME CInv, NEW k \in DOMAIN p_list, Moving(k)
  PROVE  \E e \in Worker : Becomes(k, e)
<1>1. CASE Begin(k)
  BY <1>1, StateBecomes DEF Begin, Moves
<1>2. CASE QemuFails(k)
  BY <1>2, StateBecomes DEF QemuFails, Moves
<1>3. CASE QemuEnds(k)
  BY <1>3, StateBecomes DEF QemuEnds, Moves
<1>4. CASE Exit(k)
  BY <1>4, StateBecomes DEF Exit, Moves
<1>5. CASE TimePasses(k)
  <2> DEFINE e == [p_list[k] EXCEPT !.overdue = TRUE]
  <2>1. p_list[k] \in Worker /\ lost \in Nat
    BY WorkerIs DEF CInv, Types
  <2>2. e \in Worker /\ e.fault = p_list[k].fault /\ (e \in Busy <=> p_list[k] \in Busy)
    BY <2>1 DEF Worker, Busy
  <2>3. p_list' = [p_list EXCEPT ![k] = e] /\ lost' = lost
    BY <1>5 DEF TimePasses
  <2> HIDE DEF e
  <2>4. lost' = lost + One(p_list[k] \in Busy) - One(e \in Busy)
    BY <2>1, <2>2, <2>3 DEF One
  <2> QED
    BY <2>2, <2>3, <2>4 DEF Becomes
<1> QED
  BY <1>1, <1>2, <1>3, <1>4, <1>5 DEF Moving

LEMMA TerminateBecomes ==
  ASSUME CInv, TerminateQemu
  PROVE  scan \in DOMAIN p_list /\ \E e \in Worker : Becomes(scan, e)
<1>1. scan \in DOMAIN p_list
  <2>1. p_list \in Seq(Worker) /\ scan \in Nat /\ scan > 0 /\ scan <= Len(p_list)
    BY DEF CInv, Types, TerminateQemu, Overdue, Scanning
  <2> QED
    BY <2>1, LenProperties
<1>2. p_list[scan] \in Worker
  BY <1>1, WorkerIs
<1>3. PICK state \in AfterTimeout(p_list[scan]) :
        /\ p_list' = [p_list EXCEPT ![scan].state = state]
        /\ lost' = IF p_list[scan].state = "starting" /\ state \in {"blocked", "ending"}
                   THEN lost + 1 ELSE lost
  BY DEF TerminateQemu
<1>4. /\ state \in {"starting", "simulating", "readout", "ending", "blocked", "joining",
                    "exited"}
      /\ \/ p_list[scan].state = "starting" /\ state \in {"blocked", "ending", "readout"}
         \/ p_list[scan].state = "simulating" /\ state = "readout"
         \/ p_list[scan].state = "joining" /\ state \in {"joining", "ending"}
         \/ state = p_list[scan].state /\ state # "starting"
  BY <1>2, <1>3 DEF AfterTimeout, Worker
<1>5. \E e \in Worker : Becomes(scan, e)
  BY <1>1, <1>3, <1>4, StateBecomes
<1> QED
  BY <1>1, <1>5

LEMMA EntryStep ==
  ASSUME CInv, NEW k \in DOMAIN p_list, NEW e \in Worker, Becomes(k, e),
         UNCHANGED <<faultlist, itter, scan, queue_output, num_exp, stop_signal_received>>,
         ctl' = ctl \/ (ctl = "scan" /\ ctl' = "join")
  PROVE  CInv'
<1>1. p_list \in Seq(Worker) /\ Len(p_list) \in Nat /\ k \in 1 .. Len(p_list)
  <2>1. p_list \in Seq(Worker)
    BY DEF CInv, Types
  <2> QED
    BY <2>1, LenProperties
<1>2. Running \in Nat /\ Queued \in Nat
  BY CountsAreThese DEF CInv
<1>3. /\ p_list' \in Seq(Worker) /\ Len(p_list') = Len(p_list)
      /\ Running' = Running - One(p_list[k] \in Busy) + One(e \in Busy)
  <2>1. /\ [p_list EXCEPT ![k] = e] \in Seq(Worker)
        /\ Len([p_list EXCEPT ![k] = e]) = Len(p_list)
        /\ Count([p_list EXCEPT ![k] = e], Busy)
             = Count(p_list, Busy) - One(p_list[k] \in Busy) + One(e \in Busy)
    <3>1. e \in Worker
      OBVIOUS
    <3> QED
      BY ONLY <1>1, <3>1, CountExcept
  <2> QED
    BY <2>1 DEF Running, Becomes
<1>4. PICK d \in {0, 1} : d = One(p_list[k] \in Busy) - One(e \in Busy)
  BY DEF Becomes, One
<1>5. Running' = Running - d /\ lost' = lost + d /\ Queued' = Queued
  <2>1. lost \in Nat /\ One(p_list[k] \in Busy) \in Int /\ One(e \in Busy) \in Int
    BY DEF CInv, Types, One
  <2>2. lost' = lost + One(p_list[k] \in Busy) - One(e \in Busy)
    BY DEF Becomes
  <2> QED
    BY <1>2, <1>3, <1>4, <2>1, <2>2 DEF Queued
<1>6. /\ faultlist \in Seq(Faults) /\ itter \in 0 .. Len(faultlist) /\ num_exp \in Int
      /\ lost \in Nat /\ Running + Queued <= queuedepth + num_workers - 1
  BY DEF CInv, Types, Bounded
<1>7. Types'
  BY <1>3, <1>5, <1>6 DEF CInv, Types
<1>8. Bounded'
  BY <1>2, <1>4, <1>5, <1>6, ParameterAssumption DEF Bounded
<1>9. Accounted'
  <2>1. Len(faultlist) \in Nat /\ itter \in Nat
    BY <1>6, LenProperties
  <2>2. SUFFICES ASSUME ctl' # "idle", ~stop_signal_received'
                 PROVE  num_exp = Len(faultlist) - itter + Running' + Queued' + lost'
    BY DEF Accounted
  <2>3. num_exp = Len(faultlist) - itter + Running + Queued + lost
    BY <2>2 DEF CInv, Accounted
  <2>4. PICK n \in Nat, i \in Nat, r \in Nat, q \in Nat, l \in Nat :
          n = Len(faultlist) /\ i = itter /\ r = Running /\ q = Queued /\ l = lost
    BY <1>2, <1>6, <2>1
  <2>5. n - i + r + q + l = n - i + (r - d) + q + (l + d)
    BY <2>4, <1>4
  <2> QED
    BY <2>3, <2>4, <2>5, <1>5
<1> QED
  BY <1>7, <1>8, <1>9 DEF CInv

LEMMA TerminateStep ==
  ASSUME CInv, TerminateQemu
  PROVE  CInv'
<1>1. /\ UNCHANGED <<faultlist, itter, scan, queue_output, num_exp, stop_signal_received>>
      /\ ctl = "scan" /\ ctl' = "join"
  BY DEF TerminateQemu, Overdue, Scanning, loggerVars
<1> QED
  BY <1>1, TerminateBecomes, EntryStep

LEMMA MovingStep ==
  ASSUME CInv, NEW k \in DOMAIN p_list, Moving(k)
  PROVE  CInv'
<1>1. UNCHANGED <<faultlist, itter, scan, queue_output, num_exp, stop_signal_received, ctl>>
  BY DEF Moving, Begin, QemuFails, QemuEnds, Exit, TimePasses, Moves, loggerVars
<1> QED
  BY <1>1, MovingBecomes, EntryStep

(* The worker that is reaped has put its output, or has none. *)
LEMMA ReapWorkerStep ==
  ASSUME CInv, ReapWorker
  PROVE  CInv'
<1>1. /\ p_list \in Seq(Worker) /\ Len(p_list) \in Nat
      /\ scan \in Nat /\ scan \in 1 .. Len(p_list)
  <2>1. p_list \in Seq(Worker) /\ scan \in Nat /\ scan > 0 /\ scan <= Len(p_list)
    BY DEF CInv, Types, ReapWorker
  <2> QED
    BY <2>1, LenProperties
<1>2. p_list[scan] \notin Busy
  BY DEF ReapWorker, Alive, Busy
<1>3. /\ p_list' \in Seq(Worker) /\ Len(p_list') = Len(p_list) - 1
      /\ Running' = Running - One(p_list[scan] \in Busy)
  BY <1>1, CountRemoveAt DEF ReapWorker, Running
<1>4. Running \in Nat
  BY CountsAreThese DEF CInv
<1>5. Running' = Running
  BY <1>2, <1>3, <1>4 DEF One
<1>6. /\ UNCHANGED <<faultlist, itter, queue_output, num_exp, lost, stop_signal_received>>
      /\ scan' = scan + 1 /\ ctl' = "scan" /\ ctl # "idle"
  BY DEF ReapWorker, loggerVars
<1>7. Queued' = Queued
  BY <1>6 DEF Queued
<1> QED
  BY <1>1, <1>3, <1>5, <1>6, <1>7, ParameterAssumption DEF CInv, Types, Bounded, Accounted

LEMMA ReturnStep ==
  ASSUME CInv, Return
  PROVE  CInv'
<1>1. /\ UNCHANGED <<faultlist, itter, scan, num_exp, lost>>
      /\ p_list' = <<>> /\ queue_output' = <<>> /\ ctl' = "idle"
  BY DEF Return, loggerVars
<1>2. Running' = 0 /\ Queued' = 0
  BY <1>1, CountEmpty DEF Running, Queued
<1>3. <<>> \in Seq(Worker) /\ <<>> \in Seq(Entry) /\ Len(<<>>) = 0
  BY EmptySeq
<1> QED
  BY <1>1, <1>2, <1>3, ParameterAssumption DEF CInv, Types, Bounded, Accounted

(* The logger counts a result down as it takes it out of the queue. *)
LEMMA TakeStep ==
  ASSUME CInv, TakeResult \/ TakeGoldenData \/ TakeBackup
  PROVE  CInv'
<1>1. /\ queue_output # <<>> /\ queue_output' = Tail(queue_output)
      /\ UNCHANGED <<faultlist, itter, p_list, scan, ctl, lost, stop_signal_received>>
  BY DEF TakeResult, TakeGoldenData, TakeBackup, Take, loggerKeeps, controllerVars
<1>2. queue_output \in Seq(Entry) /\ num_exp \in Int
  BY DEF CInv, Types
<1>3. /\ queue_output' \in Seq(Entry)
      /\ Queued' = Queued - One(Head(queue_output) \in Faults)
  BY <1>1, <1>2, CountTail DEF Queued
<1>4. num_exp' = num_exp - One(Head(queue_output) \in Faults)
  <2>1. CASE TakeResult
    BY <2>1 DEF TakeResult, One
  <2>2. CASE TakeGoldenData \/ TakeBackup
    <3>1. num_exp' = num_exp /\ Head(queue_output) \in {Pregolden, Golden, BackupIndex}
      BY <2>2 DEF TakeGoldenData, TakeBackup
    <3>2. Head(queue_output) \notin Faults
      BY <3>1 DEF Pregolden, Golden, BackupIndex, Faults
    <3> QED
      BY <1>2, <3>1, <3>2 DEF One
  <2> QED
    BY <2>1, <2>2
<1>5. Running' = Running
  BY <1>1 DEF Running
<1>6. Running \in Nat /\ Queued \in Nat
  BY CountsAreThese DEF CInv
<1>7. One(Head(queue_output) \in Faults) \in {0, 1}
  BY DEF One
<1>8. Types'
  BY <1>1, <1>2, <1>3, <1>4, <1>7 DEF CInv, Types
<1>9. Bounded'
  BY <1>3, <1>5, <1>6, <1>7, ParameterAssumption DEF CInv, Bounded
<1>10. Accounted'
  <2>1. Len(faultlist) \in Nat /\ itter \in Int /\ lost \in Nat
    <3>1. faultlist \in Seq(Faults) /\ itter \in 0 .. Len(faultlist) /\ lost \in Nat
      BY DEF CInv, Types
    <3> QED
      BY <3>1, LenProperties
  <2>2. SUFFICES ASSUME ctl # "idle", ~stop_signal_received
                 PROVE  num_exp' = Len(faultlist) - itter + Running + Queued' + lost
    BY <1>1, <1>5 DEF Accounted
  <2>3. num_exp = Len(faultlist) - itter + Running + Queued + lost
    BY <2>2 DEF CInv, Accounted
  <2>4. PICK n \in Nat, i \in Int, r \in Nat, q \in Nat, l \in Nat, d \in {0, 1} :
          /\ n = Len(faultlist) /\ i = itter /\ r = Running /\ q = Queued /\ l = lost
          /\ d = One(Head(queue_output) \in Faults)
    BY <1>6, <1>7, <2>1
  <2>5. (n - i + r + q + l) - d = n - i + r + (q - d) + l
    BY <2>4
  <2> QED
    BY <1>3, <1>4, <2>3, <2>4, <2>5
<1> QED
  BY <1>8, <1>9, <1>10 DEF CInv

(* The output of a worker is then in the queue instead of to come. *)
LEMMA PostStep ==
  ASSUME CInv, NEW k \in DOMAIN p_list, Post(k)
  PROVE  CInv'
<1> DEFINE e == [p_list[k] EXCEPT !.state = "ending"]
<1>1. /\ p_list \in Seq(Worker) /\ Len(p_list) \in Nat /\ k \in 1 .. Len(p_list)
      /\ p_list[k] \in Worker
  <2>1. p_list \in Seq(Worker)
    BY DEF CInv, Types
  <2> QED
    BY <2>1, LenProperties, WorkerIs
<1>2. p_list[k].state = "readout" /\ p_list' = [p_list EXCEPT ![k] = e]
  BY DEF Post, Moves
<1>3. e \in Worker /\ e \notin Busy /\ p_list[k] \in Busy
  BY <1>1, <1>2 DEF Worker, Busy
<1> HIDE DEF e
<1>4. /\ p_list' \in Seq(Worker) /\ Len(p_list') = Len(p_list)
      /\ Running' = Running - One(p_list[k] \in Busy) + One(e \in Busy)
  <2>1. /\ [p_list EXCEPT ![k] = e] \in Seq(Worker)
        /\ Len([p_list EXCEPT ![k] = e]) = Len(p_list)
        /\ Count([p_list EXCEPT ![k] = e], Busy)
             = Count(p_list, Busy) - One(p_list[k] \in Busy) + One(e \in Busy)
    BY <1>1, <1>3, CountExcept
  <2> QED
    BY <1>2, <2>1 DEF Running
<1>5. Running \in Nat /\ Queued \in Nat
  BY CountsAreThese DEF CInv
<1>6. Running' = Running - 1
  BY <1>3, <1>4, <1>5 DEF One
<1>7. UNCHANGED <<faultlist, itter, scan, num_exp, lost, stop_signal_received, ctl>>
  BY DEF Post, Moves, loggerVars
<1>8. queue_output \in Seq(Entry) /\ p_list[k].fault \in Faults
  BY <1>1 DEF CInv, Types, Worker
<1>9. queue_output' = Append(queue_output, p_list[k].fault)
  BY DEF Post
<1>10. p_list[k].fault \in Entry
  BY <1>8 DEF Entry
<1>11. queue_output' \in Seq(Entry)
  BY <1>8, <1>9, <1>10, AppendProperties
<1>12. Queued' = Queued + One(p_list[k].fault \in Faults)
  BY <1>8, <1>9, <1>10, CountAppend DEF Queued
<1>13. Queued' = Queued + 1
  BY <1>8, <1>12 DEF One
<1>14. Types'
  BY <1>4, <1>7, <1>11 DEF CInv, Types
<1>15. Bounded'
  BY <1>5, <1>6, <1>13 DEF CInv, Bounded
<1>16. Accounted'
  <2>1. Len(faultlist) \in Nat /\ itter \in Int /\ lost \in Nat
    <3>1. faultlist \in Seq(Faults) /\ itter \in 0 .. Len(faultlist) /\ lost \in Nat
      BY DEF CInv, Types
    <3> QED
      BY <3>1, LenProperties
  <2> QED
    BY <1>5, <1>6, <1>7, <1>13, <2>1 DEF CInv, Accounted
<1> QED
  BY <1>14, <1>15, <1>16 DEF CInv

(* A signal to everybody may end workers, and stops the campaign. *)
LEMMA StopGroupStep ==
  ASSUME CInv, NEW signal, NEW interrupted, StopGroup(signal, interrupted)
  PROVE  CInv'
<1>1. /\ UNCHANGED <<faultlist, itter, scan, queue_output, num_exp, lost, ctl>>
      /\ stop_signal_received' = TRUE
  BY DEF StopGroup
<1>2. p_list \in Seq(Worker) /\ Len(p_list) \in Nat /\ DOMAIN p_list = 1 .. Len(p_list)
  <2>1. p_list \in Seq(Worker)
    BY DEF CInv, Types
  <2> QED
    BY <2>1, LenProperties
<1>3. ASSUME NEW k \in DOMAIN p_list
      PROVE  /\ p_list'[k] \in Worker
             /\ p_list'[k] \in Busy => p_list[k] \in Busy
  BY <1>3, WorkerIs DEF StopGroup, Worker, Busy
<1>4. p_list' \in [1 .. Len(p_list) -> Worker]
  <2>1. DOMAIN p_list' = DOMAIN p_list
    BY DEF StopGroup
  <2>2. p_list' = [k \in DOMAIN p_list |-> p_list'[k]]
    BY DEF StopGroup
  <2> QED
    BY <1>2, <1>3, <2>1, <2>2
<1>5. p_list' \in Seq(Worker) /\ Len(p_list') = Len(p_list)
  BY <1>2, <1>4
<1>6. Where(p_list', Busy) \subseteq Where(p_list, Busy)
  BY <1>2, <1>3, <1>4 DEF Where
<1>7. IsFiniteSet(Where(p_list, Busy))
  BY <1>2, CountBounds
<1>8. Cardinality(Where(p_list', Busy)) <= Cardinality(Where(p_list, Busy))
  BY <1>6, <1>7, FS_Subset
<1>9. Running' <= Running
  BY <1>8 DEF Running, Count
<1>10. Running' \in Nat
  <2>1. Count(p_list', Busy) \in 0 .. Len(p_list')
    BY <1>5, CountBounds
  <2> QED
    BY <1>2, <1>5, <2>1 DEF Running
<1>11. Running \in Nat /\ Queued \in Nat /\ Queued' = Queued
  <2>1. Queued' = Queued
    BY <1>1 DEF Queued
  <2> QED
    BY <2>1, CountsAreThese DEF CInv
<1>12. Types'
  BY <1>1, <1>5 DEF CInv, Types
<1>13. Bounded'
  <2>1. Running + Queued <= queuedepth + num_workers - 1
    BY DEF CInv, Bounded
  <2> QED
    <3>1. queuedepth + num_workers - 1 \in Int
      BY ParameterAssumption
    <3>2. ASSUME NEW r \in Nat, NEW r1 \in Nat, NEW q \in Nat, NEW b \in Int,
                 r1 <= r, r + q <= b
          PROVE  r1 + q <= b
      BY <3>2
    <3>3. Running' + Queued <= queuedepth + num_workers - 1
      BY <1>9, <1>10, <1>11, <2>1, <3>1, <3>2
    <3> QED
      BY <1>11, <3>3 DEF Bounded
<1>14. Accounted'
  BY <1>1 DEF Accounted
<1> QED
  BY <1>12, <1>13, <1>14 DEF CInv

LEMMA InvariantStep == CInv /\ [Next]_vars => CInv'
<1> SUFFICES ASSUME CInv, [Next]_vars PROVE CInv'
  OBVIOUS
<1>1. CASE \E m \in Modes : Launch(m)
  BY <1>1, LaunchStep
<1>2. CASE Controller
  BY <1>2, StartWorkerStep, TerminateStep, ReapWorkerStep, ReturnStep, QuietSteps DEF
     Controller
<1>3. CASE Logger
  BY <1>3, TakeStep, QuietSteps DEF Logger
<1>4. CASE \E k \in DOMAIN p_list : Moving(k) \/ Post(k)
  BY <1>4, MovingStep, PostStep
<1>5. CASE \E signal \in {"SIGINT", "SIGTERM"}, interrupted \in SUBSET Interruptible :
             StopGroup(signal, interrupted)
  BY <1>5, StopGroupStep
<1>6. CASE (\E m \in Modes : Refuse(m)) \/ Stop \/ UNCHANGED vars
  BY <1>6, QuietSteps
<1> QED
  BY <1>1, <1>2, <1>3, <1>4, <1>5, <1>6 DEF Next, Moving

(* Within a campaign, what is lost stays lost. *)
LEMMA LostGrows ==
  ASSUME CInv, Next, ~\E m \in Modes : Launch(m)
  PROVE  lost \in Nat /\ lost' \in Nat /\ lost' >= lost
<1>1. lost \in Nat
  BY DEF CInv, Types
<1>2. lost' = lost \/ lost' = lost + 1
  <2>1. CASE Controller
    BY <2>1 DEF Controller, StartWorker, HoldWorker, KeepWorker, TerminateQemu,
       QemuNotFound, AssertionFails, ReapWorker, EndScan, LeaveLoop, Return
  <2>2. CASE Logger
    BY <2>2 DEF Logger, Open, Close, TakeResult, WriteResult, TakeGoldenData, TakeBackup,
       StoreFault, EndBackup, loggerKeeps, controllerVars
  <2>3. CASE \E k \in DOMAIN p_list : Moving(k) \/ Post(k)
    BY <2>3 DEF Moving, Begin, QemuFails, QemuEnds, Exit, TimePasses, Post
  <2>4. CASE Stop \/ (\E m \in Modes : Refuse(m))
             \/ (\E signal \in {"SIGINT", "SIGTERM"}, interrupted \in SUBSET Interruptible :
                   StopGroup(signal, interrupted))
    BY <2>4 DEF Stop, Refuse, StopGroup, controllerVars
  <2> QED
    BY <2>1, <2>2, <2>3, <2>4 DEF Next, Moving
<1> QED
  BY <1>1, <1>2

LEMMA InvariantMeans == CInv => QueueBounded /\ NoResultLost
<1> SUFFICES ASSUME CInv PROVE QueueBounded /\ NoResultLost
  OBVIOUS
<1>1. /\ Running \in Nat /\ Running = Cardinality(Unposted)
      /\ Queued \in Nat /\ Queued = Cardinality(QueuedResults)
  BY CountsAreThese DEF CInv
<1> QED
  BY <1>1 DEF CInv, Bounded, Accounted, QueueBounded, NoResultLost

(* The outputs held and to come never exceed the queue's depth by more     *)
(* than the other workers (the guard of the scheduling loop,               *)
(* controller.py), whatever runs, fails, times out or is signalled.        *)
THEOREM QueueStaysBounded == Spec => []QueueBounded
<1> QED
  BY InvariantInit, InvariantStep, InvariantMeans, PTL DEF Spec

(* Until it is stopped, a campaign's logger waits for exactly the results  *)
(* that are still to come and the ones lost with a worker that failed      *)
(* (num_exp of hdf5collector against the loop and the workers of the       *)
(* controller), over any number of campaigns, timeouts and failures.       *)
THEOREM ResultsAccounted == Spec => []NoResultLost
<1> QED
  BY InvariantInit, InvariantStep, InvariantMeans, PTL DEF Spec

-----------------------------------------------------------------------------
(***************************************************************************)
(* The HDF5 file, over any number of campaigns that stop, resume, append   *)
(* or overwrite: no second result of a fault, no result lost by appending, *)
(* a result of every fault once a campaign has run to its end, and a sound *)
(* file between campaigns.                                                 *)
(*                                                                         *)
(* The proofs follow one fault.  Toward counts the places on its way to    *)
(* the file: the fault list, the workers, the queue, the logger's hands.   *)
(* No step but a launch raises that number, and it is at most one.         *)
(***************************************************************************)

Of(f) == {p \in Worker : p.state \in {"starting", "simulating", "readout"} /\ p.fault = f}

Listed(f)  == One(\E i \in 1 .. Len(faultlist) : i > itter /\ faultlist[i] = f)
Run(f)     == Count(p_list, Of(f))
InQueue(f) == Count(queue_output, {f})
InHand(f)  == One(logger = "writing" /\ exp = f)

Toward(f) == Listed(f) + Run(f) + InQueue(f) + InHand(f)

Distinct(list) == \A i, j \in DOMAIN list : list[i] = list[j] => i = j

LEMMA TowardTypes ==
  ASSUME CInv, NEW f \in Faults
  PROVE  /\ Listed(f) \in {0, 1} /\ InHand(f) \in {0, 1}
         /\ Run(f) \in Nat /\ InQueue(f) \in Nat /\ Toward(f) \in Nat
<1>1. p_list \in Seq(Worker) /\ queue_output \in Seq(Entry)
  BY DEF CInv, Types
<1>2. Listed(f) \in {0, 1} /\ InHand(f) \in {0, 1}
  BY DEF Listed, InHand, One
<1>3. Len(p_list) \in Nat /\ Len(queue_output) \in Nat
  BY ONLY <1>1, LenProperties
<1>4. Run(f) \in Nat /\ InQueue(f) \in Nat
  <2>1. Count(p_list, Of(f)) \in 0 .. Len(p_list)
    BY <1>1, CountBounds
  <2>2. Count(queue_output, {f}) \in 0 .. Len(queue_output)
    BY <1>1, CountBounds
  <2>3. QED
    BY <1>3, <2>1, <2>2 DEF Run, InQueue
<1>5. QED
  BY <1>2, <1>4 DEF Toward

(* Steps that leave a fault where it is. *)
LEMMA TowardKept ==
  ASSUME UNCHANGED <<faultlist, itter, p_list, queue_output>>, NEW f,
         logger # "writing", logger' # "writing"
  PROVE  Toward(f)' = Toward(f)
  BY DEF Toward, Listed, Run, InQueue, InHand, One

(* A worker is started for the next fault of the list. *)
LEMMA TowardStartWorker ==
  ASSUME CInv, Distinct(faultlist), StartWorker, NEW f \in Faults
  PROVE  Toward(f)' = Toward(f)
<1>1. PICK e : e = [fault |-> faultlist[itter + 1], state |-> "starting", overdue |-> FALSE]
  OBVIOUS
<1>2. /\ p_list \in Seq(Worker) /\ faultlist \in Seq(Faults) /\ Len(faultlist) \in Nat
      /\ itter \in Nat /\ itter + 1 \in 1 .. Len(faultlist)
      /\ DOMAIN faultlist = 1 .. Len(faultlist)
  <2>1. p_list \in Seq(Worker) /\ faultlist \in Seq(Faults) /\ itter \in 0 .. Len(faultlist)
    BY DEF CInv, Types
  <2>2. itter < Len(faultlist)
    BY DEF StartWorker, Room
  <2>3. QED
    BY <2>1, <2>2, LenProperties
<1>3. e \in Worker /\ (e \in Of(f) <=> faultlist[itter + 1] = f)
  BY <1>1, <1>2, ElementOfSeq DEF Worker, Of
<1>4. /\ p_list' = Append(p_list, e) /\ itter' = itter + 1
      /\ UNCHANGED <<faultlist, queue_output, logger, exp>>
  BY <1>1 DEF StartWorker, loggerVars
<1>5. Run(f)' = Run(f) + One(faultlist[itter + 1] = f)
  <2>1. Count(p_list', Of(f)) = Count(p_list, Of(f)) + One(e \in Of(f))
    BY <1>2, <1>3, <1>4, CountAppend
  <2>2. QED
    BY <1>3, <2>1 DEF Run, One
<1>6. InQueue(f)' = InQueue(f) /\ InHand(f)' = InHand(f)
  BY <1>4 DEF InQueue, InHand
<1>7. Listed(f)' = Listed(f) - One(faultlist[itter + 1] = f)
  <2>1. CASE faultlist[itter + 1] = f
    <3>1. Listed(f) = 1
      BY <1>2, <2>1 DEF Listed, One
    <3>2. \A i \in 1 .. Len(faultlist) : faultlist[i] = f => i = itter + 1
      BY <1>2, <2>1 DEF Distinct
    <3>3. Listed(f)' = 0
      BY <1>2, <1>4, <3>2 DEF Listed, One
    <3>4. QED
      BY <2>1, <3>1, <3>3 DEF One
  <2>2. CASE faultlist[itter + 1] # f
    <3>1. (\E i \in 1 .. Len(faultlist) : i > itter + 1 /\ faultlist[i] = f)
            <=> (\E i \in 1 .. Len(faultlist) : i > itter /\ faultlist[i] = f)
      BY <1>2, <2>2
    <3>2. Listed(f)' = Listed(f) /\ Listed(f) \in {0, 1}
      BY <1>4, <3>1 DEF Listed, One
    <3>3. QED
      BY <2>2, <3>2 DEF One
  <2>3. QED
    BY <2>1, <2>2
<1>8. QED
  BY <1>5, <1>6, <1>7, TowardTypes DEF Toward, One

(* One worker changes: it stays on the way of its fault, or loses it.       *)
LEMMA TowardEntry ==
  ASSUME CInv, NEW f \in Faults, NEW k \in DOMAIN p_list, NEW e \in Worker, Becomes(k, e),
         UNCHANGED <<faultlist, itter, queue_output, logger, exp>>
  PROVE  Toward(f)' <= Toward(f) /\ (lost' = lost => Toward(f)' = Toward(f))
<1>1. p_list \in Seq(Worker) /\ k \in 1 .. Len(p_list)
  <2>1. p_list \in Seq(Worker)
    BY DEF CInv, Types
  <2>2. QED
    BY <2>1, LenProperties
<1>2. Count([p_list EXCEPT ![k] = e], Of(f))
        = Count(p_list, Of(f)) - One(p_list[k] \in Of(f)) + One(e \in Of(f))
  <2>1. e \in Worker
    OBVIOUS
  <2>2. QED
    BY ONLY <1>1, <2>1, CountExcept
<1>3. PICK d \in {0, 1} : d = One(p_list[k] \in Of(f)) - One(e \in Of(f))
  <2>1. e \in Of(f) => p_list[k] \in Of(f)
    BY DEF Becomes, Busy, Of
  <2>2. QED
    BY <2>1 DEF One
<1>4. lost' = lost => d = 0
  <2> SUFFICES ASSUME lost' = lost PROVE d = 0
    OBVIOUS
  <2>1. lost \in Nat /\ e \in Busy => p_list[k] \in Busy
    BY DEF Becomes, CInv, Types
  <2>2. lost' = lost + One(p_list[k] \in Busy) - One(e \in Busy)
    BY DEF Becomes
  <2>3. e \in Busy <=> p_list[k] \in Busy
    BY <2>1, <2>2 DEF One, CInv, Types
  <2>4. p_list[k] \in Worker /\ e.fault = p_list[k].fault
    BY WorkerIs DEF Becomes
  <2>5. e \in Of(f) <=> p_list[k] \in Of(f)
    BY <2>3, <2>4 DEF Busy, Of
  <2>6. QED
    BY <1>3, <2>5 DEF One
<1>5. Run(f)' = Run(f) - d
  <2>1. Run(f) \in Nat
    BY TowardTypes
  <2>2. One(p_list[k] \in Of(f)) \in Int /\ One(e \in Of(f)) \in Int
    BY DEF One
  <2>3. QED
    BY <1>2, <1>3, <2>1, <2>2 DEF Run, Becomes
<1>6. Listed(f)' = Listed(f) /\ InQueue(f)' = InQueue(f) /\ InHand(f)' = InHand(f)
  BY DEF Listed, InQueue, InHand
<1>7. /\ Listed(f) \in Nat /\ InHand(f) \in Nat /\ Run(f) \in Nat /\ InQueue(f) \in Nat
  BY TowardTypes
<1>8. QED
  BY <1>3, <1>4, <1>5, <1>6, <1>7 DEF Toward

LEMMA TowardMoving ==
  ASSUME CInv, NEW f \in Faults, NEW k \in DOMAIN p_list, Moving(k)
  PROVE  Toward(f)' <= Toward(f) /\ (lost' = lost => Toward(f)' = Toward(f))
<1>1. UNCHANGED <<faultlist, itter, queue_output, logger, exp>>
  BY DEF Moving, Begin, QemuFails, QemuEnds, Exit, TimePasses, Moves, loggerVars
<1>2. QED
  BY <1>1, MovingBecomes, TowardEntry

LEMMA TowardTerminate ==
  ASSUME CInv, TerminateQemu, NEW f \in Faults
  PROVE  Toward(f)' <= Toward(f) /\ (lost' = lost => Toward(f)' = Toward(f))
<1>1. UNCHANGED <<faultlist, itter, queue_output, logger, exp>>
  BY DEF TerminateQemu, loggerVars
<1>2. QED
  BY <1>1, TerminateBecomes, TowardEntry

(* Who is reaped is no longer on the way. *)
LEMMA TowardReapWorker ==
  ASSUME CInv, ReapWorker, NEW f \in Faults
  PROVE  Toward(f)' = Toward(f)
<1>1. /\ p_list \in Seq(Worker) /\ scan \in 1 .. Len(p_list)
  <2>1. p_list \in Seq(Worker) /\ scan \in Nat /\ scan > 0 /\ scan <= Len(p_list)
    BY DEF CInv, Types, ReapWorker
  <2>2. QED
    BY <2>1, LenProperties
<1>2. p_list[scan] \notin Of(f)
  BY DEF ReapWorker, Alive, Of
<1>3. Run(f)' = Run(f) - One(p_list[scan] \in Of(f))
  BY <1>1, CountRemoveAt DEF ReapWorker, Run
<1>4. Run(f)' = Run(f)
  BY <1>2, <1>3, TowardTypes DEF One
<1>5. UNCHANGED <<faultlist, itter, queue_output, logger, exp>>
  BY DEF ReapWorker, loggerVars
<1>6. QED
  BY <1>4, <1>5 DEF Toward, Listed, InQueue, InHand

(* An output put into the queue. *)
LEMMA TowardPost ==
  ASSUME CInv, NEW f \in Faults, NEW k \in DOMAIN p_list, Post(k)
  PROVE  Toward(f)' = Toward(f)
<1> DEFINE e == [p_list[k] EXCEPT !.state = "ending"]
           g == p_list[k].fault
<1>1. /\ p_list \in Seq(Worker) /\ k \in 1 .. Len(p_list) /\ p_list[k] \in Worker
      /\ queue_output \in Seq(Entry)
  <2>1. p_list \in Seq(Worker) /\ queue_output \in Seq(Entry)
    BY DEF CInv, Types
  <2>2. QED
    BY <2>1, LenProperties, WorkerIs
<1>2. p_list[k].state = "readout" /\ p_list' = [p_list EXCEPT ![k] = e]
  BY DEF Post, Moves
<1>3. e \in Worker /\ e \notin Of(f) /\ (p_list[k] \in Of(f) <=> g = f) /\ g \in Faults
  BY <1>1, <1>2 DEF Worker, Of
<1> HIDE DEF e
<1>4. Run(f)' = Run(f) - One(g = f)
  <2>1. Count([p_list EXCEPT ![k] = e], Of(f))
          = Count(p_list, Of(f)) - One(p_list[k] \in Of(f)) + One(e \in Of(f))
    BY <1>1, <1>3, CountExcept
  <2>2. Run(f) \in Nat
    BY TowardTypes
  <2>3. QED
    BY <1>2, <1>3, <2>1, <2>2 DEF Run, One
<1>5. Listed(f)' = Listed(f) /\ InHand(f)' = InHand(f)
  BY DEF Post, Moves, loggerVars, Listed, InHand
<1>6. One(g = f) \in {0, 1} /\ Listed(f) \in Nat /\ InHand(f) \in Nat /\ Run(f) \in Nat
      /\ InQueue(f) \in Nat
  BY TowardTypes DEF One
<1>7. queue_output' = Append(queue_output, g)
  BY DEF Post
<1>8. g \in Entry
  BY <1>3 DEF Entry
<1>9. InQueue(f)' = InQueue(f) + One(g \in {f})
  BY <1>1, <1>7, <1>8, CountAppend DEF InQueue
<1>10. One(g \in {f}) = One(g = f)
  BY DEF One
<1>11. QED
  BY <1>4, <1>5, <1>6, <1>9, <1>10 DEF Toward

(* The logger takes a result out of the queue into its hands. *)
LEMMA TowardTake ==
  ASSUME CInv, NEW f \in Faults, TakeResult \/ TakeGoldenData \/ TakeBackup
  PROVE  Toward(f)' = Toward(f)
<1> DEFINE h == Head(queue_output)
<1>1. /\ queue_output # <<>> /\ queue_output' = Tail(queue_output) /\ exp' = h
      /\ UNCHANGED <<faultlist, itter, p_list>> /\ logger = "loop"
  BY DEF TakeResult, TakeGoldenData, TakeBackup, Take, loggerKeeps, controllerVars
<1>2. queue_output \in Seq(Entry)
  BY DEF CInv, Types
<1>3. InQueue(f)' = InQueue(f) - One(h \in {f})
  BY <1>1, <1>2, CountTail DEF InQueue
<1>4. InHand(f) = 0 /\ Listed(f)' = Listed(f) /\ Run(f)' = Run(f)
  BY <1>1 DEF InHand, One, Listed, Run
<1>5. InHand(f)' = One(h = f)
  <2>1. CASE TakeResult
    BY <1>1, <2>1 DEF TakeResult, InHand, One
  <2>2. CASE TakeGoldenData \/ TakeBackup
    <3>1. h \in {Pregolden, Golden, BackupIndex} /\ logger' # "writing"
      BY <1>1, <2>2 DEF TakeGoldenData, TakeBackup
    <3>2. h \notin Faults
      BY <3>1 DEF Pregolden, Golden, BackupIndex, Faults
    <3>3. QED
      BY <3>1, <3>2 DEF InHand, One
  <2>3. QED
    BY <2>1, <2>2
<1>6. One(h \in {f}) = One(h = f) /\ One(h = f) \in {0, 1}
  BY DEF One
<1>7. QED
  BY <1>3, <1>4, <1>5, <1>6, TowardTypes DEF Toward

LEMMA TowardWrite ==
  ASSUME CInv, NEW f \in Faults, WriteResult
  PROVE  Toward(f)' = Toward(f) - One(exp = f)
<1>1. Listed(f)' = Listed(f) /\ Run(f)' = Run(f) /\ InQueue(f)' = InQueue(f)
  BY DEF WriteResult, loggerKeeps, controllerVars, Listed, Run, InQueue
<1>2. InHand(f) = One(exp = f) /\ InHand(f)' = 0
  BY DEF WriteResult, InHand, One
<1>3. QED
  BY <1>1, <1>2, TowardTypes DEF Toward

LEMMA TowardStopGroup ==
  ASSUME CInv, NEW f \in Faults, NEW signal, NEW interrupted, StopGroup(signal, interrupted)
  PROVE  Toward(f)' <= Toward(f)
<1>1. p_list \in Seq(Worker) /\ Len(p_list) \in Nat /\ DOMAIN p_list = 1 .. Len(p_list)
  <2>1. p_list \in Seq(Worker)
    BY DEF CInv, Types
  <2>2. QED
    BY <2>1, LenProperties
<1>2. DOMAIN p_list' = DOMAIN p_list
      /\ \A k \in DOMAIN p_list : p_list'[k] \in Of(f) => p_list[k] \in Of(f)
  <2>1. DOMAIN p_list' = DOMAIN p_list
    BY DEF StopGroup
  <2>2. ASSUME NEW k \in DOMAIN p_list, p_list'[k] \in Of(f) PROVE p_list[k] \in Of(f)
    <3>1. p_list[k] \in Worker
      BY WorkerIs
    <3>2. QED
      BY <2>2, <3>1 DEF StopGroup, Worker, Of
  <2>3. QED
    BY <2>1, <2>2
<1>3. Where(p_list', Of(f)) \subseteq Where(p_list, Of(f))
  BY <1>2 DEF Where
<1>4. IsFiniteSet(Where(p_list, Of(f)))
  BY <1>1, CountBounds
<1>5. /\ IsFiniteSet(Where(p_list', Of(f)))
      /\ Cardinality(Where(p_list', Of(f))) <= Cardinality(Where(p_list, Of(f)))
  BY <1>3, <1>4, FS_Subset
<1>6. Run(f)' <= Run(f) /\ Run(f)' \in Nat
  BY <1>5, FS_CardinalityType DEF Run, Count
<1>7. Listed(f)' = Listed(f) /\ InQueue(f)' = InQueue(f)
  BY DEF StopGroup, Listed, InQueue
<1>8. InHand(f)' <= InHand(f) /\ InHand(f)' \in Nat
  <2>1. exp' = exp /\ (logger' = logger \/ logger' = "killed")
    BY DEF StopGroup
  <2>2. QED
    BY <2>1 DEF InHand, One
<1>9. QED
  BY <1>6, <1>7, <1>8, TowardTypes DEF Toward

(* Whatever happens within a campaign, a fault is on its way no more often  *)
(* than before, and it stays until it is written unless there is a signal   *)
(* or its worker fails.                                                     *)
LEMMA TowardStep ==
  ASSUME CInv, Distinct(faultlist), NEW f \in Faults, Next, ~WriteResult, ~Return,
         ~\E m \in Modes : Launch(m)
  PROVE  /\ Toward(f)' <= Toward(f)
         /\ lost' = lost /\ ~stop_signal_received' => Toward(f)' = Toward(f)
<1> DEFINE Goal == /\ Toward(f)' <= Toward(f)
                   /\ lost' = lost /\ ~stop_signal_received' => Toward(f)' = Toward(f)
<1>1. Toward(f) \in Nat
  BY TowardTypes
<1>2. Toward(f)' = Toward(f) => Goal
  BY <1>1
<1>3. CASE StartWorker \/ TerminateQemu \/ ReapWorker
  BY <1>2, <1>3, TowardStartWorker, TowardTerminate, TowardReapWorker
<1>4. CASE HoldWorker \/ KeepWorker \/ EndScan \/ LeaveLoop \/ Stop \/ QemuNotFound
           \/ AssertionFails
           \/ \E m \in Modes : Refuse(m)
  <2>1. UNCHANGED <<faultlist, itter, p_list, queue_output, logger, exp>>
    BY <1>4 DEF HoldWorker, KeepWorker, EndScan, LeaveLoop, Stop, QemuNotFound,
                AssertionFails, Refuse, loggerVars, controllerVars, vars
  <2>2. Toward(f)' = Toward(f)
    BY <2>1 DEF Toward, Listed, Run, InQueue, InHand
  <2>3. QED
    BY <1>2, <2>2
<1>5. CASE Open \/ Close \/ StoreFault \/ EndBackup
  <2>1. UNCHANGED <<faultlist, itter, p_list, queue_output>>
        /\ logger # "writing" /\ logger' # "writing"
    BY <1>5 DEF Open, Close, StoreFault, EndBackup, loggerVars, loggerKeeps, controllerVars
  <2>2. QED
    BY <1>2, <2>1, TowardKept
<1>6. CASE TakeResult \/ TakeGoldenData \/ TakeBackup
  BY <1>2, <1>6, TowardTake
<1>7. CASE \E k \in DOMAIN p_list : Moving(k) \/ Post(k)
  BY <1>2, <1>7, TowardMoving, TowardPost
<1>8. CASE \E signal \in {"SIGINT", "SIGTERM"}, interrupted \in SUBSET Interruptible :
             StopGroup(signal, interrupted)
  <2>1. Toward(f)' <= Toward(f)
    BY <1>8, TowardStopGroup
  <2>2. stop_signal_received' = TRUE
    BY <1>8 DEF StopGroup
  <2>3. QED
    BY <2>1, <2>2
<1>9. QED
  BY <1>3, <1>4, <1>5, <1>6, <1>7, <1>8 DEF Next, Controller, Logger, Moving

(* The faults of a campaign are each in its list once.                      *)
LEMMA TowardLaunch ==
  ASSUME CInv, NEW m \in Modes, Launch(m), NEW f \in Faults
  PROVE  /\ Distinct(faultlist') /\ Len(faultlist') <= NumFaults
         /\ Toward(f)' = One(f \in ToRun(m))
<1> DEFINE F == ToRun(m)
<1>1. F \subseteq Faults
  BY DEF ToRun, Missing, StoredFaults
<1>2. IsFiniteSet(Faults) /\ Cardinality(Faults) = NumFaults
  BY FS_Interval, ParameterAssumption DEF Faults
<1>3. IsFiniteSet(F) /\ Cardinality(F) <= NumFaults /\ Cardinality(F) \in Nat
  BY <1>1, <1>2, FS_Subset, FS_CardinalityType
<1>4. PICK n \in Nat : n = Cardinality(F)
  BY <1>3
<1> HIDE DEF F
<1>5. /\ faultlist' \in [1 .. n -> F] /\ DOMAIN faultlist' = 1 .. n
      /\ \A i, j \in 1 .. n : i < j => faultlist'[i] < faultlist'[j]
  BY <1>4 DEF Launch, InOrder, F
<1>6. Len(faultlist') = n
  BY <1>5
<1>7. \A i, j \in 1 .. n : faultlist'[i] = faultlist'[j] => i = j
  <2>1. \A i \in 1 .. n : faultlist'[i] \in Int
    <3>1. \A g \in Faults : g \in Int
      BY ParameterAssumption DEF Faults
    <3>2. \A i \in 1 .. n : faultlist'[i] \in F
      BY <1>5
    <3>3. QED
      BY <1>1, <3>1, <3>2
  <2>2. \A i, j \in 1 .. n : i # j => i < j \/ j < i
    OBVIOUS
  <2>3. QED
    BY <1>5, <2>1, <2>2
<1>8. \A g \in F : \E i \in 1 .. n : faultlist'[i] = g
  <2>1. faultlist' \in Injection(1 .. n, F)
    BY <1>5, <1>7 DEF Injection, IsInjective
  <2>2. Cardinality(1 .. n) = n
    BY FS_Interval
  <2>3. faultlist' \in Surjection(1 .. n, F)
    BY <1>3, <1>4, <2>1, <2>2, FS_Injection
  <2>4. QED
    BY <2>3 DEF Surjection
<1>9. Listed(f)' = One(f \in F)
  <2>1. itter' = 0 /\ \A i \in 1 .. n : i > 0
    BY DEF Launch
  <2>2. (\E i \in 1 .. n : i > 0 /\ faultlist'[i] = f) <=> f \in F
    BY <1>5, <1>8, <2>1
  <2>3. QED
    BY <1>6, <2>1, <2>2 DEF Listed, One
<1>10. Run(f)' = 0 /\ InHand(f)' = 0
  BY CountEmpty DEF Launch, Run, InHand, One
<1>11. InQueue(f)' = 0
  <2>1. queue_output' \in {<<>>, GoldenData}
    BY DEF Launch
  <2>2. \A j \in DOMAIN GoldenData : GoldenData[j] \in {Pregolden, Golden, BackupIndex}
    BY DEF GoldenData
  <2>3. f \notin {Pregolden, Golden, BackupIndex}
    BY DEF Pregolden, Golden, BackupIndex, Faults
  <2>4. Where(queue_output', {f}) = {}
    BY <2>1, <2>2, <2>3 DEF Where
  <2>5. QED
    BY <2>4, FS_EmptySet DEF InQueue, Count
<1>12. QED
  BY <1>3, <1>4, <1>5, <1>6, <1>7, <1>9, <1>10, <1>11 DEF Toward, Distinct, F, One

LEMMA TowardReturn ==
  ASSUME CInv, NEW f \in Faults, Return
  PROVE  Toward(f)' <= Toward(f)
<1>1. /\ UNCHANGED <<faultlist, itter, logger, exp>> /\ p_list' = <<>> /\ queue_output' = <<>>
  BY DEF Return, loggerVars
<1>2. Run(f)' = 0 /\ InQueue(f)' = 0
  BY <1>1, CountEmpty DEF Run, InQueue
<1>3. Listed(f)' = Listed(f) /\ InHand(f)' = InHand(f)
  BY <1>1 DEF Listed, InHand
<1>4. QED
  BY <1>2, <1>3, TowardTypes DEF Toward

-----------------------------------------------------------------------------
(* Where controller and logger are, and what the file looks like then.      *)
Backup == [fault_count : {NumFaults}, stored : 0 .. NumFaults]

FileShape ==
  [pregolden : BOOLEAN, golden : BOOLEAN, backup : {NULL} \cup Backup,
   results : [Faults -> Nat], begun : SUBSET Faults]

AtWork == {"opening", "loop", "writing", "backup"}

PlaceTypes ==
  /\ sessions \in 0 .. MaxSessions /\ mode \in {NULL} \cup Modes
  /\ ctl \in {"idle", "top", "scan", "join", "stopping", "draining", "failed"}
  /\ stop_signal_received \in BOOLEAN
  /\ outcome \in {NULL, "refused", "stopped", "finished"}
  /\ logger \in {"off", "opening", "loop", "writing", "backup", "failed", "killed"}
  /\ <<log_pregoldenrun, log_goldenrun, log_config>> \in BOOLEAN \X BOOLEAN \X BOOLEAN
  /\ exp \in {NULL, Pregolden, Golden, BackupIndex} \cup Faults

Control ==
  /\ logger \in AtWork => ctl # "idle"
  /\ ctl # "idle" /\ logger = "killed" => stop_signal_received
  /\ HasStart => logger # "failed"
  /\ logger = "writing" => exp \in Faults
  /\ logger = "off" /\ ctl # "idle" /\ ~stop_signal_received => ~(num_exp > 0)
  /\ ctl # "idle" => sessions >= 1
  /\ outcome = "finished" => ctl = "idle"
  /\ Distinct(faultlist) /\ Len(faultlist) <= NumFaults

LEMMA PlacesInit == Init => PlaceTypes /\ Control
<1> SUFFICES ASSUME Init PROVE PlaceTypes /\ Control
  OBVIOUS
<1>1. PlaceTypes
  <2>1. 0 \in 0 .. MaxSessions
    BY ParameterAssumption
  <2>2. log_pregoldenrun = FALSE /\ log_goldenrun = FALSE /\ log_config = FALSE
    BY DEF Init
  <2>3. <<log_pregoldenrun, log_goldenrun, log_config>> \in BOOLEAN \X BOOLEAN \X BOOLEAN
    BY <2>2
  <2>4. QED
    BY <2>1, <2>3 DEF Init, PlaceTypes
<1>2. Distinct(faultlist) /\ Len(faultlist) <= NumFaults
  <2>1. faultlist = <<>> /\ DOMAIN <<>> = {} /\ Len(<<>>) = 0
    BY DEF Init
  <2>2. QED
    BY <2>1, ParameterAssumption DEF Distinct
<1>3. QED
  BY <1>1, <1>2, NullAssumption DEF Init, Control, AtWork

LEMMA PlaceTypesStep ==
  ASSUME CInv, PlaceTypes, [Next]_vars
  PROVE  PlaceTypes'
<1>1. CASE \E m \in Modes : Launch(m) \/ Refuse(m)
  <2>1. PICK m \in Modes : Launch(m) \/ Refuse(m)
    BY <1>1
  <2>2. sessions' \in 0 .. MaxSessions /\ mode' \in {NULL} \cup Modes
    BY <2>1, ParameterAssumption DEF Launch, Refuse, PlaceTypes
  <2>3. FreshRun(m) \in BOOLEAN
    BY DEF FreshRun
  <2>4. <<log_pregoldenrun', log_goldenrun', log_config'>> \in BOOLEAN \X BOOLEAN \X BOOLEAN
    BY <2>1, <2>3 DEF Launch, Refuse, PlaceTypes, loggerVars
  <2>5. QED
    BY <2>1, <2>2, <2>4 DEF Launch, Refuse, PlaceTypes, loggerVars
<1>2. CASE Controller
  BY <1>2 DEF Controller, StartWorker, HoldWorker, KeepWorker, TerminateQemu, QemuNotFound,
     AssertionFails, Overdue, ReapWorker, EndScan, LeaveLoop, Return, loggerVars, PlaceTypes
<1>3. CASE Logger
  <2>1. UNCHANGED <<sessions, mode, ctl, stop_signal_received, outcome>>
    BY <1>3 DEF Logger, Open, Close, TakeResult, WriteResult, TakeGoldenData, TakeBackup,
                StoreFault, EndBackup, loggerKeeps, controllerVars
  <2>2. CASE TakeResult \/ TakeGoldenData \/ TakeBackup
    <3>1. exp' = Head(queue_output) /\ queue_output # <<>>
      BY <2>2 DEF TakeResult, TakeGoldenData, TakeBackup, Take
    <3>2. queue_output \in Seq(Entry)
      BY DEF CInv, Types
    <3>3. exp' \in Entry
      BY <3>1, <3>2, CountTail
    <3>4. QED
      BY <2>1, <2>2, <3>3, ZenonT(40) DEF TakeResult, TakeGoldenData, TakeBackup,
         PlaceTypes, Entry
  <2>3. CASE Open \/ Close \/ WriteResult \/ StoreFault \/ EndBackup
    BY <2>1, <2>3 DEF Open, Close, WriteResult, StoreFault, EndBackup, loggerVars,
       PlaceTypes
  <2>4. QED
    BY <1>3, <2>2, <2>3 DEF Logger
<1>4. CASE \E k \in DOMAIN p_list : Moving(k) \/ Post(k)
  BY <1>4 DEF Moving, Begin, QemuFails, QemuEnds, Post, Exit, TimePasses, Moves, loggerVars,
     PlaceTypes
<1>5. CASE Stop \/ UNCHANGED vars
  BY <1>5 DEF Stop, vars, controllerVars, loggerVars, PlaceTypes
<1>6. CASE \E signal \in {"SIGINT", "SIGTERM"}, interrupted \in SUBSET Interruptible :
             StopGroup(signal, interrupted)
  BY <1>6 DEF StopGroup, PlaceTypes
<1>7. QED
  BY <1>1, <1>2, <1>3, <1>4, <1>5, <1>6 DEF Next, Moving

LEMMA ControlStep ==
  ASSUME CInv, PlaceTypes, Control, [Next]_vars
  PROVE  Control'
<1>1. CASE \E m \in Modes : Launch(m)
  <2>1. PICK m \in Modes : Launch(m)
    BY <1>1
  <2>2. 1 \in Faults
    BY ParameterAssumption DEF Faults
  <2>3. Distinct(faultlist') /\ Len(faultlist') <= NumFaults
    BY <2>1, <2>2, TowardLaunch
  <2>4. sessions' >= 1
    BY <2>1 DEF Launch, PlaceTypes
  <2>5. QED
    BY <2>1, <2>3, <2>4, NullAssumption DEF Launch, Control, Distinct
<1>2. CASE \E m \in Modes : Refuse(m)
  BY <1>2 DEF Refuse, Control, loggerVars, AtWork
<1>3. CASE Controller
  <2>1. UNCHANGED <<faultlist, num_exp, logger, exp, stop_signal_received, sessions>>
    BY <1>3 DEF Controller, StartWorker, HoldWorker, KeepWorker, TerminateQemu,
       QemuNotFound, AssertionFails, Overdue, ReapWorker, EndScan, LeaveLoop, Return,
       loggerVars
  <2>2. ctl # "idle"
    BY <1>3 DEF Controller, StartWorker, HoldWorker, KeepWorker, TerminateQemu,
       QemuNotFound, AssertionFails, Overdue, ReapWorker, EndScan, LeaveLoop, Return,
       Looping, Scanning
  <2>3. CASE Return
    BY <2>1, <2>2, <2>3 DEF Return, LoggerExited, Control, AtWork
  <2>4. CASE ~Return
    <3>1. outcome' = outcome /\ ctl' # "idle"
      BY <1>3, <2>2, <2>4 DEF Controller, StartWorker, HoldWorker, KeepWorker,
         TerminateQemu, QemuNotFound, AssertionFails, Overdue, ReapWorker, EndScan,
         LeaveLoop
    <3>2. QED
      BY <2>1, <2>2, <3>1 DEF Control
  <2>5. QED
    BY <2>3, <2>4
<1>4. CASE Logger
  <2>1. UNCHANGED <<sessions, ctl, stop_signal_received, outcome, faultlist>>
    BY <1>4 DEF Logger, Open, Close, TakeResult, WriteResult, TakeGoldenData, TakeBackup,
                StoreFault, EndBackup, loggerKeeps, controllerVars
  <2>2. logger \in AtWork /\ ctl # "idle"
    BY <1>4 DEF Logger, Open, Close, TakeResult, WriteResult, TakeGoldenData, TakeBackup,
       Take, StoreFault, EndBackup, AtWork, Control
  <2>3. logger' # "killed"
    BY <1>4 DEF Logger, Open, Close, TakeResult, WriteResult, TakeGoldenData, TakeBackup,
       Take, StoreFault, EndBackup, loggerVars
  <2>4. HasStart => logger' # "failed"
    BY <1>4 DEF Logger, Open, Close, TakeResult, WriteResult, TakeGoldenData, TakeBackup,
       Take, StoreFault, EndBackup, loggerVars
  <2>5. logger' = "writing" => exp' \in Faults
    BY <1>4 DEF Logger, Open, Close, TakeResult, WriteResult, TakeGoldenData, TakeBackup,
       Take, StoreFault, EndBackup, loggerVars
  <2>6. logger' = "off" /\ ~stop_signal_received => ~(num_exp' > 0)
    BY <1>4 DEF Logger, Open, Close, TakeResult, WriteResult, TakeGoldenData, TakeBackup,
       Take, StoreFault, EndBackup, loggerVars, Wanted
  <2>7. QED
    BY <2>1, <2>2, <2>3, <2>4, <2>5, <2>6 DEF Control
<1>5. CASE \E k \in DOMAIN p_list : Moving(k) \/ Post(k)
  BY <1>5 DEF Moving, Begin, QemuFails, QemuEnds, Post, Exit, TimePasses, Moves, loggerVars,
     Control
<1>6. CASE Stop \/ UNCHANGED vars
  BY <1>6 DEF Stop, vars, controllerVars, loggerVars, Control
<1>7. CASE \E signal \in {"SIGINT", "SIGTERM"}, interrupted \in SUBSET Interruptible :
             StopGroup(signal, interrupted)
  BY <1>7 DEF StopGroup, Control, AtWork
<1>8. QED
  BY <1>1, <1>2, <1>3, <1>4, <1>5, <1>6, <1>7 DEF Next, Moving

-----------------------------------------------------------------------------
(* The file.  Only the logger changes it.                                   *)
FileIs ==
  /\ file \in {NULL} \cup FileShape
  /\ ctl # "idle" /\ logger \notin {"opening", "killed"} => file \in FileShape
  /\ logger = "backup" => file.backup \in Backup

LEMMA NewFileIs == NewFile \in FileShape /\ \A f \in Faults : NewFile.results[f] = 0
  BY DEF NewFile, FileShape

(* What each step of the logger does to the file. *)
LEMMA OpenFile ==
  ASSUME FileIs, Open
  PROVE  /\ file' \in FileShape
         /\ \/ file' = NewFile /\ (FreshRun(mode) \/ file = NULL)
            \/ /\ file \in FileShape /\ ~FreshRun(mode) /\ file # NULL
               /\ file'.backup = file.backup /\ file'.golden = file.golden
               /\ file'.pregolden = file.pregolden
               /\ \/ ClearsResults /\ file'.begun = {} /\ \A f \in Faults : file'.results[f] = 0
                  \/ ~ClearsResults /\ file' = file
<1>1. CASE FreshRun(mode) \/ file = NULL
  BY <1>1, NewFileIs DEF Open
<1>2. CASE ~(FreshRun(mode) \/ file = NULL)
  <2>1. file \in FileShape
    BY <1>2 DEF FileIs
  <2>2. CASE ClearsResults
    <3>1. file' = [file EXCEPT !.results = [f \in Faults |-> 0], !.begun = {}]
      BY <1>2, <2>2 DEF Open
    <3>2. QED
      BY <1>2, <2>1, <2>2, <3>1 DEF FileShape
  <2>3. CASE ~ClearsResults
    BY <1>2, <2>1, <2>3 DEF Open
  <2>4. QED
    BY <2>2, <2>3
<1>3. QED
  BY <1>1, <1>2

LEMMA LoggersFile ==
  ASSUME FileIs, Control, Logger, ~Open
  PROVE  file \in FileShape
<1>1. logger \in {"loop", "writing", "backup"}
  BY DEF Logger, Close, TakeResult, WriteResult, TakeGoldenData, TakeBackup, Take,
     StoreFault, EndBackup
<1>2. QED
  BY <1>1 DEF FileIs, Control, AtWork

LEMMA TakeResultFile ==
  ASSUME file \in FileShape, TakeResult
  PROVE  /\ file' \in FileShape /\ UNCHANGED <<file.backup, file.golden, file.pregolden, file.results>>
         /\ exp' \in Faults /\ file'.begun = file.begun \cup {exp'}
<1>1. file' = [file EXCEPT !.begun = @ \cup {exp'}] /\ exp' \in Faults
  BY DEF TakeResult, Take
<1>2. QED
  BY <1>1 DEF FileShape

LEMMA WriteResultFile ==
  ASSUME file \in FileShape, Control, WriteResult
  PROVE  /\ file' \in FileShape /\ UNCHANGED <<file.backup, file.golden, file.pregolden>>
         /\ exp \in Faults /\ file'.begun = file.begun \ {exp}
         /\ \A f \in Faults : file'.results[f] = file.results[f] + One(exp = f)
<1>1. file' = [file EXCEPT !.begun = @ \ {exp}, !.results[exp] = @ + 1] /\ exp \in Faults
  BY DEF WriteResult, Control
<1>2. PICK r \in [Faults -> Nat] : r = file.results
  BY DEF FileShape
<1>3. [r EXCEPT ![exp] = @ + 1] \in [Faults -> Nat]
  BY <1>1, <1>2
<1>4. file'.results = [r EXCEPT ![exp] = @ + 1]
  BY <1>1, <1>2 DEF FileShape
<1>5. \A f \in Faults : file'.results[f] = file.results[f] + One(exp = f)
  BY <1>1, <1>2, <1>4 DEF One
<1>6. /\ file' \in FileShape /\ UNCHANGED <<file.backup, file.golden, file.pregolden>>
      /\ file'.begun = file.begun \ {exp}
  BY <1>1, <1>2, <1>3 DEF FileShape
<1>7. QED
  BY <1>1, <1>5, <1>6

LEMMA TakeGoldenDataFile ==
  ASSUME file \in FileShape, TakeGoldenData
  PROVE  /\ file' \in FileShape /\ UNCHANGED <<file.backup, file.results, file.begun>>
         /\ (file.golden \/ Head(queue_output) = Golden) => file'.golden
         /\ (file.pregolden \/ Head(queue_output) = Pregolden) => file'.pregolden
<1>1. Pregolden # Golden
  BY DEF Pregolden, Golden
<1>2. CASE Head(queue_output) = Pregolden /\ file' = [file EXCEPT !.pregolden = TRUE]
  <2>1. file' \in FileShape /\ file'.pregolden = TRUE
        /\ UNCHANGED <<file.backup, file.results, file.begun, file.golden>>
    BY <1>2 DEF FileShape
  <2>2. QED
    BY <1>1, <1>2, <2>1
<1>3. CASE Head(queue_output) = Golden /\ file' = [file EXCEPT !.golden = TRUE]
  <2>1. file' \in FileShape /\ file'.golden = TRUE
        /\ UNCHANGED <<file.backup, file.results, file.begun, file.pregolden>>
    BY <1>3 DEF FileShape
  <2>2. QED
    BY <1>1, <1>3, <2>1
<1>4. QED
  BY <1>2, <1>3 DEF TakeGoldenData

LEMMA BackupFile ==
  ASSUME file \in FileShape, FileIs, TakeBackup \/ StoreFault
  PROVE  /\ file' \in FileShape /\ file'.backup \in Backup
         /\ UNCHANGED <<file.golden, file.pregolden, file.results, file.begun>>
<1>1. CASE TakeBackup
  <2>1. file' = [file EXCEPT !.backup = [fault_count |-> NumFaults, stored |-> 0]]
    BY <1>1 DEF TakeBackup
  <2>2. [fault_count |-> NumFaults, stored |-> 0] \in Backup
    BY ParameterAssumption DEF Backup
  <2>3. QED
    BY <2>1, <2>2 DEF FileShape
<1>2. CASE StoreFault
  <2>1. file' = [file EXCEPT !.backup.stored = @ + 1] /\ file.backup \in Backup
        /\ file.backup.stored < NumFaults
    BY <1>2 DEF StoreFault, FileIs
  <2>2. PICK b \in Backup : b = file.backup
    BY <2>1
  <2>3. [b EXCEPT !.stored = @ + 1] \in Backup
    BY <2>1, <2>2, ParameterAssumption DEF Backup
  <2>4. file' = [file EXCEPT !.backup = [b EXCEPT !.stored = @ + 1]]
    BY <2>1, <2>2
  <2>5. QED
    BY <2>3, <2>4 DEF FileShape
<1>3. QED
  BY <1>1, <1>2

LEMMA OthersFile ==
  ASSUME [Next]_vars, ~Logger
  PROVE  file' = file
  BY DEF Next, Launch, Refuse, Controller, StartWorker, HoldWorker, KeepWorker,
     TerminateQemu, QemuNotFound, AssertionFails, Overdue, ReapWorker, EndScan, LeaveLoop,
     Return, Begin, QemuFails, QemuEnds, Post, Exit, TimePasses, Moves, Stop, StopGroup,
     vars

LEMMA FileStep ==
  ASSUME CInv, PlaceTypes, Control, FileIs, [Next]_vars
  PROVE  FileIs'
<1>1. CASE Open
  BY <1>1, OpenFile DEF Open, FileIs
<1>2. CASE TakeResult \/ WriteResult \/ TakeGoldenData
  <2>1. file' \in FileShape
    BY <1>2, LoggersFile, TakeResultFile, WriteResultFile, TakeGoldenDataFile DEF Logger,
       Open, TakeResult, WriteResult, TakeGoldenData, Take
  <2>2. logger' # "backup"
    BY <1>2 DEF TakeResult, WriteResult, TakeGoldenData, Take
  <2>3. QED
    BY <2>1, <2>2 DEF FileIs
<1>3. CASE TakeBackup \/ StoreFault
  <2>1. file \in FileShape
    BY <1>3, LoggersFile DEF Logger, Open, TakeBackup, StoreFault, Take
  <2>2. QED
    BY <1>3, <2>1, BackupFile DEF FileIs
<1>4. CASE Close \/ EndBackup
  <2>1. file \in FileShape /\ file' = file /\ logger' # "backup"
    BY <1>4, LoggersFile DEF Logger, Open, Close, EndBackup
  <2>2. QED
    BY <2>1 DEF FileIs
<1>5. CASE ~Logger
  <2>1. file' = file
    BY <1>5, OthersFile
  <2>2. CASE \E m \in Modes : Launch(m)
    BY <2>1, <2>2 DEF Launch, FileIs
  <2>3. CASE ~\E m \in Modes : Launch(m)
    <3>1. ctl' # "idle" => ctl # "idle"
      BY <1>5, <2>3 DEF Next, Refuse, Controller, StartWorker, HoldWorker, KeepWorker,
         TerminateQemu, QemuNotFound, AssertionFails, Overdue, ReapWorker, EndScan,
         LeaveLoop, Return, Begin, QemuFails, QemuEnds, Post, Exit, TimePasses, Moves, Stop,
         StopGroup, vars, controllerVars, Looping, Scanning
    <3>2. logger' = logger \/ logger' = "killed"
      BY <1>5, <2>3 DEF Next, Refuse, Controller, StartWorker, HoldWorker, KeepWorker,
         TerminateQemu, QemuNotFound, AssertionFails, Overdue, ReapWorker, EndScan,
         LeaveLoop, Return, Begin, QemuFails, QemuEnds, Post, Exit, TimePasses, Moves, Stop,
         StopGroup, vars, loggerVars
    <3>3. QED
      BY <2>1, <3>1, <3>2 DEF FileIs
  <2>4. QED
    BY <2>2, <2>3
<1>6. QED
  BY <1>1, <1>2, <1>3, <1>4, <1>5 DEF Logger

-----------------------------------------------------------------------------
(* Results.  A file that the logger has yet to open may be about to lose    *)
(* the results it has.                                                      *)
HasFile == file # NULL \/ (ctl # "idle" /\ logger \notin {"opening", "killed"})

Renewed == logger = "opening" /\ (FreshRun(mode) \/ file = NULL \/ ClearsResults)
Recorded(f) == IF Renewed THEN 0 ELSE file.results[f]

(* All of a campaign's faults leave a record: there is a start point, and   *)
(* no two are remembered alike.                                             *)
AllRecorded ==
  HasStart /\ \A f, g \in Faults : FaultString(f) = FaultString(g) => f = g

Recording ==
  \A f \in Faults :
    /\ Toward(f) <= 1
    /\ mode # "append" /\ logger \in AtWork /\ Toward(f) > 0 => Recorded(f) = 0
    /\ AllRecorded /\ lost = 0 /\ ctl # "idle" /\ ~stop_signal_received /\ mode # "golden" =>
         Toward(f) > 0 \/ Recorded(f) >= 1
    /\ HasFile => file.results[f] + (IF ctl = "idle" THEN 0 ELSE Toward(f)) <= sessions

LEMMA RecordingInit == Init => Recording
<1> SUFFICES ASSUME Init, NEW f \in Faults
             PROVE  Toward(f) = 0 /\ logger \notin AtWork /\ ctl = "idle" /\ file = NULL
  BY DEF Recording, HasFile
<1>1. Run(f) = 0 /\ InQueue(f) = 0
  BY CountEmpty DEF Init, Run, InQueue
<1>2. Listed(f) = 0 /\ InHand(f) = 0
  <2>1. faultlist = <<>> /\ Len(<<>>) = 0 /\ logger = "off"
    BY DEF Init
  <2>2. QED
    BY <2>1 DEF Listed, InHand, One
<1>3. QED
  BY <1>1, <1>2 DEF Init, Toward, AtWork

(* A file that is reused holds as many faults as it counts. *)
LEMMA ReusedFile ==
  ASSUME FileIs, NEW m \in Modes, Launch(m), Reuses(m)
  PROVE  file \in FileShape /\ StoredFaults = Faults /\ m # "golden" /\ m # "overwrite"
<1>1. file \in FileShape /\ file # NULL /\ m # "overwrite" /\ m # "golden"
  BY DEF FileIs, Reuses, Launch
<1>2. file.backup \in Backup /\ file.backup.stored = file.backup.fault_count
  BY <1>1 DEF Launch, BackupUsable, FileShape
<1>3. file.backup.stored = NumFaults
  BY <1>2 DEF Backup
<1>4. QED
  BY <1>1, <1>3, ParameterAssumption DEF StoredFaults, Faults

LEMMA RecordingLaunch ==
  ASSUME CInv, PlaceTypes, Control, FileIs, Recording, NEW m \in Modes, Launch(m)
  PROVE  Recording'
<1>1. /\ mode' = m /\ file' = file /\ logger' = "opening" /\ ctl = "idle" /\ ctl' = "top"
      /\ sessions' = sessions + 1 /\ sessions \in Nat
      /\ m \in {"default", "append", "missing", "overwrite", "golden"}
  BY ParameterAssumption DEF Launch, PlaceTypes
<1>2. Renewed' <=> FreshRun(m) \/ file = NULL \/ (Reuses(m) /\ m = "default")
  BY <1>1 DEF Renewed, FreshRun, ClearsResults, Reuses
<1>3. ASSUME NEW f \in Faults
      PROVE  /\ Toward(f)' \in {0, 1} /\ (Toward(f)' > 0 <=> f \in ToRun(m))
  BY TowardLaunch DEF One
<1>4. ASSUME NEW f \in Faults, m # "append", f \in ToRun(m) PROVE Recorded(f)' = 0
  <2>1. CASE ~Reuses(m)
    BY <1>2, <1>4, <2>1 DEF FreshRun, Recorded
  <2>2. CASE Reuses(m)
    <3>1. file \in FileShape /\ m # "golden" /\ m # "overwrite"
      BY <2>2, ReusedFile
    <3>2. CASE m = "default"
      BY <1>2, <2>2, <3>2 DEF Recorded
    <3>3. CASE m = "missing"
      <4>1. f \in Missing
        BY <1>4, <2>2, <3>3 DEF ToRun
      <4>2. file.results[f] \in Nat /\ ~(file.results[f] > 0)
        BY <3>1, <4>1 DEF Missing, Simulated, FileShape
      <4>3. file'.results[f] = 0
        BY <1>1, <4>2
      <4>4. QED
        BY <4>3 DEF Recorded
    <3>4. QED
      BY <1>1, <1>4, <3>1, <3>2, <3>3
  <2>3. QED
    BY <2>1, <2>2
<1>5. ASSUME NEW f \in Faults, AllRecorded, m # "golden", f \notin ToRun(m)
      PROVE  Recorded(f)' >= 1
  <2>1. Reuses(m)
    BY <1>5 DEF ToRun
  <2>2. file \in FileShape /\ StoredFaults = Faults
    BY <2>1, ReusedFile
  <2>3. m = "missing" /\ f \notin Missing
    BY <1>5, <2>1, <2>2 DEF ToRun
  <2>4. PICK g \in Faults : file.results[g] > 0 /\ FaultString(g) = FaultString(f)
    BY <2>2, <2>3 DEF Missing, Simulated
  <2>5. f = g
    BY <1>5, <2>4 DEF AllRecorded
  <2>6. ~Renewed'
    BY <1>2, <2>1, <2>3 DEF Reuses, FreshRun
  <2>7. Recorded(f)' = file.results[f] /\ file.results[f] \in Nat
    BY <1>1, <2>2, <2>6 DEF Recorded, FileShape
  <2>8. QED
    BY <2>4, <2>5, <2>7
<1>6. ASSUME NEW f \in Faults, HasFile' PROVE file'.results[f] + Toward(f)' <= sessions'
  <2>1. HasFile /\ file \in FileShape
    BY <1>1, <1>6 DEF HasFile, FileIs
  <2>2. file.results[f] <= sessions /\ file.results[f] \in Nat
    BY <1>1, <2>1 DEF Recording, FileShape
  <2>3. QED
    BY <1>1, <1>3, <2>2
<1>7. QED
  BY <1>1, <1>3, <1>4, <1>5, <1>6 DEF Recording

(* Only WriteResult adds to the results of an open file. *)
LEMMA RecordedKept ==
  ASSUME FileIs, Control, [Next]_vars, ctl # "idle", logger' # "killed", NEW f \in Faults
  PROVE  Recorded(f)' = Recorded(f) + (IF WriteResult THEN One(exp = f) ELSE 0)
         /\ (logger # "killed" => Recorded(f) \in Nat)
<1>1. logger # "killed" => Recorded(f) \in Nat
  BY DEF FileIs, FileShape, Recorded, Renewed
<1>2. CASE Open
  <2>1. logger = "opening" /\ logger' = "loop" /\ ~WriteResult
    BY <1>2 DEF Open, WriteResult
  <2>2. Recorded(f)' = file'.results[f]
    BY <2>1 DEF Recorded, Renewed
  <2>3. Recorded(f) = file'.results[f]
    BY <1>2, <2>1, OpenFile, NewFileIs DEF Recorded, Renewed
  <2>4. QED
    BY <1>1, <2>1, <2>2, <2>3
<1>3. CASE Logger /\ ~Open
  <2>1. file \in FileShape
    BY <1>3, LoggersFile
  <2>2. logger # "opening" /\ logger' # "opening"
    BY <1>3 DEF Logger, Close, TakeResult, WriteResult, TakeGoldenData, TakeBackup, Take,
       StoreFault, EndBackup, loggerVars
  <2>3. Recorded(f) = file.results[f] /\ Recorded(f)' = file'.results[f] /\ logger # "killed"
    <3>1. logger # "killed"
      BY <1>3 DEF Logger, Close, TakeResult, WriteResult, TakeGoldenData, TakeBackup, Take,
                  StoreFault, EndBackup
    <3>2. QED
      BY <2>2, <3>1 DEF Recorded, Renewed
  <2>4. CASE WriteResult
    BY <1>1, <2>1, <2>3, <2>4, WriteResultFile
  <2>5. CASE ~WriteResult
    <3>1. file'.results = file.results
      BY <1>3, <2>1, <2>5, TakeResultFile, TakeGoldenDataFile, BackupFile DEF Logger, Close,
         EndBackup
    <3>2. QED
      BY <1>1, <2>3, <2>5, <3>1
  <2>6. QED
    BY <2>4, <2>5
<1>4. CASE ~Logger
  <2>1. file' = file /\ ~WriteResult
    BY <1>4, OthersFile DEF Logger
  <2>2. mode' = mode /\ logger' = logger
    BY <1>4 DEF Next, Launch, Refuse, Controller, StartWorker, HoldWorker, KeepWorker,
       TerminateQemu, QemuNotFound, AssertionFails, Overdue, ReapWorker, EndScan, LeaveLoop,
       Return, Begin, QemuFails, QemuEnds, Post, Exit, TimePasses, Moves, Stop, StopGroup,
       vars, controllerVars, loggerVars
  <2>3. Recorded(f)' = Recorded(f)
    BY <2>1, <2>2 DEF Recorded, Renewed, FreshRun, ClearsResults, Reuses
  <2>4. CASE logger # "killed"
    BY <1>1, <2>1, <2>3, <2>4
  <2>5. CASE logger = "killed"
    BY <2>2, <2>5
  <2>6. QED
    BY <2>4, <2>5
<1>5. QED
  BY <1>2, <1>3, <1>4

(* A file, once there, is a file; results never become more but by         *)
(* WriteResult.                                                            *)
LEMMA ResultsStep ==
  ASSUME CInv, PlaceTypes, Control, FileIs, [Next]_vars, NEW f \in Faults, HasFile'
  PROVE  /\ file' \in FileShape /\ file'.results[f] \in Nat
         /\ \/ Open /\ file'.results[f] = 0
            \/ /\ HasFile /\ file \in FileShape
               /\ file'.results[f] = file.results[f] + (IF WriteResult THEN One(exp = f) ELSE 0)
<1>1. file' \in FileShape /\ file'.results[f] \in Nat
  <2>1. FileIs'
    BY FileStep
  <2>2. file' \in FileShape
    BY <2>1 DEF FileIs, HasFile
  <2>3. QED
    BY <2>2 DEF FileShape
<1>2. CASE Open
  <2>1. \/ file'.results[f] = 0 
        \/ file \in FileShape /\ file # NULL /\ file' = file
    BY <1>2, OpenFile, NewFileIs
  <2>2. ~WriteResult
    BY <1>2 DEF Open, WriteResult
  <2>3. QED
    BY <1>1, <1>2, <2>1, <2>2 DEF HasFile
<1>3. CASE Logger /\ ~Open
  <2>1. file \in FileShape
    BY <1>3, LoggersFile
  <2>2. HasFile
    <3>1. logger \in {"loop", "writing", "backup"}
      BY <1>3 DEF Logger, Close, TakeResult, WriteResult, TakeGoldenData, TakeBackup, Take,
         StoreFault, EndBackup
    <3>2. QED
      BY <3>1 DEF HasFile, Control, AtWork
  <2>3. CASE WriteResult
    BY <1>1, <2>1, <2>2, <2>3, WriteResultFile
  <2>4. CASE ~WriteResult
    <3>1. file'.results = file.results
      BY <1>3, <2>1, <2>4, TakeResultFile, TakeGoldenDataFile, BackupFile DEF Logger, Close,
         EndBackup
    <3>2. QED
      BY <1>1, <2>1, <2>2, <2>4, <3>1
  <2>5. QED
    BY <2>3, <2>4
<1>4. CASE ~Logger
  <2>1. file' = file /\ ~WriteResult
    BY <1>4, OthersFile DEF Logger
  <2>2. HasFile
    <3>1. CASE file # NULL
      BY <3>1 DEF HasFile
    <3>2. CASE ctl' # "idle" /\ logger' \notin {"opening", "killed"}
      <4>1. ~\E m \in Modes : Launch(m)
        BY <3>2 DEF Launch
      <4>2. logger' = logger \/ logger' = "killed"
        BY <1>4, <4>1 DEF Next, Refuse, Controller, StartWorker, HoldWorker, KeepWorker,
           TerminateQemu, QemuNotFound, AssertionFails, Overdue, ReapWorker, EndScan,
           LeaveLoop, Return, Begin, QemuFails, QemuEnds, Post, Exit, TimePasses, Moves,
           Stop, StopGroup, vars, loggerVars
      <4>3. ctl # "idle"
        BY <1>4, <3>2, <4>1 DEF Next, Refuse, Controller, StartWorker, HoldWorker,
           KeepWorker, TerminateQemu, QemuNotFound, AssertionFails, Overdue, ReapWorker,
           EndScan, LeaveLoop, Return, Begin, QemuFails, QemuEnds, Post, Exit, TimePasses,
           Moves, Stop, StopGroup, vars, controllerVars, Looping, Scanning
      <4>4. QED
        BY <3>2, <4>2, <4>3 DEF HasFile
    <3>3. QED
      BY <2>1, <3>1, <3>2 DEF HasFile
  <2>3. file \in FileShape
    BY <2>2 DEF FileIs, HasFile
  <2>4. QED
    BY <1>1, <2>1, <2>2, <2>3
<1>5. QED
  BY <1>2, <1>3, <1>4

LEMMA RecordingStep ==
  ASSUME CInv, PlaceTypes, Control, FileIs, Recording, [Next]_vars
  PROVE  Recording'
<1>1. CASE \E m \in Modes : Launch(m)
  BY <1>1, RecordingLaunch
<1>2. CASE UNCHANGED vars
  <2>1. \A f : Toward(f)' = Toward(f) /\ Recorded(f)' = Recorded(f)
    BY <1>2 DEF vars, controllerVars, loggerVars, Toward, Listed, Run, InQueue, InHand,
       Recorded, Renewed, FreshRun, ClearsResults, Reuses
  <2>2. QED
    BY <1>2, <2>1 DEF Recording, HasFile, vars, controllerVars, loggerVars
<1>3. CASE Next /\ ~\E m \in Modes : Launch(m)
  <2> DEFINE wrote(f) == IF WriteResult THEN One(exp = f) ELSE 0
  <2>1. ASSUME NEW f \in Faults
        PROVE  /\ Toward(f) \in {0, 1} /\ wrote(f) \in {0, 1}
               /\ Toward(f)' \in Nat /\ Toward(f)' <= Toward(f) - wrote(f)
               /\ lost' = lost /\ ~stop_signal_received' /\ ctl' # "idle" =>
                    Toward(f)' = Toward(f) - wrote(f)
    <3>1. Toward(f) \in {0, 1}
      <4>1. Toward(f) \in Nat /\ Toward(f) <= 1
        BY TowardTypes DEF Recording
      <4>2. QED
        BY <4>1
    <3>2. Toward(f)' \in Nat
      <4>1. CInv'
        BY InvariantStep
      <4>2. /\ Listed(f)' \in {0, 1} /\ InHand(f)' \in {0, 1}
        BY DEF Listed, InHand, One
      <4>3. Run(f)' \in Nat /\ InQueue(f)' \in Nat
        <5>1. p_list' \in Seq(Worker) /\ queue_output' \in Seq(Entry)
          BY <4>1 DEF CInv, Types
        <5>2. Len(p_list') \in Nat /\ Len(queue_output') \in Nat
          BY ONLY <5>1, LenProperties
        <5>3. Count(p_list', Of(f)) \in 0 .. Len(p_list')
          BY <5>1, CountBounds
        <5>4. Count(queue_output', {f}) \in 0 .. Len(queue_output')
          BY <5>1, CountBounds
        <5>5. QED
          BY <5>2, <5>3, <5>4 DEF Run, InQueue
      <4>4. QED
        BY <4>2, <4>3 DEF Toward
    <3>3. wrote(f) \in {0, 1}
      BY DEF One
    <3>4. CASE WriteResult
      BY <3>1, <3>2, <3>3, <3>4, TowardWrite
    <3>5. CASE Return
      <4>1. ~WriteResult /\ ctl' = "idle"
        BY <3>5 DEF Return, WriteResult, loggerVars
      <4>2. QED
        BY <3>1, <3>2, <3>3, <3>5, <4>1, TowardReturn
    <3>6. CASE ~WriteResult /\ ~Return
      <4>1. Distinct(faultlist)
        BY DEF Control
      <4>2. /\ Toward(f)' <= Toward(f)
            /\ lost' = lost /\ ~stop_signal_received' => Toward(f)' = Toward(f)
        BY <1>3, <3>6, <4>1, TowardStep
      <4>3. QED
        BY <3>1, <3>2, <3>3, <3>6, <4>2
    <3>7. QED
      BY <3>4, <3>5, <3>6
  <2>2. /\ ctl' # "idle" => ctl # "idle"
        /\ ctl # "idle" => mode' = mode
        /\ sessions' >= sessions /\ sessions \in Nat /\ sessions' \in Nat
        /\ stop_signal_received => stop_signal_received'
        /\ logger' \in AtWork => logger \in AtWork
        /\ ctl = "idle" => ctl' = "idle" /\ ~WriteResult
    <3>1. CASE \E m \in Modes : Refuse(m)
      BY <3>1 DEF Refuse, PlaceTypes, loggerVars, WriteResult, Control, AtWork
    <3>2. CASE Controller
      <4>1. UNCHANGED <<mode, sessions, stop_signal_received, logger>>
        BY <3>2 DEF Controller, StartWorker, HoldWorker, KeepWorker, TerminateQemu,
           QemuNotFound, AssertionFails, Overdue, ReapWorker, EndScan, LeaveLoop, Return,
           loggerVars
      <4>2. ctl # "idle"
        BY <3>2 DEF Controller, StartWorker, HoldWorker, KeepWorker, TerminateQemu,
           QemuNotFound, AssertionFails, Overdue, ReapWorker, EndScan, LeaveLoop, Return,
           Looping, Scanning
      <4>3. QED
        BY <4>1, <4>2 DEF PlaceTypes
    <3>3. CASE Logger
      <4>1. UNCHANGED <<mode, sessions, stop_signal_received, ctl>>
        BY <3>3 DEF Logger, Open, Close, TakeResult, WriteResult, TakeGoldenData,
           TakeBackup, StoreFault, EndBackup, loggerKeeps, controllerVars
      <4>2. logger \in AtWork
        BY <3>3 DEF Logger, Open, Close, TakeResult, WriteResult, TakeGoldenData,
           TakeBackup, Take, StoreFault, EndBackup, AtWork
      <4>3. QED
        BY <4>1, <4>2 DEF PlaceTypes, Control
    <3>4. CASE \E k \in DOMAIN p_list : Moving(k) \/ Post(k)
      BY <3>4 DEF Moving, Begin, QemuFails, QemuEnds, Post, Exit, TimePasses, Moves,
         loggerVars, PlaceTypes, Control, AtWork, WriteResult
    <3>5. CASE Stop
      BY <3>5 DEF Stop, vars, controllerVars, loggerVars, PlaceTypes, Control, AtWork,
                  WriteResult
    <3>6. CASE \E signal \in {"SIGINT", "SIGTERM"}, interrupted \in SUBSET Interruptible :
                 StopGroup(signal, interrupted)
      BY <3>6 DEF StopGroup, PlaceTypes, Control, AtWork
    <3>7. QED
      BY <1>3, <3>1, <3>2, <3>3, <3>4, <3>5, <3>6 DEF Next, Moving
  <2>3. ASSUME NEW f \in Faults, ctl # "idle", logger' # "killed"
        PROVE  /\ Recorded(f)' = Recorded(f) + wrote(f)
               /\ logger # "killed" => Recorded(f) \in Nat
    BY <2>3, RecordedKept
  <2> HIDE DEF wrote
  <2>4. ASSUME NEW f \in Faults, mode' # "append", logger' \in AtWork, Toward(f)' > 0
        PROVE  Recorded(f)' = 0
    <3>1. logger \in AtWork /\ ctl # "idle" /\ mode' = mode /\ logger' # "killed"
      BY <2>2, <2>4 DEF Control, AtWork
    <3>2. Toward(f) > 0 /\ wrote(f) = 0
      BY <2>1, <2>4
    <3>3. Recorded(f) = 0
      BY <2>4, <3>1, <3>2 DEF Recording
    <3>4. QED
      BY <2>3, <3>1, <3>2, <3>3
  <2>5. ASSUME NEW f \in Faults, AllRecorded, lost' = 0, ctl' # "idle",
               ~stop_signal_received', mode' # "golden"
        PROVE  Toward(f)' > 0 \/ Recorded(f)' >= 1
    <3>1. ctl # "idle" /\ ~stop_signal_received /\ mode # "golden"
      BY <2>2, <2>5
    <3>2. logger # "killed" /\ logger' # "killed"
      <4>1. Control'
        BY ControlStep
      <4>2. QED
        BY <2>5, <3>1, <4>1 DEF Control
    <3>3. lost = 0 /\ lost' = lost
      BY <1>3, <2>5, LostGrows
    <3>4. Toward(f) > 0 \/ Recorded(f) >= 1
      BY <2>5, <3>1, <3>3 DEF Recording
    <3>5. Recorded(f)' = Recorded(f) + wrote(f) /\ Recorded(f) \in Nat
      BY <2>3, <3>1, <3>2
    <3>6. QED
      BY <2>1, <2>5, <3>3, <3>4, <3>5
  <2>6. ASSUME NEW f \in Faults, HasFile'
        PROVE  file'.results[f] + (IF ctl' = "idle" THEN 0 ELSE Toward(f)') <= sessions'
    <3>1. CASE Open /\ file'.results[f] = 0
      <4>1. ctl # "idle" /\ sessions >= 1
        BY <3>1 DEF Open, Control, AtWork
      <4>2. QED
        BY <2>1, <2>2, <3>1, <4>1
    <3>2. CASE /\ HasFile /\ file \in FileShape
               /\ file'.results[f] = file.results[f] + wrote(f)
      <4>1. file.results[f] \in Nat
        BY <3>2 DEF FileShape
      <4>2. file.results[f] + (IF ctl = "idle" THEN 0 ELSE Toward(f)) <= sessions
        BY <3>2 DEF Recording
      <4>3. ctl = "idle" => wrote(f) = 0
        BY <2>2 DEF wrote
      <4>4. CASE ctl = "idle"
        BY <2>1, <2>2, <3>2, <4>1, <4>2, <4>3, <4>4
      <4>5. CASE ctl # "idle"
        <5>1. file.results[f] + Toward(f) <= sessions
          BY <4>2, <4>5
        <5>2. PICK r \in Nat, t \in Nat, w \in Nat, u \in Nat :
                r = file.results[f] /\ t = Toward(f) /\ w = wrote(f) /\ u = Toward(f)'
          BY <2>1, <2>6, <4>1
        <5>3. r + t <= sessions /\ u <= t - w /\ file'.results[f] = r + w
          BY <2>1, <2>6, <3>2, <5>1, <5>2
        <5>4. (r + w) + u <= sessions' /\ r + w <= sessions'
          <6>1. PICK n \in Nat, n1 \in Nat : n = sessions /\ n1 = sessions' /\ n1 >= n
            BY <2>2
          <6>2. r + t <= n /\ u <= t - w
            BY <5>3, <6>1
          <6>3. (r + w) + u <= n1 /\ r + w <= n1
            BY <5>2, <6>1, <6>2
          <6>4. QED
            BY <6>1, <6>3
        <5>5. QED
          BY <5>2, <5>3, <5>4
      <4>6. QED
        BY <4>4, <4>5
    <3>3. QED
      BY <2>6, <3>1, <3>2, ResultsStep DEF wrote
  <2>7. \A f \in Faults : Toward(f)' <= 1
    BY <2>1
  <2>8. QED
    BY <2>4, <2>5, <2>6, <2>7 DEF Recording
<1>4. QED
  BY <1>1, <1>2, <1>3

-----------------------------------------------------------------------------
(* The soundness of the file between campaigns.                             *)

LEMMA HadFile ==
  ASSUME CInv, PlaceTypes, Control, FileIs, [Next]_vars, ~Open, HasFile'
  PROVE  HasFile /\ file \in FileShape
<1>1. 1 \in Faults
  BY ParameterAssumption DEF Faults
<1>2. QED
  BY <1>1, ResultsStep

(* The group begun is the one in the logger's hands. *)
BegunInHand ==
  "SIGTERM" \notin Signals /\ HasFile => \A f \in file.begun : logger = "writing" /\ exp = f

LEMMA BegunStep ==
  ASSUME CInv, PlaceTypes, Control, FileIs, BegunInHand, [Next]_vars
  PROVE  BegunInHand'
<1> SUFFICES ASSUME "SIGTERM" \notin Signals, HasFile', NEW f \in file'.begun
             PROVE  logger' = "writing" /\ exp' = f
  BY DEF BegunInHand
<1>1. CASE Open
  <2>1. logger = "opening"
    BY <1>1 DEF Open
  <2>2. file # NULL /\ file' = file
    BY <1>1, OpenFile DEF NewFile
  <2>3. QED
    BY <2>1, <2>2 DEF BegunInHand, HasFile
<1>2. CASE ~Open
  <2>1. HasFile /\ file \in FileShape
    BY <1>2, HadFile
  <2>2. CASE TakeResult
    <3>1. logger = "loop" /\ logger' = "writing"
      BY <2>2 DEF TakeResult, Take
    <3>2. file'.begun = file.begun \cup {exp'}
      BY <2>1, <2>2, TakeResultFile
    <3>3. QED
      BY <2>1, <3>1, <3>2 DEF BegunInHand
  <2>3. CASE WriteResult
    BY <2>1, <2>3, WriteResultFile DEF BegunInHand
  <2>4. CASE Logger /\ ~TakeResult /\ ~WriteResult
    <3>1. file'.begun = file.begun
      BY <1>2, <2>1, <2>4, TakeGoldenDataFile, BackupFile DEF Logger, Close, EndBackup
    <3>2. logger # "writing"
      BY <1>2, <2>4 DEF Logger, Close, TakeGoldenData, TakeBackup, Take, StoreFault,
         EndBackup
    <3>3. QED
      BY <2>1, <3>1, <3>2 DEF BegunInHand
  <2>5. CASE ~Logger
    <3>1. file' = file
      BY <2>5, OthersFile
    <3>2. logger = "writing" /\ exp = f
      BY <2>1, <3>1 DEF BegunInHand
    <3>3. ctl # "idle"
      BY <3>2 DEF Control, AtWork
    <3>4. logger' = logger /\ exp' = exp
      BY <2>5, <3>3 DEF Next, Launch, Refuse, Controller, StartWorker, HoldWorker,
         KeepWorker, TerminateQemu, QemuNotFound, AssertionFails, Overdue, ReapWorker,
         EndScan, LeaveLoop, Return, Begin, QemuFails, QemuEnds, Post, Exit, TimePasses,
         Moves, Stop, StopGroup, vars, loggerVars
    <3>5. QED
      BY <3>2, <3>4
  <2>6. QED
    BY <2>2, <2>3, <2>4, <2>5
<1>3. QED
  BY <1>1, <1>2

(* In the queue the backup comes behind the golden run, unless that is in   *)
(* the file already.                                                        *)
Ahead(j, e) == \E i \in 1 .. j - 1 : queue_output[i] = e

GoldenFirst ==
  HasStart /\ logger \in AtWork =>
    \A j \in DOMAIN queue_output : queue_output[j] = BackupIndex =>
      /\ Ahead(j, Golden)    \/ (logger # "opening" /\ file.golden)
      /\ Ahead(j, Pregolden) \/ (logger # "opening" /\ file.pregolden)

LEMMA GoldenFirstLaunch ==
  ASSUME NEW m \in Modes, Launch(m)
  PROVE  GoldenFirst'
<1> SUFFICES ASSUME HasStart, NEW j \in DOMAIN queue_output', queue_output'[j] = BackupIndex
             PROVE  Ahead(j, Golden)' /\ Ahead(j, Pregolden)'
  BY DEF GoldenFirst
<1>1. queue_output' = GoldenData
  <2>1. queue_output' \in {GoldenData, <<>>} /\ DOMAIN <<>> = {}
    BY DEF Launch
  <2>2. QED
    BY <2>1
<1>2. /\ DOMAIN GoldenData = 1 .. 3 /\ GoldenData[1] = Pregolden
      /\ GoldenData[2] = Golden /\ GoldenData[3] = BackupIndex
  <2> DEFINE a == <<Pregolden>>
             b == <<Golden, BackupIndex>>
  <2>1. GoldenData = a \o b
    BY DEF GoldenData
  <2>2. /\ a \in Seq(Entry) /\ Len(a) = 1 /\ a[1] = Pregolden
        /\ b \in Seq(Entry) /\ Len(b) = 2 /\ b[1] = Golden /\ b[2] = BackupIndex
    BY DEF Entry
  <2> HIDE DEF a, b
  <2>3. /\ Len(a \o b) = Len(a) + Len(b) /\ a \o b \in Seq(Entry)
        /\ \A i \in 1 .. Len(a) + Len(b) :
             (a \o b)[i] = IF i <= Len(a) THEN a[i] ELSE b[i - Len(a)]
    BY <2>2, ConcatProperties
  <2>4. Len(a \o b) = 3 /\ DOMAIN (a \o b) = 1 .. Len(a \o b)
    BY <2>2, <2>3, LenProperties
  <2>5. 1 \in 1 .. 3 /\ 2 \in 1 .. 3 /\ 3 \in 1 .. 3
    OBVIOUS
  <2>6. QED
    BY <2>1, <2>2, <2>3, <2>4, <2>5
<1>3. j = 3
  BY <1>1, <1>2 DEF Pregolden, Golden, BackupIndex
<1>4. 2 \in 1 .. 3 - 1 /\ 1 \in 1 .. 3 - 1
  OBVIOUS
<1>5. queue_output'[1] = Pregolden /\ queue_output'[2] = Golden
  BY <1>1, <1>2
<1>6. QED
  BY <1>3, <1>4, <1>5 DEF Ahead

LEMMA GoldenFirstTake ==
  ASSUME CInv, FileIs, Control, GoldenFirst, TakeResult \/ TakeGoldenData \/ TakeBackup
  PROVE  GoldenFirst'
<1> SUFFICES ASSUME HasStart, NEW j \in DOMAIN queue_output', queue_output'[j] = BackupIndex
             PROVE  /\ Ahead(j, Golden)'    \/ (logger' # "opening" /\ file'.golden)
                    /\ Ahead(j, Pregolden)' \/ (logger' # "opening" /\ file'.pregolden)
  BY DEF GoldenFirst
<1>1. /\ queue_output # <<>> /\ queue_output' = Tail(queue_output) /\ logger = "loop"
      /\ logger' # "opening"
  BY DEF TakeResult, TakeGoldenData, TakeBackup, Take
<1>2. queue_output \in Seq(Entry)
  BY DEF CInv, Types
<1>3. /\ Head(queue_output) = queue_output[1] /\ Len(queue_output) \in Nat
      /\ DOMAIN queue_output = 1 .. Len(queue_output)
      /\ DOMAIN queue_output' = 1 .. Len(queue_output) - 1
      /\ \A i \in 1 .. Len(queue_output) - 1 : queue_output'[i] = queue_output[i + 1]
  <2>1. /\ Len(Tail(queue_output)) = Len(queue_output) - 1
        /\ \A i \in 1 .. Len(Tail(queue_output)) : Tail(queue_output)[i] = queue_output[i + 1]
        /\ Tail(queue_output) \in Seq(Entry)
    BY <1>1, <1>2, HeadTailProperties
  <2>2. Head(queue_output) = queue_output[1]
    BY <1>1, <1>2, EmptySeq
  <2>3. DOMAIN queue_output = 1 .. Len(queue_output) /\ Len(queue_output) \in Nat
        /\ DOMAIN Tail(queue_output) = 1 .. Len(Tail(queue_output))
    BY <1>2, <2>1, LenProperties
  <2>4. QED
    BY <1>1, <2>1, <2>2, <2>3
<1>4. j + 1 \in DOMAIN queue_output /\ queue_output[j + 1] = BackupIndex /\ j \in Nat
  BY <1>3
<1>5. /\ Ahead(j + 1, Golden) \/ file.golden
      /\ Ahead(j + 1, Pregolden) \/ file.pregolden
  BY <1>1, <1>4 DEF GoldenFirst, AtWork
<1>6. ASSUME NEW e, Ahead(j + 1, e) PROVE Head(queue_output) = e \/ Ahead(j, e)'
  <2>1. PICK i \in 1 .. j : queue_output[i] = e
    BY <1>4, <1>6 DEF Ahead
  <2>2. CASE i = 1
    BY <1>3, <2>1, <2>2
  <2>3. CASE i # 1
    <3>1. i - 1 \in 1 .. j - 1 /\ i - 1 \in 1 .. Len(queue_output) - 1 /\ (i - 1) + 1 = i
      BY <1>3, <1>4, <2>1, <2>3
    <3>2. queue_output'[i - 1] = e
      BY <1>3, <2>1, <3>1
    <3>3. QED
      BY <3>1, <3>2 DEF Ahead
  <2>4. QED
    BY <2>2, <2>3
<1>7. file \in FileShape
  BY <1>1 DEF FileIs, Control, AtWork
<1>8. /\ file.golden \/ Head(queue_output) = Golden => file'.golden
      /\ file.pregolden \/ Head(queue_output) = Pregolden => file'.pregolden
  <2>1. CASE TakeGoldenData
    BY <1>7, <2>1, TakeGoldenDataFile
  <2>2. CASE TakeResult \/ TakeBackup
    <3>1. Head(queue_output) # Golden /\ Head(queue_output) # Pregolden
      BY <2>2 DEF TakeResult, TakeBackup, Faults, Golden, Pregolden, BackupIndex
    <3>2. file'.golden = file.golden /\ file'.pregolden = file.pregolden
      BY <1>7, <2>2, TakeResultFile, BackupFile
    <3>3. QED
      BY <3>1, <3>2
  <2>3. QED
    BY <2>1, <2>2
<1>9. QED
  BY <1>1, <1>5, <1>6, <1>8

LEMMA GoldenFirstPost ==
  ASSUME CInv, GoldenFirst, NEW k \in DOMAIN p_list, Post(k)
  PROVE  GoldenFirst'
<1> SUFFICES ASSUME HasStart, logger' \in AtWork, NEW j \in DOMAIN queue_output',
                    queue_output'[j] = BackupIndex
             PROVE  /\ Ahead(j, Golden)'    \/ (logger' # "opening" /\ file'.golden)
                    /\ Ahead(j, Pregolden)' \/ (logger' # "opening" /\ file'.pregolden)
  BY DEF GoldenFirst
<1> DEFINE g == p_list[k].fault
<1>1. UNCHANGED <<file, logger>>
  BY DEF Post, Moves, loggerVars
<1>2. queue_output \in Seq(Entry) /\ g \in Faults /\ g \in Entry
  <2>1. p_list[k] \in Worker
    BY WorkerIs
  <2>2. QED
    BY <2>1 DEF CInv, Types, Worker, Entry
<1>3. queue_output' = Append(queue_output, g)
  BY DEF Post
<1> HIDE DEF g
<1>4. PICK n \in Nat : n = Len(queue_output)
  BY <1>2, LenProperties
<1>5. /\ DOMAIN queue_output = 1 .. n /\ DOMAIN queue_output' = 1 .. n + 1
      /\ \A i \in 1 .. n : queue_output'[i] = queue_output[i]
      /\ queue_output'[n + 1] = g
  <2>1. /\ Append(queue_output, g) \in Seq(Entry) /\ Len(Append(queue_output, g)) = n + 1
        /\ \A i \in 1 .. n : Append(queue_output, g)[i] = queue_output[i]
        /\ Append(queue_output, g)[n + 1] = g
    BY <1>2, <1>4, AppendProperties
  <2>2. QED
    BY <1>2, <1>3, <1>4, <2>1, LenProperties
<1>6. g # BackupIndex
  BY <1>2 DEF Faults, BackupIndex
<1>7. j \in 1 .. n /\ queue_output[j] = BackupIndex
  BY <1>5, <1>6
<1>8. /\ Ahead(j, Golden)    \/ (logger # "opening" /\ file.golden)
      /\ Ahead(j, Pregolden) \/ (logger # "opening" /\ file.pregolden)
  BY <1>1, <1>5, <1>7 DEF GoldenFirst
<1>9. \A e : Ahead(j, e) => Ahead(j, e)'
  <2>1. \A i \in 1 .. j - 1 : queue_output'[i] = queue_output[i]
    BY <1>5, <1>7
  <2>2. QED
    BY <2>1 DEF Ahead
<1>10. QED
  BY <1>1, <1>8, <1>9

LEMMA GoldenFirstStep ==
  ASSUME CInv, PlaceTypes, Control, FileIs, GoldenFirst, [Next]_vars
  PROVE  GoldenFirst'
<1>1. CASE \E m \in Modes : Launch(m)
  BY <1>1, GoldenFirstLaunch
<1>2. CASE TakeResult \/ TakeGoldenData \/ TakeBackup
  BY <1>2, GoldenFirstTake
<1>3. CASE \E k \in DOMAIN p_list : Post(k)
  BY <1>3, GoldenFirstPost
<1>4. CASE Return
  <2>1. logger' \notin AtWork
    BY <1>4 DEF Return, LoggerExited, AtWork, loggerVars
  <2>2. QED
    BY <2>1 DEF GoldenFirst
<1>5. CASE Open
  <2>1. logger = "opening" /\ logger' = "loop" /\ queue_output' = queue_output
    BY <1>5 DEF Open
  <2>2. \A j, e : Ahead(j, e)' = Ahead(j, e)
    BY <2>1 DEF Ahead
  <2>3. QED
    BY <2>1, <2>2 DEF GoldenFirst, AtWork
<1>6. CASE Close \/ WriteResult \/ StoreFault \/ EndBackup
  <2>1. queue_output' = queue_output /\ logger \in {"loop", "writing", "backup"}
        /\ logger' # "opening"
    BY <1>6 DEF Close, WriteResult, StoreFault, EndBackup, loggerVars
  <2>2. \A j, e : Ahead(j, e)' = Ahead(j, e)
    BY <2>1 DEF Ahead
  <2>3. file \in FileShape
    BY <2>1 DEF FileIs, Control, AtWork
  <2>4. file'.golden = file.golden /\ file'.pregolden = file.pregolden
    BY <1>6, <2>3, WriteResultFile, BackupFile DEF Close, EndBackup
  <2>5. QED
    BY <2>1, <2>2, <2>4 DEF GoldenFirst, AtWork
<1>7. CASE \/ \E m \in Modes : Refuse(m)
           \/ StartWorker \/ HoldWorker \/ KeepWorker \/ TerminateQemu \/ QemuNotFound
           \/ AssertionFails \/ ReapWorker \/ EndScan \/ LeaveLoop \/ Stop \/ UNCHANGED vars
           \/ \E k \in DOMAIN p_list : Moving(k)
           \/ \E signal \in {"SIGINT", "SIGTERM"}, interrupted \in SUBSET Interruptible :
                StopGroup(signal, interrupted)
  <2>1. queue_output' = queue_output /\ file' = file /\ (logger' = logger \/ logger' = "killed")
    BY <1>7 DEF Refuse, StartWorker, HoldWorker, KeepWorker, TerminateQemu, QemuNotFound,
       AssertionFails, Overdue, ReapWorker, EndScan, LeaveLoop, Stop, vars, Moving, Begin,
       QemuFails, QemuEnds, Exit, TimePasses, Moves, StopGroup, loggerVars
  <2>2. \A j, e : Ahead(j, e)' = Ahead(j, e)
    BY <2>1 DEF Ahead
  <2>3. QED
    BY <2>1, <2>2 DEF GoldenFirst, AtWork
<1>8. QED
  BY <1>1, <1>2, <1>3, <1>4, <1>5, <1>6, <1>7 DEF Next, Controller, Logger,
     Moving

(* A backup is in the file, or being stored, only next to the golden run    *)
(* it is of.                                                                *)
HasBackup == file.backup # NULL \/ logger = "backup"

BackupSound == HasStart /\ HasFile /\ HasBackup => file.golden /\ file.pregolden

LEMMA BackupSoundStep ==
  ASSUME CInv, PlaceTypes, Control, FileIs, GoldenFirst, BackupSound, [Next]_vars
  PROVE  BackupSound'
<1> SUFFICES ASSUME HasStart, HasFile', HasBackup'
             PROVE  file'.golden /\ file'.pregolden
  BY DEF BackupSound
<1>1. CASE Open
  <2>1. logger' # "backup"
    BY <1>1 DEF Open
  <2>2. file'.backup # NULL
    BY <2>1 DEF HasBackup
  <2>3. QED
    BY <1>1, <2>2, OpenFile DEF NewFile, BackupSound, HasFile, HasBackup
<1>2. CASE ~Open
  <2>1. HasFile /\ file \in FileShape
    BY <1>2, HadFile
  <2>2. CASE TakeBackup
    <3>1. /\ queue_output # <<>> /\ Head(queue_output) = BackupIndex /\ logger = "loop"
      BY <2>2 DEF TakeBackup, Take
    <3>2. queue_output \in Seq(Entry)
      BY DEF CInv, Types
    <3>3. 1 \in DOMAIN queue_output /\ queue_output[1] = BackupIndex
      BY <3>1, <3>2, EmptySeq, LenProperties
    <3>4. \A e : ~Ahead(1, e)
      BY DEF Ahead
    <3>5. file.golden /\ file.pregolden
      BY <3>1, <3>3, <3>4 DEF GoldenFirst, AtWork
    <3>6. QED
      BY <2>1, <2>2, <3>5, BackupFile
  <2>3. CASE TakeGoldenData
    <3>1. logger' = "loop" /\ file'.backup = file.backup
      BY <2>1, <2>3, TakeGoldenDataFile DEF TakeGoldenData, Take
    <3>2. HasBackup
      BY <3>1 DEF HasBackup
    <3>3. QED
      BY <2>1, <2>3, <3>2, TakeGoldenDataFile DEF BackupSound
  <2>4. CASE StoreFault
    <3>1. HasBackup
      BY <2>4 DEF StoreFault, HasBackup
    <3>2. QED
      BY <2>1, <2>4, <3>1, BackupFile DEF BackupSound
  <2>5. CASE TakeResult \/ WriteResult
    <3>1. logger' # "backup"
      BY <2>5 DEF TakeResult, WriteResult
    <3>2. /\ file'.backup = file.backup /\ file'.golden = file.golden
          /\ file'.pregolden = file.pregolden
      BY <2>1, <2>5, TakeResultFile, WriteResultFile
    <3>3. QED
      BY <2>1, <3>1, <3>2 DEF BackupSound, HasBackup
  <2>6. CASE Close \/ EndBackup
    BY <2>1, <2>6 DEF Close, EndBackup, BackupSound, HasBackup
  <2>7. CASE ~Logger
    <3>1. file' = file
      BY <2>7, OthersFile
    <3>2. logger' = "backup" => logger = "backup"
      BY <2>7 DEF Next, Launch, Refuse, Controller, StartWorker, HoldWorker, KeepWorker,
         TerminateQemu, QemuNotFound, AssertionFails, Overdue, ReapWorker, EndScan,
         LeaveLoop, Return, Begin, QemuFails, QemuEnds, Post, Exit, TimePasses, Moves, Stop,
         StopGroup, vars, loggerVars
    <3>3. QED
      BY <2>1, <3>1, <3>2 DEF BackupSound, HasBackup
  <2>8. QED
    BY <1>2, <2>2, <2>3, <2>4, <2>5, <2>6, <2>7 DEF Logger
<1>3. QED
  BY <1>1, <1>2

-----------------------------------------------------------------------------
(* A campaign that runs to its end.                                         *)
LEMMA CountMonotone ==
  ASSUME NEW S, NEW s \in Seq(S), NEW C, NEW D, C \subseteq D
  PROVE  Count(s, C) <= Count(s, D)
<1>1. Where(s, C) \subseteq Where(s, D)
  BY DEF Where
<1>2. IsFiniteSet(Where(s, D))
  BY CountBounds
<1>3. QED
  BY <1>1, <1>2, FS_Subset DEF Count

(* When the logger waits for nothing any more, nothing is on its way.       *)
LEMMA NothingToward ==
  ASSUME CInv, ctl # "idle", ~stop_signal_received, ~(num_exp > 0), logger # "writing"
  PROVE  lost = 0 /\ \A f \in Faults : Toward(f) = 0
<1>1. /\ p_list \in Seq(Worker) /\ queue_output \in Seq(Entry) /\ faultlist \in Seq(Faults)
      /\ itter \in 0 .. Len(faultlist) /\ num_exp \in Int
  BY DEF CInv, Types
<1>2. PICK n \in Nat : n = Len(faultlist)
  BY <1>1, LenProperties
<1>3. PICK r \in Nat, q \in Nat, l \in Nat : r = Running /\ q = Queued /\ l = lost
  BY CountsAreThese DEF CInv, Types
<1>4. num_exp = n - itter + r + q + l
  BY <1>2, <1>3 DEF CInv, Accounted
<1>5. r = 0 /\ q = 0 /\ l = 0 /\ itter = n
  <2>1. itter \in 0 .. n
    BY <1>1, <1>2
  <2>2. QED
    BY <1>1, <1>2, <1>3, <1>4, <2>1
<1>6. ASSUME NEW f \in Faults PROVE Toward(f) = 0
  <2>1. Run(f) = 0
    <3>1. Count(p_list, Of(f)) <= Count(p_list, Busy)
      BY <1>1, CountMonotone DEF Of, Busy
    <3>2. Run(f) \in Nat
      BY TowardTypes
    <3>3. QED
      BY <1>3, <1>5, <3>1, <3>2 DEF Run, Running
  <2>2. InQueue(f) = 0
    <3>1. Count(queue_output, {f}) <= Count(queue_output, Faults)
      BY <1>1, CountMonotone
    <3>2. InQueue(f) \in Nat
      BY TowardTypes
    <3>3. QED
      BY <1>3, <1>5, <3>1, <3>2 DEF InQueue, Queued
  <2>3. Listed(f) = 0 /\ InHand(f) = 0
    <3>1. \A i \in 1 .. Len(faultlist) : ~(i > itter)
      BY <1>2, <1>5
    <3>2. QED
      BY <3>1 DEF Listed, InHand, One
  <2>4. QED
    BY <2>1, <2>2, <2>3 DEF Toward
<1>7. QED
  BY <1>3, <1>5, <1>6

LEMMA CompleteStep ==
  ASSUME CInv, PlaceTypes, Control, FileIs, Recording, BegunInHand, CompleteRecords, [Next]_vars,
         AllRecorded, "SIGTERM" \notin Signals
  PROVE  CompleteRecords'
<1> SUFFICES ASSUME outcome' = "finished", mode' # "golden"
             PROVE  file'.begun = {} /\ \A f \in Faults : file'.results[f] >= 1
  BY DEF CompleteRecords
<1>1. CASE Return
  <2>1. /\ ctl = "draining" /\ ~stop_signal_received /\ logger \in {"off", "failed", "killed"}
        /\ file' = file /\ mode' = mode
    BY <1>1 DEF Return, LoggerExited
  <2>2. logger = "off" /\ ~(num_exp > 0)
    BY <2>1 DEF Control, AllRecorded
  <2>3. HasFile
    BY <2>1, <2>2 DEF HasFile
  <2>4. file.begun = {}
    BY <2>2, <2>3 DEF BegunInHand
  <2>5. ASSUME NEW f \in Faults PROVE file.results[f] >= 1
    <3>1. Toward(f) = 0 /\ lost = 0
      BY <2>1, <2>2, NothingToward
    <3>2. Recorded(f) >= 1
      BY <2>1, <3>1 DEF Recording
    <3>3. QED
      BY <2>2, <3>2 DEF Recorded, Renewed
  <2>6. QED
    BY <2>1, <2>4, <2>5
<1>2. CASE \E m \in Modes : Launch(m) \/ Refuse(m)
  BY <1>2, NullAssumption DEF Launch, Refuse
<1>3. CASE ~Return /\ ~\E m \in Modes : Launch(m) \/ Refuse(m)
  <2>1. outcome' = outcome /\ mode' = mode
    BY <1>3 DEF Next, Controller, StartWorker, HoldWorker, KeepWorker, TerminateQemu,
       QemuNotFound, AssertionFails, Overdue, ReapWorker, EndScan, LeaveLoop, Logger, Open,
       Close, TakeResult, WriteResult, TakeGoldenData, TakeBackup, StoreFault, EndBackup,
       loggerKeeps, Begin, QemuFails, QemuEnds, Post, Exit, TimePasses, Moves, Stop,
       StopGroup, vars, controllerVars
  <2>2. ctl = "idle"
    BY <2>1 DEF Control
  <2>3. ~Logger
    BY <2>2 DEF Logger, Open, Close, TakeResult, WriteResult, TakeGoldenData, TakeBackup,
       Take, StoreFault, EndBackup, Control, AtWork
  <2>4. QED
    BY <2>1, <2>3, OthersFile DEF CompleteRecords
<1>4. QED
  BY <1>1, <1>2, <1>3

-----------------------------------------------------------------------------
(* What is left of type correctness.                                        *)
Counters ==
  /\ num_exp \in 0 .. NumFaults
  /\ scan \in 0 .. num_workers + 1
  /\ ctl = "join" => scan \in DOMAIN p_list

LEMMA CountersInit == Init => Counters
  BY ParameterAssumption DEF Init, Counters

LEMMA CountersStep ==
  ASSUME CInv, PlaceTypes, Control, Counters, [Next]_vars
  PROVE  Counters'
<1>1. /\ p_list \in Seq(Worker) /\ Len(p_list) \in Nat /\ Len(p_list) <= num_workers
      /\ DOMAIN p_list = 1 .. Len(p_list) /\ num_workers \in Nat /\ NumFaults \in Nat
      /\ scan \in Nat /\ (ctl \in {"scan", "join"} => scan > 0)
  <2>1. p_list \in Seq(Worker) /\ Len(p_list) <= num_workers /\ scan \in Nat
        /\ (ctl \in {"scan", "join"} => scan > 0)
    BY DEF CInv, Types
  <2>2. QED
    BY <2>1, LenProperties, ParameterAssumption
<1>2. CASE \E m \in Modes : Launch(m)
  <2>1. PICK m \in Modes : Launch(m)
    BY <1>2
  <2>2. 1 \in Faults
    BY ParameterAssumption DEF Faults
  <2>3. Len(faultlist') <= NumFaults
    BY <2>1, <2>2, TowardLaunch
  <2>4. Len(faultlist') \in Nat
    <3>1. CInv'
      BY InvariantStep
    <3>2. faultlist' \in Seq(Faults)
      BY <3>1 DEF CInv, Types
    <3>3. QED
      BY <3>2, LenProperties
  <2>5. num_exp' \in 0 .. NumFaults
    BY <1>1, <2>1, <2>3, <2>4 DEF Launch
  <2>6. QED
    BY <1>1, <2>1, <2>5 DEF Launch, Counters
<1>3. CASE TakeResult
  <2>1. /\ queue_output # <<>> /\ Head(queue_output) \in Faults /\ num_exp' = num_exp - 1
        /\ ~stop_signal_received /\ logger = "loop" /\ UNCHANGED <<ctl, scan, p_list>>
    BY <1>3 DEF TakeResult, Take, loggerKeeps, controllerVars
  <2>2. ctl # "idle"
    BY <2>1 DEF Control, AtWork
  <2>3. Queued >= 1
    <3>1. queue_output \in Seq(Entry)
      BY DEF CInv, Types
    <3>2. Count(Tail(queue_output), Faults) = Queued - One(Head(queue_output) \in Faults)
          /\ Tail(queue_output) \in Seq(Entry)
      BY <2>1, <3>1, CountTail DEF Queued
    <3>3. Count(Tail(queue_output), Faults) \in Nat
      <4>1. Len(Tail(queue_output)) \in Nat
        BY <3>2, LenProperties
      <4>2. Count(Tail(queue_output), Faults) \in 0 .. Len(Tail(queue_output))
        BY <3>2, CountBounds
      <4>3. QED
        BY <4>1, <4>2
    <3>4. Queued \in Nat
      BY CountsAreThese DEF CInv
    <3>5. QED
      BY <2>1, <3>2, <3>3, <3>4 DEF One
  <2>4. num_exp >= 1
    <3>1. num_exp = Len(faultlist) - itter + Running + Queued + lost
      BY <2>1, <2>2 DEF CInv, Accounted
    <3>2. /\ Len(faultlist) \in Nat /\ itter \in Nat /\ itter <= Len(faultlist)
          /\ Running \in Nat /\ Queued \in Nat /\ num_exp \in Int /\ lost \in Nat
      <4>1. /\ faultlist \in Seq(Faults) /\ itter \in 0 .. Len(faultlist) /\ num_exp \in Int
            /\ lost \in Nat
        BY DEF CInv, Types
      <4>2. Running \in Nat /\ Queued \in Nat
        BY CountsAreThese DEF CInv
      <4>3. Len(faultlist) \in Nat
        BY <4>1, LenProperties
      <4>4. QED
        BY <4>1, <4>2, <4>3
    <3>3. QED
      BY <2>3, <3>1, <3>2
  <2>5. QED
    BY <1>1, <2>1, <2>4 DEF Counters
<1>4. CASE KeepWorker
  BY <1>1, <1>4 DEF KeepWorker, Scanning, Counters, loggerVars
<1>5. CASE ReapWorker
  BY <1>1, <1>5 DEF ReapWorker, Counters, loggerVars
<1>6. CASE TerminateQemu \/ QemuNotFound \/ AssertionFails
  <2>1. DOMAIN p_list' = DOMAIN p_list
    BY <1>6 DEF TerminateQemu, QemuNotFound, AssertionFails
  <2>2. scan' = scan /\ scan \in 1 .. Len(p_list) /\ num_exp' = num_exp
    BY <1>1, <1>6 DEF TerminateQemu, QemuNotFound, AssertionFails, Overdue, Scanning,
       loggerVars
  <2>3. QED
    BY <1>1, <2>1, <2>2 DEF Counters
<1>7. CASE StartWorker \/ HoldWorker \/ EndScan \/ LeaveLoop \/ Return
  <2>1. ctl' # "join" /\ (scan' = 1 \/ scan' = scan) /\ num_exp' = num_exp
    BY <1>7 DEF StartWorker, HoldWorker, EndScan, LeaveLoop, Return, loggerVars
  <2>2. QED
    BY <1>1, <2>1 DEF Counters
<1>8. CASE \E k \in DOMAIN p_list : Moving(k) \/ Post(k)
  <2>1. DOMAIN p_list' = DOMAIN p_list /\ UNCHANGED <<ctl, scan, num_exp>>
    BY <1>8 DEF Moving, Begin, QemuFails, QemuEnds, Post, Exit, TimePasses, Moves,
       loggerVars
  <2>2. QED
    BY <2>1 DEF Counters
<1>9. CASE \E signal \in {"SIGINT", "SIGTERM"}, interrupted \in SUBSET Interruptible :
             StopGroup(signal, interrupted)
  <2>1. DOMAIN p_list' = DOMAIN p_list /\ UNCHANGED <<ctl, scan, num_exp>>
    BY <1>9 DEF StopGroup
  <2>2. QED
    BY <2>1 DEF Counters
<1>10. CASE Open \/ Close \/ WriteResult \/ TakeGoldenData \/ TakeBackup \/ StoreFault
            \/ EndBackup \/ Stop \/ UNCHANGED vars \/ \E m \in Modes : Refuse(m)
  <2>1. UNCHANGED <<ctl, scan, num_exp, p_list>>
    BY <1>10 DEF Open, Close, WriteResult, TakeGoldenData, TakeBackup, Take, StoreFault,
       EndBackup, Stop, Refuse, vars, controllerVars, loggerVars, loggerKeeps
  <2>2. QED
    BY <2>1 DEF Counters
<1>11. QED
  BY <1>2, <1>3, <1>4, <1>5, <1>6, <1>7, <1>8, <1>9, <1>10 DEF Next, Controller, Logger,
     Moving

-----------------------------------------------------------------------------
(* The invariants together.                                                 *)
FileInv ==
  /\ CInv /\ PlaceTypes /\ Control /\ Counters
  /\ FileIs /\ Recording /\ BegunInHand /\ GoldenFirst /\ BackupSound

LEMMA FileInvInit == Init => FileInv /\ CompleteRecords
<1> SUFFICES ASSUME Init PROVE FileInv /\ CompleteRecords
  OBVIOUS
<1>1. PlaceTypes /\ Control /\ Counters /\ Recording /\ CInv
  BY PlacesInit, CountersInit, RecordingInit, InvariantInit
<1>2. FileIs /\ BegunInHand /\ GoldenFirst /\ BackupSound /\ CompleteRecords
  BY NullAssumption DEF Init, FileIs, BegunInHand, GoldenFirst, BackupSound,
     CompleteRecords, HasFile, AtWork
<1>3. QED
  BY <1>1, <1>2 DEF FileInv

LEMMA FileInvStep == FileInv /\ [Next]_vars => FileInv'
<1> SUFFICES ASSUME FileInv, [Next]_vars PROVE FileInv'
  OBVIOUS
<1>1. /\ CInv /\ PlaceTypes /\ Control /\ Counters
      /\ FileIs /\ Recording /\ BegunInHand /\ GoldenFirst /\ BackupSound
  BY DEF FileInv
<1>2. CInv' /\ PlaceTypes' /\ Control' /\ Counters'
  BY <1>1, InvariantStep, PlaceTypesStep, ControlStep, CountersStep
<1>3. FileIs' /\ Recording'
  BY <1>1, FileStep, RecordingStep
<1>4. BegunInHand' /\ GoldenFirst' /\ BackupSound'
  BY <1>1, BegunStep, GoldenFirstStep, BackupSoundStep
<1>5. QED
  BY <1>2, <1>3, <1>4 DEF FileInv

LEMMA FileInvTypes == FileInv => TypeOK
<1> SUFFICES ASSUME FileInv PROVE TypeOK
  OBVIOUS
<1>1. file \in {NULL} \cup FileType
  <2> SUFFICES ASSUME file # NULL PROVE file \in FileType
    OBVIOUS
  <2>1. HasFile /\ file \in FileShape
    BY DEF FileInv, FileIs, HasFile
  <2>2. ASSUME NEW f \in Faults PROVE file.results[f] \in ResultCount
    <3>1. file.results[f] \in Nat /\ Toward(f) \in Nat
      BY <2>1, TowardTypes DEF FileInv, FileShape
    <3>2. file.results[f] + (IF ctl = "idle" THEN 0 ELSE Toward(f)) <= sessions
      BY <2>1 DEF FileInv, Recording
    <3>3. file.results[f] <= sessions
      <4>1. CASE ctl = "idle"
        BY <3>1, <3>2, <4>1
      <4>2. CASE ctl # "idle"
        <5>1. file.results[f] + Toward(f) <= sessions /\ sessions \in Nat
          BY <3>2, <4>2, ParameterAssumption DEF FileInv, PlaceTypes
        <5>2. PICK r \in Nat, t \in Nat : r = file.results[f] /\ t = Toward(f)
          BY <3>1
        <5>3. r + t <= sessions
          BY <5>1, <5>2
        <5>4. r <= sessions
          BY <5>1, <5>2, <5>3
        <5>5. QED
          BY <5>2, <5>4
      <4>3. QED
        BY <4>1, <4>2
    <3>4. sessions \in 0 .. MaxSessions
      BY DEF FileInv, PlaceTypes
    <3>5. QED
      BY <3>1, <3>3, <3>4, ParameterAssumption DEF ResultCount
  <2>3. PICK r \in [Faults -> Nat] : r = file.results
    BY <2>1 DEF FileShape
  <2>4. r \in [Faults -> ResultCount]
    BY <2>2, <2>3
  <2>5. QED
    BY <2>1, <2>3, <2>4 DEF FileShape, FileType, Backup
<1>2. /\ faultlist \in Seq(Faults) /\ itter \in 0 .. Len(faultlist)
      /\ p_list \in Seq(Worker) /\ Len(p_list) <= num_workers /\ lost \in Nat
      /\ queue_output \in Seq({Pregolden, Golden, BackupIndex} \cup Faults)
  BY DEF FileInv, CInv, Types, Entry
<1>3. PlaceTypes /\ Counters
  BY DEF FileInv
<1>4. QED
  BY <1>1, <1>2, <1>3 DEF TypeOK, PlaceTypes, Counters

(* The file, the counters, the queue and the process states have their      *)
(* types; in particular num_exp never falls below zero or rises above the   *)
(* faults of the list, the scan of p_list stays within one entry behind     *)
(* its longest, p.join() waits for a process that is in it, and no fault    *)
(* has more results in the file than campaigns were launched on it.         *)
THEOREM TypeCorrect == Spec => []TypeOK
<1> QED
  BY FileInvInit, FileInvStep, FileInvTypes, PTL DEF Spec

(* What a step does to results.                                             *)
LEMMA ResultsGrow ==
  ASSUME FileInv, [Next]_vars, file # NULL, NEW f \in Faults
  PROVE  /\ file.results[f] \in Nat
         /\ \/ Open /\ file'.results[f] = 0
            \/ file'.results[f] = file.results[f]
            \/ WriteResult /\ exp = f /\ file'.results[f] = file.results[f] + 1
<1>1. file \in FileShape /\ Control /\ FileIs
  BY DEF FileInv, FileIs
<1>2. file.results[f] \in Nat
  BY <1>1 DEF FileShape
<1>3. CASE Open
  BY <1>1, <1>2, <1>3, OpenFile, NewFileIs
<1>4. CASE WriteResult
  <2>1. file'.results[f] = file.results[f] + One(exp = f)
    BY <1>1, <1>4, WriteResultFile
  <2>2. CASE exp = f
    BY <1>2, <1>4, <2>1, <2>2 DEF One
  <2>3. CASE exp # f
    <3>1. file'.results[f] = file.results[f] + 0
      BY <2>1, <2>3 DEF One
    <3>2. QED
      BY <1>2, <3>1
  <2>4. QED
    BY <2>2, <2>3
<1>5. CASE Logger /\ ~Open /\ ~WriteResult
  BY <1>1, <1>2, <1>5, TakeResultFile, TakeGoldenDataFile, BackupFile DEF Logger, Close,
     EndBackup
<1>6. CASE ~Logger
  BY <1>2, <1>6, OthersFile
<1>7. QED
  BY <1>3, <1>4, <1>5, <1>6

LEMMA FirstResultsStep == FileInv /\ [Next]_vars => AddsFirstResult
<1> SUFFICES ASSUME FileInv, [Next]_vars, file # NULL, mode # "append", NEW f \in Faults,
                    file'.results[f] > file.results[f]
             PROVE  file.results[f] = 0
  BY DEF AddsFirstResult
<1>1. file.results[f] \in Nat /\ WriteResult /\ exp = f
  BY ResultsGrow
<1>2. logger = "writing"
  BY <1>1 DEF WriteResult
<1>3. InHand(f) = 1
  BY <1>1, <1>2 DEF InHand, One
<1>4. Toward(f) > 0
  <2>1. Listed(f) \in Nat /\ Run(f) \in Nat /\ InQueue(f) \in Nat
    BY TowardTypes DEF FileInv
  <2>2. QED
    BY <1>3, <2>1 DEF Toward
<1>5. Recorded(f) = 0
  BY <1>2, <1>4 DEF FileInv, Recording, AtWork
<1>6. QED
  BY <1>2, <1>5 DEF Recorded, Renewed

LEMMA ResultsKeptStep == FileInv /\ [Next]_vars => ResultsKept
<1> SUFFICES ASSUME FileInv, [Next]_vars, file # NULL, mode \in {"append", "missing"},
                    NEW f \in Faults
             PROVE  file'.results[f] >= file.results[f]
  BY DEF ResultsKept
<1>1. file.results[f] \in Nat
  BY ResultsGrow
<1>2. CASE Open
  <2>1. file' = file
    BY <1>2 DEF Open, FreshRun, Reuses, ClearsResults
  <2>2. QED
    BY <1>1, <2>1
<1>3. CASE ~Open
  BY <1>1, <1>3, ResultsGrow
<1>4. QED
  BY <1>2, <1>3

(* Over any number of campaigns, stopped, killed and resumed, the logger    *)
(* writes a second result of a fault only for a campaign that appends, and  *)
(* a campaign that appends or runs what get_not_simulated_faults found      *)
(* missing loses none of the results before it.                             *)
THEOREM OneResultPerFault == Spec => ResultsOnce
<1>1. FileInv /\ [Next]_vars => [AddsFirstResult /\ ResultsKept]_vars
  BY FirstResultsStep, ResultsKeptStep
<1> QED
  BY <1>1, FileInvInit, FileInvStep, PTL DEF Spec, ResultsOnce

(* A campaign that ran to its end has a result of every fault, of this      *)
(* campaign or an earlier one, and no group without its tables, if every    *)
(* fault leaves a record (AllRecorded) and nobody kills the logger.         *)
THEOREM FinishedIsComplete ==
  Spec => [](AllRecorded /\ "SIGTERM" \notin Signals => CompleteRecords)
<1> DEFINE Goal == AllRecorded /\ "SIGTERM" \notin Signals => CompleteRecords
<1>1. Init => FileInv /\ Goal
  BY FileInvInit
<1>2. FileInv /\ Goal /\ [Next]_vars => FileInv' /\ Goal'
  <2> SUFFICES ASSUME FileInv, Goal, [Next]_vars PROVE FileInv' /\ Goal'
    OBVIOUS
  <2>1. FileInv'
    BY FileInvStep
  <2>2. ASSUME AllRecorded, "SIGTERM" \notin Signals PROVE CompleteRecords'
    BY <2>2, CompleteStep DEF FileInv
  <2>3. AllRecorded' <=> AllRecorded
    BY DEF AllRecorded, FaultString, Faults
  <2>4. QED
    BY <2>1, <2>2, <2>3
<1> QED
  BY <1>1, <1>2, PTL DEF Spec

(* Between campaigns no group lacks its tables and a backup stands next to  *)
(* the golden run it is of, however the campaigns were stopped, as long as  *)
(* SIGTERM does not reach the logger and there is a start point.            *)
THEOREM StopIsSound ==
  Spec => [](HasStart /\ "SIGTERM" \notin Signals => StopLeavesFileSound)
<1>1. FileInv => (HasStart /\ "SIGTERM" \notin Signals => StopLeavesFileSound)
  <2> SUFFICES ASSUME FileInv, HasStart, "SIGTERM" \notin Signals, ctl = "idle", file # NULL
               PROVE  file.begun = {} /\ (file.backup # NULL => file.golden /\ file.pregolden)
    BY DEF StopLeavesFileSound
  <2>1. HasFile /\ file \in FileShape
    BY DEF FileInv, FileIs, HasFile
  <2>2. logger # "writing"
    BY DEF FileInv, Control, AtWork
  <2>3. file.begun = {}
    BY <2>1, <2>2 DEF FileInv, BegunInHand
  <2>4. QED
    BY <2>1, <2>3 DEF FileInv, BackupSound, HasBackup
<1> QED
  BY <1>1, FileInvInit, FileInvStep, PTL DEF Spec
=============================================================================
