--------------------------- MODULE ReportsProofs ---------------------------
(***************************************************************************)
(* Proofs about what kojid tells an operator of the host and of itself:    *)
(* the CPU usage, the list of processes, the counters and the jobs page,   *)
(* for any number of requests, processes, counts, polls and changes.       *)
(*                                                                         *)
(* The mutex of the probe lets one request at a time between its sample    *)
(* and the one it is subtracted from, so a difference is of two samples in *)
(* the order in which they were taken.                                     *)
(*                                                                         *)
(* The walk over /proc goes up in the order of the pids, and whoever has   *)
(* stayed is ahead of it, under it or has a row; so when it ends, and only *)
(* the first rows are let out, what is missing is behind all of them.      *)
(*                                                                         *)
(* A failure is counted after the request it is of.  For the checks of     *)
(* readiness the goroutines between the two count themselves: as many as   *)
(* may yet add to the failures are left between them and the requests.     *)
(*                                                                         *)
(* An answer on its way to the jobs page that no other overtook is at      *)
(* least as new as what the page shows: it was taken when everything shown *)
(* had landed already.                                                     *)
(***************************************************************************)
EXTENDS HostProbe, ProcessList, Metrics, JobsPage, FiniteSetTheorems, TLAPS

(* A request is inside from its Lock to its Unlock, and alone.             *)
Exclusion ==
  /\ inside = {r \in MetricsRequests : step[r] \in {"memory", "cpu", "store"}}
  /\ \A q, r \in inside : q = r

(* The second sample was taken after the first.                            *)
SamplesOrdered(first, second) ==
  /\ first.idle <= second.idle
  /\ first.falls <= second.falls
  /\ first.total + first.falls <= second.total + second.falls
  /\ first.falls = second.falls =>
       second.idle - first.idle <= second.total - first.total

SamplesInOrder ==
  /\ SamplesOrdered(last, Now)
  /\ \A r \in MetricsRequests :
       step[r] = "store" => SamplesOrdered(last, current[r]) /\ SamplesOrdered(current[r], Now)

ProbeInv == ProbeTypeOK /\ Exclusion /\ SamplesInOrder /\ UsageIsAPercentage

---------------------------------------------------------------------------
(* The remainder of a number is in range, and a number in range is its own. *)
LEMMA Remainder ==
  ASSUME NEW m \in Int, NEW w \in Nat, w > 0
  PROVE  /\ m % w \in 0 .. (w - 1)
         /\ m \in 0 .. (w - 1) => m % w = m
OBVIOUS

(* The fields of samples.                                                  *)
LEMMA SampleTypes ==
  ASSUME NEW s \in Samples
  PROVE  /\ s.idle \in 0 .. MaxTicks /\ s.total \in 0 .. MaxTicks /\ s.falls \in 0 .. MaxFalls
         /\ s.idle \in Nat /\ s.total \in Nat /\ s.falls \in Nat
BY ProbeAssumption DEF Samples

(* The difference of two samples in order is a percentage, unless ticks    *)
(* were taken back between them.                                           *)
LEMMA DifferenceIsExact ==
  ASSUME ProbeTypeOK, NEW r \in MetricsRequests, SamplesOrdered(last, current[r])
  PROVE  /\ Difference(r) \in [idleDelta : Numbers, totalDelta : Numbers, ticks : Int, fell : BOOLEAN]
         /\ ~Difference(r).fell => /\ Difference(r).totalDelta = Difference(r).ticks
                                   /\ Difference(r).idleDelta <= Difference(r).totalDelta
<1> DEFINE x == last
           y == current[r]
           D == Difference(r)
<1>1. x \in Samples /\ y \in Samples
  BY DEF ProbeTypeOK
<1>2. /\ x.idle \in 0 .. MaxTicks /\ x.total \in 0 .. MaxTicks /\ x.falls \in Nat
      /\ y.idle \in 0 .. MaxTicks /\ y.total \in 0 .. MaxTicks /\ y.falls \in Nat
      /\ MaxTicks \in Nat /\ Wrap \in Nat /\ MaxTicks < Wrap
  BY ProbeAssumption, <1>1, SampleTypes
<1>3. /\ D.idleDelta = (y.idle - x.idle) % Wrap /\ D.totalDelta = (y.total - x.total) % Wrap
      /\ D.ticks = (y.total + y.falls) - (x.total + x.falls)
      /\ D.fell = (y.falls # x.falls)
      /\ D = [idleDelta |-> D.idleDelta, totalDelta |-> D.totalDelta, ticks |-> D.ticks,
              fell |-> D.fell]
  BY DEF Difference, Minus
<1>4. D.idleDelta \in Numbers /\ D.totalDelta \in Numbers
  BY <1>2, <1>3, Remainder DEF Numbers
<1>5. D.ticks \in Int /\ D.fell \in BOOLEAN
  BY <1>2, <1>3
<1>6. D \in [idleDelta : Numbers, totalDelta : Numbers, ticks : Int, fell : BOOLEAN]
  BY <1>3, <1>4, <1>5
<1>7. ASSUME ~D.fell
      PROVE  D.totalDelta = D.ticks /\ D.idleDelta <= D.totalDelta
  <2>0. y.falls = x.falls
    BY <1>3, <1>7
  <2> HIDE DEF D
  <2>1. /\ x.idle <= y.idle /\ x.total <= y.total
        /\ y.idle - x.idle <= y.total - x.total
    BY <1>2, <2>0 DEF SamplesOrdered
  <2>2. y.idle - x.idle \in 0 .. (Wrap - 1) /\ y.total - x.total \in 0 .. (Wrap - 1)
    BY <1>2, <2>1
  <2>3. D.idleDelta = y.idle - x.idle /\ D.totalDelta = y.total - x.total
    BY <1>2, <1>3, <2>2, Remainder
  <2> QED BY <1>2, <1>3, <2>0, <2>1, <2>3
<1> QED BY <1>6, <1>7

(* The invariant holds at first.                                           *)
LEMMA ProbeInitInv ==
  ASSUME ProbeInit
  PROVE  ProbeInv
<1>1. Now = [idle |-> 0, total |-> 0, falls |-> 0]
  BY DEF ProbeInit, Now, Sample
<1>2. last \in Samples /\ SamplesOrdered(last, Now)
  BY ProbeAssumption, <1>1 DEF ProbeInit, Samples, SamplesOrdered
<1>3. ProbeTypeOK
  BY ProbeAssumption, <1>2 DEF ProbeInit, ProbeTypeOK, Steps, None, Numbers
<1>4. Exclusion
  BY DEF ProbeInit, Exclusion
<1>5. UsageIsAPercentage
  BY DEF ProbeInit, UsageIsAPercentage, None
<1> QED BY <1>2, <1>3, <1>4, <1>5 DEF ProbeInv, SamplesInOrder, ProbeInit

(* The kernel counts on: what was sampled before is still in order.        *)
LEMMA KernelInv ==
  ASSUME ProbeInv, Tick \/ IowaitFalls
  PROVE  ProbeInv'
<1>0. ProbeTypeOK /\ UNCHANGED <<last, inside, step, current, usage>>
  BY DEF ProbeInv, Tick, IowaitFalls
<1>1. /\ idle \in Nat /\ total \in Nat /\ falls \in Nat /\ MaxTicks \in Nat /\ MaxFalls \in Nat
      /\ idle <= total /\ total + falls <= MaxTicks /\ falls <= MaxFalls
  BY ProbeAssumption, <1>0 DEF ProbeTypeOK
<1>2. ProbeTypeOK'
  BY <1>0, <1>1 DEF ProbeTypeOK, Tick, IowaitFalls
<1>3. Now = [idle |-> idle, total |-> total, falls |-> falls]
      /\ Now' = [idle |-> idle', total |-> total', falls |-> falls']
  BY DEF Now, Sample
<1>4. ASSUME NEW s \in Samples, SamplesOrdered(s, Now)
      PROVE  SamplesOrdered(s, Now')
  BY <1>1, <1>3, <1>4, SampleTypes DEF SamplesOrdered, Tick, IowaitFalls
<1>5. SamplesInOrder'
  BY <1>0, <1>4 DEF ProbeInv, ProbeTypeOK, SamplesInOrder
<1> QED BY <1>0, <1>2, <1>5 DEF ProbeInv, Exclusion, UsageIsAPercentage

(* A request moves: at most it changes its own place and sample.           *)
LEMMA ProbeRequestInv ==
  ASSUME ProbeInv, NEW r \in MetricsRequests,
         LockProbe(r) \/ CollectMemory(r) \/ ReadCPUSample(r) \/ StoreSample(r)
  PROVE  ProbeInv'
<1>0. ProbeTypeOK /\ UNCHANGED kernel /\ Now' = Now
  BY DEF ProbeInv, LockProbe, CollectMemory, ReadCPUSample, StoreSample, kernel, Now
<1>1. Now \in Samples
  BY ProbeAssumption, <1>0 DEF ProbeTypeOK, Now, Sample, Samples
<1>2. None \in [idleDelta : Numbers, totalDelta : Numbers, ticks : Int, fell : BOOLEAN]
      /\ Sample(0, 0, 0) \in Samples
  BY ProbeAssumption DEF None, Numbers, Sample, Samples
<1>3. CASE LockProbe(r)
  <2>1. ProbeTypeOK'
    BY <1>0, <1>2, <1>3 DEF LockProbe, RequestGoes, ProbeTypeOK, Steps, kernel
  <2>2. Exclusion'
    BY <1>0, <1>3 DEF ProbeInv, LockProbe, RequestGoes, ProbeTypeOK, Exclusion
  <2>3. SamplesInOrder'
    BY <1>0, <1>3 DEF ProbeInv, LockProbe, RequestGoes, ProbeTypeOK, SamplesInOrder
  <2>4. UsageIsAPercentage'
    BY <1>0, <1>3 DEF ProbeInv, LockProbe, ProbeTypeOK, UsageIsAPercentage, None
  <2> QED BY <2>1, <2>2, <2>3, <2>4 DEF ProbeInv
<1>4. CASE CollectMemory(r)
  <2>1. ProbeTypeOK' /\ UsageIsAPercentage'
    BY <1>0, <1>4 DEF ProbeInv, CollectMemory, RequestGoes, Leaves, ProbeTypeOK, Steps, kernel,
                      UsageIsAPercentage
  <2>2. Exclusion'
    BY <1>0, <1>4 DEF ProbeInv, CollectMemory, RequestGoes, Leaves, ProbeTypeOK, Exclusion
  <2>3. SamplesInOrder'
    BY <1>0, <1>4 DEF ProbeInv, CollectMemory, RequestGoes, Leaves, ProbeTypeOK, SamplesInOrder
  <2> QED BY <2>1, <2>2, <2>3 DEF ProbeInv
<1>5. CASE ReadCPUSample(r)
  <2>1. ProbeTypeOK' /\ UsageIsAPercentage'
    BY <1>0, <1>1, <1>5 DEF ProbeInv, ReadCPUSample, RequestGoes, Leaves, ProbeTypeOK, Steps, kernel,
                            UsageIsAPercentage
  <2>2. Exclusion'
    BY <1>0, <1>5 DEF ProbeInv, ReadCPUSample, RequestGoes, Leaves, ProbeTypeOK, Exclusion
  <2>3. SamplesOrdered(Now, Now)
    BY <1>1, SampleTypes DEF SamplesOrdered
  <2>4. SamplesInOrder'
    BY <1>0, <1>5, <2>3 DEF ProbeInv, ReadCPUSample, RequestGoes, Leaves, ProbeTypeOK, SamplesInOrder
  <2> QED BY <2>1, <2>2, <2>4 DEF ProbeInv
<1>6. CASE StoreSample(r)
  <2>0. SamplesOrdered(last, current[r]) /\ SamplesOrdered(current[r], Now) /\ current[r] \in Samples
    BY <1>0, <1>6 DEF ProbeInv, StoreSample, SamplesInOrder, ProbeTypeOK
  <2>1. ProbeTypeOK'
    BY <1>0, <1>2, <1>6, <2>0, DifferenceIsExact
       DEF StoreSample, RequestGoes, Leaves, ProbeTypeOK, Steps, kernel
  <2>2. Exclusion'
    BY <1>0, <1>6 DEF ProbeInv, StoreSample, RequestGoes, Leaves, ProbeTypeOK, Exclusion
  <2>3. ASSUME NEW q \in MetricsRequests PROVE step'[q] # "store"
    BY <1>0, <1>6 DEF ProbeInv, StoreSample, RequestGoes, Leaves, ProbeTypeOK, Exclusion
  <2>4. SamplesInOrder'
    BY <1>0, <1>6, <2>0, <2>3 DEF StoreSample, SamplesInOrder
  <2>5. UsageIsAPercentage'
    BY <1>0, <1>6, <2>0, DifferenceIsExact DEF ProbeInv, StoreSample, ProbeTypeOK, UsageIsAPercentage
  <2> QED BY <2>1, <2>2, <2>4, <2>5 DEF ProbeInv
<1> QED BY <1>3, <1>4, <1>5, <1>6

(* The invariant is one.                                                   *)
THEOREM ProbeInvariance == ProbeSpec => []ProbeInv
<1>1. ProbeInit => ProbeInv
  BY ProbeInitInv
<1>2. ProbeInv /\ [ProbeNext]_probeVars => ProbeInv'
  <2> SUFFICES ASSUME ProbeInv, [ProbeNext]_probeVars PROVE ProbeInv'
    OBVIOUS
  <2>1. CASE UNCHANGED probeVars
    BY <2>1 DEF probeVars, ProbeInv, ProbeTypeOK, Exclusion, SamplesInOrder, UsageIsAPercentage, Now
  <2>2. CASE ProbeNext
    BY <2>2, KernelInv, ProbeRequestInv DEF ProbeNext
  <2> QED BY <2>1, <2>2
<1> QED BY <1>1, <1>2, PTL DEF ProbeSpec

(* The probe's variables keep their types.                                 *)
THEOREM ProbeTypeCorrect == ProbeSpec => []ProbeTypeOK
<1>1. ProbeInv => ProbeTypeOK
  BY DEF ProbeInv
<1> QED BY <1>1, ProbeInvariance, PTL

(* However many requests measure at once, a usage is between 0 and 100     *)
(* unless the kernel took ticks back.                                      *)
THEOREM UsageIsExact == ProbeSpec => []UsageIsAPercentage
<1>1. ProbeInv => UsageIsAPercentage
  BY DEF ProbeInv
<1> QED BY <1>1, ProbeInvariance, PTL

---------------------------------------------------------------------------
(* What has been read of the row under way.                                *)
RowUnderWay ==
  /\ listPc = "statm"   => row \in [pid : Pids, stat : Births]
  /\ listPc = "status"  => row \in [pid : Pids, stat : Births, statm : Births]
  /\ listPc = "cmdline" =>
       row \in [pid : Pids, stat : Births, statm : Births, status : Births]

Reading == {"statm", "status", "cmdline"}
Waiting == {"new", "walk"}

(* The walk goes up: the rows, then the row under way, then the entries.   *)
WalkGoesUp ==
  /\ \A i, j \in 1 .. Len(rows) : i < j => rows[i].pid < rows[j].pid
  /\ \A i \in 1 .. Len(rows), p \in entries : rows[i].pid < p
  /\ listPc \in Reading =>
       /\ \A i \in 1 .. Len(rows) : rows[i].pid < row.pid
       /\ \A p \in entries : row.pid < p
  /\ listPc \in Waiting => rows = << >>
  /\ listPc = "audit" \/ listAnswer = 200 => entries = {}

(* Who has stayed is an entry still, is being read, or has a row.          *)
Listed(p) ==
  \E i \in 1 .. Len(rows) : rows[i].pid = p /\ rows[i].stat = alive[p]

NobodyIsLost ==
  /\ \A p \in Pids : alive[p] <= births
  /\ stayed \subseteq 1 .. births
  /\ listPc \in Waiting => stayed = {}
  /\ listPc \in Reading \cup {"next", "audit"} \/ listAnswer = 200 =>
       \A p \in Pids : alive[p] \in stayed =>
         \/ p \in entries
         \/ listPc \in Reading /\ row.pid = p /\ row.stat = alive[p]
         \/ Listed(p)

(* What is answered is what the policy makes of the rows, and was audited. *)
AnswerIsAudited ==
  /\ listAnswer # 0 <=> listPc = "done"
  /\ listAnswer = 200 => views = Apply /\ audited = TRUE
  /\ listAnswer # 200 => views = << >>

ListInv == ListTypeOK /\ RowUnderWay /\ WalkGoesUp /\ NobodyIsLost /\ AnswerIsAudited

(* The invariant holds at first.                                           *)
LEMMA ListInitInv == ListInit => ListInv
<1> SUFFICES ASSUME ListInit PROVE ListInv
  OBVIOUS
<1>0. MaxPid \in Nat /\ MaxBirths \in Nat /\ MaxPid <= MaxBirths
  BY ListAssumption
<1>1. ListTypeOK
  <2>1. alive \in [Pids -> Births] /\ births \in Births
    BY <1>0 DEF ListInit, Births, Pids
  <2>2. rows \in Seq(Row) /\ Len(views) <= Len(rows)
    BY DEF ListInit
  <2>3. /\ policy \in Policies /\ stayed \subseteq Births \ {0} /\ entries \subseteq Pids
        /\ audited \in BOOLEAN /\ listAnswer \in {0, 200, 403, 500}
        /\ listPc \in {"new", "walk", "next", "statm", "status", "cmdline", "audit", "done"}
    BY DEF ListInit
  <2> QED BY <2>1, <2>2, <2>3 DEF ListTypeOK
<1>2. RowUnderWay /\ WalkGoesUp
  BY DEF ListInit, RowUnderWay, WalkGoesUp, Reading, Waiting
<1>3. NobodyIsLost /\ AnswerIsAudited
  BY <1>0 DEF ListInit, NobodyIsLost, AnswerIsAudited, Waiting, Reading, Pids
<1> QED BY <1>1, <1>2, <1>3 DEF ListInv

(* What the numbers of a request are.                                      *)
LEMMA WalkTypes ==
  ASSUME ListInv
  PROVE  /\ MaxPid \in Nat /\ MaxBirths \in Nat
         /\ alive \in [Pids -> Births] /\ births \in Births /\ stayed \subseteq Births \ {0}
         /\ entries \subseteq Pids /\ audited \in BOOLEAN
         /\ rows \in Seq(Row) /\ Len(rows) \in Nat
         /\ \A i \in 1 .. Len(rows) : rows[i] \in Row /\ rows[i].pid \in Pids
         /\ \A p \in Pids : p \in Nat
         /\ \A x \in Births : x \in Nat
<1>1. /\ alive \in [Pids -> Births] /\ births \in Births /\ stayed \subseteq Births \ {0}
      /\ entries \subseteq Pids /\ audited \in BOOLEAN /\ rows \in Seq(Row)
  BY DEF ListInv, ListTypeOK
<1>2. Len(rows) \in Nat /\ \A i \in 1 .. Len(rows) : rows[i] \in Row
  BY <1>1
<1>3. \A r \in Row : r.pid \in Pids
  BY DEF Row
<1>4. MaxPid \in Nat /\ MaxBirths \in Nat
  BY ListAssumption
<1>5. (\A p \in Pids : p \in Nat) /\ (\A x \in Births : x \in Nat)
  BY <1>4 DEF Pids, Births
<1> QED BY <1>1, <1>2, <1>3, <1>4, <1>5

(* Processes come and go: what has not stayed need not be listed, and a    *)
(* new process has not.                                                    *)
LEMMA ComeAndGoInv ==
  ASSUME ListInv, NEW p \in Pids, ProcessExits(p) \/ ProcessStarts(p)
  PROVE  ListInv'
<1>0. UNCHANGED <<policy, entries, listPc, row, rows, audited, listAnswer, views>>
  BY DEF ProcessExits, ProcessStarts, request
<1>1. /\ alive' \in [Pids -> Births] /\ births' \in Births /\ stayed' \subseteq Births \ {0}
      /\ stayed' \subseteq stayed /\ stayed' \subseteq 1 .. births'
      /\ \A q \in Pids : alive'[q] <= births'
      /\ \A q \in Pids : alive'[q] \in stayed' => alive'[q] = alive[q]
  <2>0. /\ MaxBirths \in Nat /\ births \in 0 .. MaxBirths /\ alive \in [Pids -> 0 .. MaxBirths]
        /\ stayed \subseteq 1 .. births /\ \A q \in Pids : alive[q] <= births
    BY WalkTypes DEF ListInv, NobodyIsLost, Births
  <2>1. CASE ProcessExits(p)
    <3>1. /\ alive' = [alive EXCEPT ![p] = 0] /\ births' = births
          /\ stayed' = stayed \ {alive[p]}
      BY <2>1 DEF ProcessExits
    <3>2. \A q \in Pids : alive'[q] = 0 \/ (q # p /\ alive'[q] = alive[q])
      BY <2>0, <3>1
    <3>3. alive' \in [Pids -> 0 .. MaxBirths]
      BY <2>0, <3>1
    <3>4. births' \in Births /\ \A q \in Pids : alive'[q] <= births'
      BY <2>0, <3>1, <3>2 DEF Births
    <3>5. stayed' \subseteq stayed /\ stayed' \subseteq 1 .. births' /\ 0 \notin stayed'
      <4>1. 1 .. births' = 1 .. births /\ 0 \notin 1 .. births
        BY <2>0, <3>1
      <4>2. stayed' \subseteq stayed
        BY <3>1
      <4> QED BY <4>1, <4>2, <2>0
    <3>6. stayed' \subseteq Births \ {0}
      BY <2>0, <3>5, <3>1 DEF Births
    <3> QED BY <3>2, <3>3, <3>4, <3>5, <3>6 DEF Births
  <2>2. CASE ProcessStarts(p)
    <3>1. /\ alive' = [alive EXCEPT ![p] = births + 1] /\ births' = births + 1
          /\ stayed' = stayed /\ births < MaxBirths
      BY <2>2 DEF ProcessStarts
    <3>2. births + 1 \in 0 .. MaxBirths /\ births + 1 \notin stayed
          /\ stayed \subseteq 1 .. (births + 1)
      BY <2>0, <3>1
    <3> QED BY <2>0, <3>1, <3>2 DEF Births
  <2> QED BY <2>1, <2>2
<1>2. ListTypeOK'
  <2>1. audited' \in BOOLEAN
    BY <1>0, WalkTypes, Zenon
  <2> QED BY <1>0, <1>1, <2>1 DEF ListInv, ListTypeOK
<1>3. RowUnderWay' /\ WalkGoesUp' /\ AnswerIsAudited'
  <2>1. Apply' = Apply
    BY <1>0 DEF Apply, ProcessLimit, View, Disclosed
  <2>2. AnswerIsAudited'
    BY <1>0, <2>1 DEF ListInv, AnswerIsAudited
  <2>3. RowUnderWay' /\ WalkGoesUp'
    BY <1>0 DEF ListInv, RowUnderWay, WalkGoesUp
  <2> QED BY <2>2, <2>3
<1>4. NobodyIsLost'
  <2>1. \A q \in Pids : alive'[q] \in stayed' =>
          alive[q] \in stayed /\ (Listed(q) => Listed(q)')
    BY <1>0, <1>1 DEF Listed
  <2> QED BY <1>0, <1>1, <2>1 DEF ListInv, NobodyIsLost
<1> QED BY <1>2, <1>3, <1>4 DEF ListInv

(* The steps before the walk.                                              *)
LEMMA BeforeWalkInv ==
  ASSUME ListInv, CheckCapability \/ ReadDir
  PROVE  ListInv'
<1>0. /\ UNCHANGED <<policy, alive, births, row, rows, audited, views>>
      /\ listPc \in Waiting
  BY DEF CheckCapability, ReadDir, host, Waiting
<1>1. listAnswer = 0 /\ views = << >> /\ stayed = {} /\ rows = << >>
  BY <1>0 DEF ListInv, AnswerIsAudited, NobodyIsLost, WalkGoesUp, Waiting
<1>2. /\ listAnswer' \in {0, 403, 500} /\ (listAnswer' # 0 <=> listPc' = "done")
      /\ listPc' \in {"walk", "next", "done"}
      /\ entries' = entries \/ entries' = {p \in Pids : alive[p] # 0}
      /\ stayed' = {} \/ stayed' = Living
      /\ listPc' = "walk" => stayed' = {}
      /\ listPc' = "next" => entries' = {p \in Pids : alive[p] # 0}
  BY <1>1 DEF CheckCapability, ReadDir, Respond
<1>3. Living \subseteq Births \ {0} /\ Living \subseteq 1 .. births
  <2> SUFFICES ASSUME NEW p \in Pids, alive[p] # 0
               PROVE  alive[p] \in Births \ {0} /\ alive[p] \in 1 .. births
    BY DEF Living
  <2>1. alive[p] \in Births /\ alive[p] \in Nat /\ births \in Nat
    BY WalkTypes
  <2> QED BY <2>1 DEF ListInv, NobodyIsLost
<1>4. ListTypeOK'
  <2>1. audited' \in BOOLEAN
    BY <1>0, WalkTypes, Zenon
  <2>2. entries' \subseteq Pids /\ stayed' \subseteq Births \ {0}
    BY <1>2, <1>3, WalkTypes
  <2> QED BY <1>0, <1>2, <2>1, <2>2 DEF ListInv, ListTypeOK
<1>5. RowUnderWay' /\ WalkGoesUp' /\ AnswerIsAudited'
  BY <1>0, <1>1, <1>2 DEF RowUnderWay, WalkGoesUp, AnswerIsAudited, Reading, Waiting
<1>6. NobodyIsLost'
  <2>1. /\ stayed' \subseteq 1 .. births' /\ \A p \in Pids : alive'[p] <= births'
        /\ alive' = alive
    <3>1. stayed \subseteq 1 .. births /\ \A p \in Pids : alive[p] <= births
      BY DEF ListInv, NobodyIsLost
    <3>2. alive' = alive /\ births' = births /\ 1 .. births' = 1 .. births
      BY <1>0
    <3>3. stayed' \subseteq 1 .. births
      BY <1>2, <1>3
    <3>4. \A p \in Pids : alive'[p] <= births'
      BY <3>1, <3>2
    <3> QED BY <3>2, <3>3, <3>4
  <2>2. ASSUME NEW p \in Pids, listPc' = "next", alive'[p] \in stayed' PROVE p \in entries'
    BY <1>0, <1>2, <1>3, <2>2
  <2>3. listPc' \in Reading \cup {"next", "audit"} \/ listAnswer' = 200 => listPc' = "next"
    BY <1>2 DEF Reading
  <2>4. listPc' \in Waiting => stayed' = {}
    BY <1>2 DEF Waiting
  <2> QED BY <2>1, <2>2, <2>3, <2>4 DEF NobodyIsLost
<1> QED BY <1>4, <1>5, <1>6 DEF ListInv

(* The next process is read, or was gone and is passed.                    *)
LEMMA ReadStatInv ==
  ASSUME ListInv, ReadStat
  PROVE  ListInv'
<1>0. /\ UNCHANGED <<policy, alive, births, stayed, rows, audited, listAnswer, views>>
      /\ listPc = "next"
  BY DEF ReadStat, host
<1>1. listAnswer = 0 /\ views = << >>
  BY <1>0 DEF ListInv, AnswerIsAudited
<1>2. PICK p \in Pids :
        /\ IsNext(p) /\ entries' = entries \ {p}
        /\ \/ alive[p] = 0 /\ listPc' = "next" /\ row' = row
           \/ alive[p] # 0 /\ listPc' = "statm" /\ row' = [pid |-> p, stat |-> alive[p]]
  BY <1>0 DEF ReadStat
<1>3. p \in entries /\ (\A q \in entries \ {p} : p < q) /\ alive[p] \in Births
  <2>1. entries \subseteq Pids /\ (\A q \in Pids : q \in Nat) /\ alive \in [Pids -> Births]
    BY WalkTypes
  <2>2. p \in entries /\ \A q \in entries : p <= q
    BY <1>2 DEF IsNext
  <2> QED BY <2>1, <2>2
<1>4. ListTypeOK'
  <2>1. audited' \in BOOLEAN
    BY <1>0, WalkTypes, Zenon
  <2> QED BY <1>0, <1>2, <2>1 DEF ListInv, ListTypeOK
<1>5. RowUnderWay' /\ AnswerIsAudited'
  BY <1>0, <1>1, <1>2, <1>3 DEF RowUnderWay, AnswerIsAudited
<1>6. WalkGoesUp'
  <2>1. /\ \A i, j \in 1 .. Len(rows) : i < j => rows[i].pid < rows[j].pid
        /\ \A i \in 1 .. Len(rows), q \in entries : rows[i].pid < q
    BY DEF ListInv, WalkGoesUp
  <2>2. listPc' \in Reading =>
          /\ row'.pid = p
          /\ \A i \in 1 .. Len(rows) : rows[i].pid < row'.pid
          /\ \A q \in entries' : row'.pid < q
    BY <1>2, <1>3, <2>1 DEF Reading
  <2>3. listPc' \notin Waiting /\ listPc' # "audit" /\ listAnswer' # 200
    BY <1>0, <1>1, <1>2 DEF Waiting
  <2> QED BY <1>0, <1>2, <2>1, <2>2, <2>3 DEF WalkGoesUp
<1>7. NobodyIsLost'
  <2>1. /\ \A q \in Pids : alive[q] <= births
        /\ stayed \subseteq 1 .. births /\ 0 \notin stayed
        /\ \A q \in Pids : alive[q] \in stayed => q \in entries \/ Listed(q)
    BY <1>0, WalkTypes DEF ListInv, NobodyIsLost, Reading
  <2>2. ASSUME NEW q \in Pids, alive[q] \in stayed
        PROVE  \/ q \in entries'
               \/ listPc' \in Reading /\ row'.pid = q /\ row'.stat = alive[q]
               \/ Listed(q)
    BY <1>2, <2>1, <2>2 DEF Reading
  <2>3. \A q \in Pids : Listed(q)' <=> Listed(q)
    BY <1>0 DEF Listed
  <2>4. listPc' \notin Waiting /\ 1 .. births' = 1 .. births
    BY <1>0, <1>2 DEF Waiting
  <2> QED BY <1>0, <2>1, <2>2, <2>3, <2>4 DEF NobodyIsLost
<1> QED BY <1>4, <1>5, <1>6, <1>7 DEF ListInv

(* A further file of the process under way.                                *)
LEMMA ReadFileInv ==
  ASSUME ListInv, ReadRSSPages \/ ReadProcessUID
  PROVE  ListInv'
<1>0. /\ UNCHANGED <<policy, alive, births, stayed, entries, rows, audited, listAnswer, views>>
      /\ listPc \in Reading /\ listPc' \in Reading
      /\ row'.pid = row.pid /\ row'.stat = row.stat
  BY DEF ReadRSSPages, ReadProcessUID, host, Reading
<1>1. listAnswer = 0
  BY <1>0 DEF ListInv, AnswerIsAudited, Reading
<1>2. RowUnderWay'
  <2>1. 0 \in Births
    BY WalkTypes DEF Births
  <2>2. CASE ReadRSSPages
    BY <2>1, <2>2 DEF ListInv, RowUnderWay, ReadRSSPages
  <2>3. CASE ReadProcessUID
    <3>1. row.pid \in Pids /\ alive[row.pid] \in Births
      BY <2>3, WalkTypes DEF ListInv, RowUnderWay, ReadProcessUID
    <3> QED BY <2>3, <3>1 DEF ListInv, RowUnderWay, ReadProcessUID
  <2> QED BY <2>2, <2>3
<1>3. ListTypeOK'
  <2>1. audited' \in BOOLEAN
    BY <1>0, WalkTypes, Zenon
  <2> QED BY <1>0, <2>1 DEF ListInv, ListTypeOK, Reading
<1>4. WalkGoesUp'
  BY <1>0, <1>1 DEF ListInv, WalkGoesUp, Reading, Waiting
<1>5. NobodyIsLost'
  <2>1. \A q \in Pids : Listed(q)' <=> Listed(q)
    BY <1>0 DEF Listed
  <2>2. listPc' \notin Waiting /\ 1 .. births' = 1 .. births
    BY <1>0 DEF Waiting, Reading
  <2> QED BY <1>0, <2>1, <2>2 DEF ListInv, NobodyIsLost
<1>6. AnswerIsAudited'
  BY <1>0, <1>1 DEF ListInv, AnswerIsAudited, Reading
<1> QED BY <1>2, <1>3, <1>4, <1>5, <1>6 DEF ListInv

(* The last of its files: it is a row of the list.                         *)
LEMMA RowInv ==
  ASSUME ListInv, ReadProcessCommandLine
  PROVE  ListInv'
<1> DEFINE new == [pid |-> row.pid, stat |-> row.stat, statm |-> row.statm,
                   status |-> row.status, cmdline |-> alive[row.pid]]
<1>0. /\ UNCHANGED <<policy, alive, births, stayed, entries, audited, listAnswer, views>>
      /\ listPc = "cmdline" /\ listPc' = "next" /\ rows' = Append(rows, new)
  BY DEF ReadProcessCommandLine, host
<1>1. listAnswer = 0 /\ views = << >>
  BY <1>0 DEF ListInv, AnswerIsAudited
<1>2. row \in [pid : Pids, stat : Births, statm : Births, status : Births]
  BY <1>0 DEF ListInv, RowUnderWay
<1>3. new \in Row /\ new.pid = row.pid /\ new.stat = row.stat
  <2>1. row.pid \in Pids /\ alive[row.pid] \in Births
    BY <1>2, WalkTypes
  <2> QED BY <1>2, <2>1 DEF Row
<1> HIDE DEF new
<1>4. /\ rows' \in Seq(Row) /\ Len(rows') = Len(rows) + 1
      /\ \A i \in 1 .. Len(rows) : rows'[i] = rows[i]
      /\ rows'[Len(rows) + 1] = new
      /\ Len(rows) \in Nat
  BY <1>0, <1>3, WalkTypes
<1>5. ListTypeOK'
  <2>1. audited' \in BOOLEAN
    BY <1>0, WalkTypes, Zenon
  <2>2. Len(views') <= Len(rows')
    BY <1>0, <1>1, <1>4
  <2> QED BY <1>0, <1>4, <2>1, <2>2 DEF ListInv, ListTypeOK
<1>6. RowUnderWay' /\ AnswerIsAudited'
  BY <1>0, <1>1 DEF RowUnderWay, AnswerIsAudited
<1>7. WalkGoesUp'
  <2>1. /\ \A i, j \in 1 .. Len(rows) : i < j => rows[i].pid < rows[j].pid
        /\ \A i \in 1 .. Len(rows) : rows[i].pid < row.pid
        /\ \A i \in 1 .. Len(rows), q \in entries : rows[i].pid < q
        /\ \A q \in entries : row.pid < q
    BY <1>0 DEF ListInv, WalkGoesUp, Reading
  <2>2. \A i \in 1 .. Len(rows') : i \in 1 .. Len(rows) \/ i = Len(rows) + 1
    BY <1>4
  <2>3. \A i, j \in 1 .. Len(rows') : i < j => i \in 1 .. Len(rows)
    BY <1>4
  <2>4. \A i, j \in 1 .. Len(rows') : i < j => rows'[i].pid < rows'[j].pid
    BY <1>3, <1>4, <2>1, <2>2, <2>3
  <2>5. \A i \in 1 .. Len(rows'), q \in entries' : rows'[i].pid < q
    BY <1>0, <1>3, <1>4, <2>1, <2>2
  <2>6. listPc' \notin Reading /\ listPc' \notin Waiting /\ listPc' # "audit" /\ listAnswer' # 200
    BY <1>0, <1>1 DEF Reading, Waiting
  <2> QED BY <2>4, <2>5, <2>6 DEF WalkGoesUp
<1>8. NobodyIsLost'
  <2>1. /\ \A q \in Pids : alive[q] <= births
        /\ stayed \subseteq 1 .. births
        /\ \A q \in Pids : alive[q] \in stayed =>
             \/ q \in entries
             \/ row.pid = q /\ row.stat = alive[q]
             \/ Listed(q)
    BY <1>0 DEF ListInv, NobodyIsLost, Reading
  <2>2. ASSUME NEW q \in Pids, (row.pid = q /\ row.stat = alive[q]) \/ Listed(q)
        PROVE  Listed(q)'
    <3>1. CASE row.pid = q /\ row.stat = alive[q]
      <4>1. Len(rows') \in 1 .. Len(rows')
        BY <1>4
      <4>2. rows'[Len(rows')].pid = q /\ rows'[Len(rows')].stat = alive'[q]
        BY <1>0, <1>3, <1>4, <3>1
      <4> QED BY <4>1, <4>2 DEF Listed
    <3>2. CASE Listed(q)
      <4>1. PICK i \in 1 .. Len(rows) : rows[i].pid = q /\ rows[i].stat = alive[q]
        BY <3>2 DEF Listed
      <4>2. i \in 1 .. Len(rows')
        BY <1>4
      <4>3. rows'[i].pid = q /\ rows'[i].stat = alive'[q]
        BY <1>0, <1>4, <4>1
      <4> QED BY <4>2, <4>3 DEF Listed
    <3> QED BY <2>2, <3>1, <3>2
  <2>3. listPc' \notin Waiting /\ 1 .. births' = 1 .. births
    BY <1>0 DEF Waiting
  <2> QED BY <1>0, <2>1, <2>2, <2>3 DEF NobodyIsLost
<1> QED BY <1>5, <1>6, <1>7, <1>8 DEF ListInv

(* The answer has as many rows as the policy lets out.                     *)
LEMMA ApplyLength ==
  ASSUME ListInv
  PROVE  /\ ProcessLimit \in 0 .. Len(rows)
         /\ Len(Apply) = ProcessLimit
         /\ \A i \in 1 .. ProcessLimit : Apply[i] = View(rows[i])
         /\ ProcessLimit # Len(rows) => ProcessLimit = policy.maxProcesses
<1>1. policy.maxProcesses \in Nat
  <2>1. policy \in Policies
    BY DEF ListInv, ListTypeOK
  <2> QED BY <2>1, ListAssumption
<1>2. Len(rows) \in Nat
  BY WalkTypes
<1>3. /\ ProcessLimit \in 0 .. Len(rows)
      /\ ProcessLimit # Len(rows) => ProcessLimit = policy.maxProcesses
  BY <1>1, <1>2 DEF ProcessLimit
<1>4. /\ Len(Apply) = ProcessLimit
      /\ \A i \in 1 .. ProcessLimit : Apply[i] = View(rows[i])
  BY <1>2, <1>3 DEF Apply
<1> QED BY <1>3, <1>4

(* The walk is over; the row of the audit is written, and the answer sent. *)
LEMMA AnswerInv ==
  ASSUME ListInv, WalkEnds \/ RecordProcessList
  PROVE  ListInv'
<1>0. /\ UNCHANGED <<policy, alive, births, stayed, entries, row, rows>>
      /\ listPc' \in {"audit", "done"} /\ entries = {}
      /\ listPc \in {"next", "audit"}
  BY DEF ListInv, WalkGoesUp, WalkEnds, RecordProcessList, host, Respond
<1>1. listAnswer = 0 /\ views = << >>
  BY <1>0 DEF ListInv, AnswerIsAudited
<1>2. \/ listPc' = "audit" /\ listAnswer' = 0 /\ views' = << >> /\ audited' = audited
      \/ listPc' = "done" /\ listAnswer' = 500 /\ views' = << >> /\ audited' = audited
      \/ listPc' = "done" /\ listAnswer' = 200 /\ views' = Apply /\ audited' = TRUE
  BY <1>0, <1>1 DEF WalkEnds, RecordProcessList, Respond
<1>3. Apply' = Apply
  BY <1>0 DEF Apply, ProcessLimit, View, Disclosed
<1>4. ListTypeOK'
  <2>1. audited' \in BOOLEAN
    <3>1. audited \in BOOLEAN
      BY WalkTypes
    <3> QED BY <1>2, <3>1, Zenon
  <2>2. Len(Apply) <= Len(rows) /\ Len(<< >>) <= Len(rows)
    BY ApplyLength, WalkTypes
  <2>3. Len(views') <= Len(rows')
    BY <1>0, <1>2, <2>2
  <2> QED BY <1>0, <1>2, <2>1, <2>3 DEF ListInv, ListTypeOK
<1>5. RowUnderWay' /\ WalkGoesUp'
  BY <1>0, <1>2 DEF ListInv, RowUnderWay, WalkGoesUp, Reading, Waiting
<1>6. AnswerIsAudited'
  BY <1>2, <1>3 DEF AnswerIsAudited
<1>7. NobodyIsLost'
  <2>1. \A q \in Pids : Listed(q)' <=> Listed(q)
    BY <1>0 DEF Listed
  <2>2. \A q \in Pids : alive[q] \in stayed => Listed(q)
    BY <1>0 DEF ListInv, NobodyIsLost, Reading
  <2>3. listPc' \notin Waiting /\ 1 .. births' = 1 .. births
    BY <1>0 DEF Waiting
  <2> QED BY <1>0, <2>1, <2>2, <2>3 DEF ListInv, NobodyIsLost
<1> QED BY <1>4, <1>5, <1>6, <1>7 DEF ListInv

(* Every step keeps the invariant.                                         *)
LEMMA ListNextInv == ListInv /\ [ListNext]_listVars => ListInv'
<1> SUFFICES ASSUME ListInv, [ListNext]_listVars PROVE ListInv'
  OBVIOUS
<1>1. CASE Handle
  BY <1>1, BeforeWalkInv, ReadStatInv, ReadFileInv, RowInv, AnswerInv DEF Handle
<1>2. CASE \E p \in Pids : ProcessExits(p) \/ ProcessStarts(p)
  BY <1>2, ComeAndGoInv
<1>3. CASE UNCHANGED listVars
  <2>0. /\ UNCHANGED <<policy, alive, births, stayed, entries, listPc, row, rows>>
        /\ UNCHANGED <<audited, listAnswer, views>>
    BY <1>3 DEF listVars
  <2>1. Apply' = Apply /\ \A p \in Pids : Listed(p)' <=> Listed(p)
    BY <2>0 DEF Apply, ProcessLimit, View, Disclosed, Listed
  <2>2. ListTypeOK'
    <3>1. audited' \in BOOLEAN
      BY <2>0, WalkTypes, Zenon
    <3> QED BY <2>0, <3>1 DEF ListInv, ListTypeOK
  <2>3. RowUnderWay' /\ WalkGoesUp'
    BY <2>0 DEF ListInv, RowUnderWay, WalkGoesUp
  <2>4. NobodyIsLost'
    BY <2>0, <2>1 DEF ListInv, NobodyIsLost
  <2>5. AnswerIsAudited'
    BY <2>0, <2>1 DEF ListInv, AnswerIsAudited
  <2> QED BY <2>2, <2>3, <2>4, <2>5 DEF ListInv
<1> QED BY <1>1, <1>2, <1>3 DEF ListNext

(* The invariant of a request for the list of processes.                   *)
THEOREM ListInvariance == ListSpec => []ListInv
<1>1. ListInit => ListInv
  BY ListInitInv
<1>2. ListInv /\ [ListNext]_listVars => ListInv'
  BY ListNextInv
<1> QED BY <1>1, <1>2, PTL DEF ListSpec

(* The variables of such a request have their types.                       *)
THEOREM ListTypeCorrect == ListSpec => []ListTypeOK
<1>1. ListInv => ListTypeOK
  BY DEF ListInv
<1> QED BY <1>1, ListInvariance, PTL

(* Nothing is told without a row in the audit.                             *)
LEMMA ListAudited == ListInv => NothingUnaudited
  BY DEF ListInv, AnswerIsAudited, NothingUnaudited

(* Who has stayed has a row, and the rows that are let out are the first:  *)
(* it is in the answer or behind all of it.                                *)
LEMMA ListComplete == ListInv => LongLivedAreListed
<1> SUFFICES ASSUME ListInv, listAnswer = 200, NEW p \in Pids, alive[p] \in stayed
             PROVE  \/ \E i \in 1 .. Len(views) :
                         views[i].pid = p /\ views[i].stat = alive[p]
                    \/ /\ Len(views) = policy.maxProcesses
                       /\ \A i \in 1 .. Len(views) : views[i].pid < p
  BY DEF LongLivedAreListed
<1>1. views = Apply /\ entries = {}
  BY DEF ListInv, AnswerIsAudited, WalkGoesUp
<1>2. PICK k \in 1 .. Len(rows) : rows[k].pid = p /\ rows[k].stat = alive[p]
  <2>1. listPc \notin Reading
    BY DEF ListInv, AnswerIsAudited, Reading
  <2> QED BY <1>1, <2>1 DEF ListInv, NobodyIsLost, Listed
<1>3. /\ Len(views) = ProcessLimit /\ ProcessLimit \in 0 .. Len(rows)
      /\ ProcessLimit # Len(rows) => ProcessLimit = policy.maxProcesses
      /\ Len(rows) \in Nat
  BY <1>1, ApplyLength, WalkTypes
<1>4. \A i \in 1 .. ProcessLimit : views[i] = View(rows[i])
  BY <1>1, ApplyLength
<1>5. \A r : View(r).pid = r.pid /\ View(r).stat = r.stat
  BY DEF View, Disclosed
<1>6. CASE k \in 1 .. ProcessLimit
  <2>1. views[k].pid = p /\ views[k].stat = alive[p]
    BY <1>2, <1>4, <1>5, <1>6
  <2> QED BY <1>3, <1>6, <2>1
<1>7. CASE k \notin 1 .. ProcessLimit
  <2>1. ProcessLimit < k /\ Len(views) = policy.maxProcesses
    BY <1>2, <1>3, <1>7
  <2>2. ASSUME NEW i \in 1 .. Len(views) PROVE views[i].pid < p
    <3>1. i \in 1 .. ProcessLimit /\ i \in 1 .. Len(rows) /\ i < k
      BY <1>3, <2>1
    <3>2. rows[i].pid < rows[k].pid
      BY <3>1 DEF ListInv, WalkGoesUp
    <3> QED BY <1>2, <1>4, <1>5, <3>1, <3>2
  <2> QED BY <2>1, <2>2
<1> QED BY <1>6, <1>7

(* A list that is answered was audited, and misses no process that lived   *)
(* all the while, however many come and go during the walk.                *)
THEOREM ListsAreTrue == ListSpec => []ListIsTrue
<1>1. ListInv => ListIsTrue
  BY ListAudited, ListComplete DEF ListIsTrue
<1> QED BY <1>1, ListInvariance, PTL

---------------------------------------------------------------------------
Failed   == counter["agent_rpc_failures_total"]
Asked    == counter["agent_rpc_requests_total"]
Degraded == counter["readiness_agent_degraded_total"]
ChecksMade  == counter["readiness_checks_total"]
DbFailed == counter["readiness_db_failures_total"]
MigrationFailed == counter["readiness_migration_failures_total"]

(* A report grows check by check, and what failed last is yet to be        *)
(* counted or has been.                                                    *)
ReportGrows(c) ==
  LET n == Len(report[c]) IN
  /\ n >= 1 => report[c][1] = "started"
  /\ \A i \in 2 .. n : report[c][i] \in {"ok", Failure[i - 1]}
  /\ todo[c] # "none" => n \in 2 .. 4 /\ todo[c] = FailureCounter[n - 1]

(* A failed request is counted after the request.                          *)
FailureIsOfARequest ==
  IF dispatch = "failed" THEN Failed + 1 <= Asked ELSE Failed <= Asked

(* The requests that were counted and may yet be counted as failing the    *)
(* i-th check.                                                             *)
MayFail(i) ==
  {c \in Checks : Len(report[c]) \in 1 .. i \/ todo[c] = FailureCounter[i]}

(* Every failure is of a request that was counted, and of no other.        *)
FailuresAreOfChecks ==
  \A i \in 1 .. 3 : counter[FailureCounter[i]] + Cardinality(MayFail(i)) <= ChecksMade

(* The reports with a degraded, or a failed, check that is counted.        *)
DegradedReports ==
  {c \in Checks : Len(report[c]) = 4 /\ report[c][4] = "degraded" /\ todo[c] = "none"}

FailedReports ==
  {c \in Checks :
     \E i \in 2 .. Len(report[c]) :
       report[c][i] = "fail" /\ (i < Len(report[c]) \/ todo[c] = "none")}

AnswersHaveReasons ==
  /\ answers["degraded"] + Cardinality(DegradedReports) <= Degraded
  /\ answers["fail"] + Cardinality(FailedReports) <= DbFailed + MigrationFailed

(* A part has been read before its whole.                                  *)
PartIsReadFirst ==
  /\ reading >= 1 => snapshot["agent_rpc_failures_total"] <= Failed
  /\ reading >= 2 =>
       snapshot["agent_rpc_failures_total"] <= snapshot["agent_rpc_requests_total"]
  /\ reading >= 3 => snapshot["readiness_agent_degraded_total"] <= Degraded
  /\ reading >= 4 =>
       snapshot["readiness_agent_degraded_total"] <= snapshot["readiness_checks_total"]

(* What is shown was counted.                                              *)
ShownIsCounted == \A n \in Counters : snapshot[n] <= counter[n]

MetricsInv ==
  /\ MetricsTypeOK
  /\ \A c \in Checks : ReportGrows(c)
  /\ FailureIsOfARequest /\ FailuresAreOfChecks
  /\ AnswersHaveReasons
  /\ PartIsReadFirst /\ ShownIsCounted

(* The names of the counters.                                              *)
LEMMA CountersAre ==
  Counters = {"agent_rpc_failures_total", "agent_rpc_requests_total",
              "readiness_agent_degraded_total", "readiness_checks_total",
              "readiness_db_failures_total", "readiness_migration_failures_total"}
<1>1. Len(CounterNames) = 6
  BY DEF CounterNames
<1>2. 1 .. 6 = {1, 2, 3, 4, 5, 6}
  OBVIOUS
<1> QED BY <1>1, <1>2 DEF Counters, CounterNames

(* The three checks, and what is counted when they fail.                   *)
LEMMA ChecksAre ==
  /\ Failure[1] = "fail" /\ Failure[2] = "fail" /\ Failure[3] = "degraded"
  /\ FailureCounter[1] = "readiness_db_failures_total"
  /\ FailureCounter[2] = "readiness_migration_failures_total"
  /\ FailureCounter[3] = "readiness_agent_degraded_total"
BY DEF Failure, FailureCounter

(* They are counters, each of its own.                                     *)
LEMMA FailureCountersAre ==
  /\ \A i \in 1 .. 3 : /\ FailureCounter[i] \in Counters \ {"readiness_checks_total"}
                       /\ FailureCounter[i] # "none"
                       /\ FailureCounter[i] \notin
                            {"agent_rpc_failures_total", "agent_rpc_requests_total"}
  /\ \A i, j \in 1 .. 3 : FailureCounter[i] = FailureCounter[j] => i = j
<1>1. 1 .. 3 = {1, 2, 3}
  OBVIOUS
<1> QED BY <1>1, ChecksAre, CountersAre

(* What the variables of the counters are.                                 *)
LEMMA MetricsTypes ==
  ASSUME MetricsInv
  PROVE  /\ counter \in [Counters -> Nat] /\ snapshot \in [Counters -> Nat]
         /\ todo \in [Checks -> Counters \cup {"none"}]
         /\ report \in [Checks -> Seq({"started"} \cup Statuses)]
         /\ \A c \in Checks : Len(report[c]) \in 0 .. 4
         /\ answers \in [Statuses -> Nat]
         /\ reading \in 0 .. 6
         /\ Failed \in Nat /\ Asked \in Nat /\ Degraded \in Nat /\ ChecksMade \in Nat
         /\ DbFailed \in Nat /\ MigrationFailed \in Nat
<1>1. /\ counter \in [Counters -> Nat] /\ snapshot \in [Counters -> Nat]
      /\ todo \in [Checks -> Counters \cup {"none"}]
      /\ report \in [Checks -> Seq({"started"} \cup Statuses)]
      /\ answers \in [Statuses -> Nat]
      /\ \A c \in Checks : Len(report[c]) <= 4
  BY DEF MetricsInv, MetricsTypeOK
<1>2. \A c \in Checks : Len(report[c]) \in 0 .. 4
  <2> TAKE c \in Checks
  <2>1. report[c] \in Seq({"started"} \cup Statuses)
    BY <1>1
  <2>2. Len(report[c]) \in Nat /\ Len(report[c]) <= 4
    BY <1>1, <2>1
  <2>3. \A n \in Nat : n <= 4 => n \in 0 .. 4
    OBVIOUS
  <2> QED BY <2>2, <2>3
<1>3. reading \in 0 .. 6
  BY DEF MetricsInv, MetricsTypeOK, CounterNames
<1>4. /\ Failed \in Nat /\ Asked \in Nat /\ Degraded \in Nat /\ ChecksMade \in Nat
      /\ DbFailed \in Nat /\ MigrationFailed \in Nat
  BY <1>1, CountersAre DEF Failed, Asked, Degraded, ChecksMade, DbFailed, MigrationFailed
<1> QED BY <1>1, <1>2, <1>3, <1>4

(* One counter is one more, the others are what they were.                 *)
LEMMA IncCounts ==
  ASSUME counter \in [Counters -> Nat], NEW name \in Counters, Inc(name)
  PROVE  /\ counter' \in [Counters -> Nat]
         /\ counter'[name] = counter[name] + 1
         /\ \A n \in Counters \ {name} : counter'[n] = counter[n]
         /\ \A n \in Counters : counter[n] <= counter'[n]
<1>1. counter' = [counter EXCEPT ![name] = counter[name] + 1]
  BY DEF Inc
<1>2. /\ counter'[name] = counter[name] + 1
      /\ \A n \in Counters \ {name} : counter'[n] = counter[n]
      /\ counter' \in [Counters -> Nat]
  BY <1>1
<1>3. ASSUME NEW n \in Counters PROVE counter[n] <= counter'[n]
  <2>1. counter[n] \in Nat /\ counter[name] \in Nat
    OBVIOUS
  <2> QED BY <1>2, <2>1
<1> QED BY <1>2, <1>3

(* Two sets that differ in at most one element, counted.                   *)
LEMMA OneElement ==
  ASSUME NEW S, NEW T, NEW c, IsFiniteSet(S), S \ {c} = T \ {c}
  PROVE  /\ IsFiniteSet(T) /\ Cardinality(S) \in Nat /\ Cardinality(T) \in Nat
         /\ Cardinality(T) <= Cardinality(S) + 1
         /\ c \in S \/ c \notin T => Cardinality(T) <= Cardinality(S)
         /\ c \in S /\ c \notin T => Cardinality(T) + 1 = Cardinality(S)
<1> DEFINE R == S \ {c}
<1>1. /\ IsFiniteSet(R) /\ Cardinality(R) = IF c \in S THEN Cardinality(S) - 1 ELSE Cardinality(S)
  BY FS_RemoveElement
<1>2. Cardinality(S) \in Nat /\ Cardinality(R) \in Nat
  BY <1>1, FS_CardinalityType
<1>3. c \notin R /\ (c \in T => T = R \cup {c}) /\ (c \notin T => T = R)
  OBVIOUS
<1> HIDE DEF R
<1>4. IsFiniteSet(R \cup {c}) /\ Cardinality(R \cup {c}) = Cardinality(R) + 1
  BY <1>1, <1>3, FS_AddElement
<1>5. /\ c \in S => Cardinality(S) = Cardinality(R) + 1
      /\ c \notin S => Cardinality(S) = Cardinality(R)
  BY <1>1, <1>2
<1>6. CASE c \in T
  <2>1. IsFiniteSet(T) /\ Cardinality(T) = Cardinality(R) + 1
    BY <1>3, <1>4, <1>6
  <2> QED BY <1>2, <1>5, <1>6, <2>1
<1>7. CASE c \notin T
  <2>1. IsFiniteSet(T) /\ Cardinality(T) = Cardinality(R)
    BY <1>1, <1>3, <1>7
  <2> QED BY <1>2, <1>5, <1>7, <2>1
<1> QED BY <1>6, <1>7

(* The sets that are counted are finite.                                   *)
LEMMA ReportsAreFinite ==
  /\ IsFiniteSet(DegradedReports) /\ IsFiniteSet(FailedReports)
  /\ Cardinality(DegradedReports) \in Nat /\ Cardinality(FailedReports) \in Nat
  /\ \A i \in 1 .. 3 : IsFiniteSet(MayFail(i)) /\ Cardinality(MayFail(i)) \in Nat
<1>1. /\ IsFiniteSet(DegradedReports) /\ IsFiniteSet(FailedReports)
      /\ \A i \in 1 .. 3 : IsFiniteSet(MayFail(i))
  <2>1. /\ \A i \in 1 .. 3 : MayFail(i) \in SUBSET Checks
        /\ DegradedReports \in SUBSET Checks
        /\ FailedReports \in SUBSET Checks
    BY DEF MayFail, DegradedReports, FailedReports
  <2> QED BY <2>1, MetricsAssumption, FS_Subset
<1> QED BY <1>1, FS_CardinalityType

(* The invariant holds at first.                                           *)
LEMMA MetricsInitInv == MetricsInit => MetricsInv
<1> SUFFICES ASSUME MetricsInit PROVE MetricsInv
  OBVIOUS
<1>0. /\ counter = [n \in Counters |-> 0] /\ snapshot = [n \in Counters |-> 0]
      /\ reading = 0 /\ dispatch = "idle"
      /\ todo = [c \in Checks |-> "none"] /\ report = [c \in Checks |-> << >>]
      /\ answers = [status \in Statuses |-> 0]
  BY DEF MetricsInit, Zero
<1>1. Failed = 0 /\ Asked = 0 /\ Degraded = 0 /\ ChecksMade = 0 /\ DbFailed = 0 /\ MigrationFailed = 0
  BY <1>0, CountersAre DEF Failed, Asked, Degraded, ChecksMade, DbFailed, MigrationFailed
<1>2. MetricsTypeOK
  <2>1. \A c \in Checks : report[c] = << >> /\ Len(report[c]) <= 4
    BY <1>0
  <2>2. report \in [Checks -> Seq({"started"} \cup Statuses)]
    BY <1>0
  <2>3. reading \in 0 .. Len(CounterNames)
    BY <1>0 DEF CounterNames
  <2>4. counter \in [Counters -> Nat] /\ snapshot \in [Counters -> Nat]
    BY <1>0
  <2>5. answers \in [Statuses -> Nat] /\ todo \in [Checks -> Counters \cup {"none"}]
    BY <1>0
  <2> QED BY <1>0, <2>1, <2>2, <2>3, <2>4, <2>5 DEF MetricsTypeOK
<1>3. \A c \in Checks : ReportGrows(c)
  BY <1>0 DEF ReportGrows
<1>4. /\ DegradedReports = {} /\ FailedReports = {}
      /\ \A i \in 1 .. 3 : MayFail(i) = {} /\ counter[FailureCounter[i]] = 0
  <2>1. \A i \in 1 .. 3 : FailureCounter[i] \in Counters /\ FailureCounter[i] # "none"
    BY FailureCountersAre
  <2>2. \A i \in 1 .. 3 : counter[FailureCounter[i]] = 0
    BY <1>0, <2>1
  <2>3. \A c \in Checks : Len(report[c]) = 0 /\ todo[c] = "none"
    BY <1>0
  <2>4. ASSUME NEW i \in 1 .. 3 PROVE MayFail(i) = {}
    BY <2>1, <2>3 DEF MayFail
  <2>5. DegradedReports = {} /\ FailedReports = {}
    BY <2>3 DEF DegradedReports, FailedReports
  <2> QED BY <2>2, <2>4, <2>5
<1>5. answers["degraded"] = 0 /\ answers["fail"] = 0
  BY <1>0 DEF Statuses
<1>6. /\ FailureIsOfARequest /\ FailuresAreOfChecks /\ AnswersHaveReasons
      /\ PartIsReadFirst /\ ShownIsCounted
  <2>1. FailuresAreOfChecks
    BY <1>1, <1>4, FS_EmptySet DEF FailuresAreOfChecks
  <2>2. FailureIsOfARequest /\ AnswersHaveReasons
    BY <1>0, <1>1, <1>4, <1>5, FS_EmptySet DEF FailureIsOfARequest, AnswersHaveReasons
  <2>3. PartIsReadFirst /\ ShownIsCounted
    BY <1>0 DEF PartIsReadFirst, ShownIsCounted
  <2> QED BY <2>1, <2>2, <2>3
<1> QED BY <1>2, <1>3, <1>6 DEF MetricsInv

(* Counting on does not disturb what has been read.                        *)
LEMMA ReadStaysRead ==
  ASSUME MetricsInv, UNCHANGED <<reading, snapshot>>,
         counter' \in [Counters -> Nat], \A n \in Counters : counter[n] <= counter'[n]
  PROVE  PartIsReadFirst' /\ ShownIsCounted'
<1>1. /\ snapshot["agent_rpc_failures_total"] \in Nat
      /\ snapshot["readiness_agent_degraded_total"] \in Nat
      /\ Failed \in Nat /\ Degraded \in Nat /\ reading \in 0 .. 6
  BY MetricsTypes, CountersAre
<1>2. Failed' \in Nat /\ Degraded' \in Nat /\ Failed <= Failed' /\ Degraded <= Degraded'
  BY CountersAre DEF Failed, Degraded
<1>3. ASSUME NEW n \in Counters PROVE snapshot'[n] <= counter'[n]
  <2>1. snapshot[n] \in Nat /\ counter[n] \in Nat /\ counter'[n] \in Nat
    BY MetricsTypes
  <2> QED BY <2>1 DEF MetricsInv, ShownIsCounted
<1> QED BY <1>1, <1>2, <1>3 DEF MetricsInv, PartIsReadFirst, ShownIsCounted

(* The worker counts a request, and perhaps its failure.                   *)
LEMMA CountDispatchInv ==
  ASSUME MetricsInv, CountRequest \/ CountFailure
  PROVE  MetricsInv'
<1>0. UNCHANGED <<todo, report, answers, reading, snapshot>>
  BY DEF CountRequest, CountFailure
<1>1. /\ counter' \in [Counters -> Nat] /\ \A n \in Counters : counter[n] <= counter'[n]
      /\ Degraded' = Degraded /\ ChecksMade' = ChecksMade
      /\ DbFailed' = DbFailed /\ MigrationFailed' = MigrationFailed
      /\ \A i \in 1 .. 3 : counter'[FailureCounter[i]] = counter[FailureCounter[i]]
      /\ dispatch' \in {"idle", "failed"} /\ FailureIsOfARequest'
  <2>0. Failed \in Nat /\ Asked \in Nat /\ FailureIsOfARequest
    BY MetricsTypes DEF MetricsInv
  <2>1. CASE CountRequest
    <3>1. /\ counter' \in [Counters -> Nat] /\ \A n \in Counters : counter[n] <= counter'[n]
          /\ counter'["agent_rpc_requests_total"] = counter["agent_rpc_requests_total"] + 1
          /\ \A n \in Counters \ {"agent_rpc_requests_total"} : counter'[n] = counter[n]
      BY <2>1, IncCounts, MetricsTypes, CountersAre DEF CountRequest
    <3>2. /\ Degraded' = Degraded /\ ChecksMade' = ChecksMade /\ Failed' = Failed
          /\ DbFailed' = DbFailed /\ MigrationFailed' = MigrationFailed /\ Asked' = Asked + 1
      BY <3>1, CountersAre DEF Failed, Asked, Degraded, ChecksMade, DbFailed, MigrationFailed
    <3>3. dispatch = "idle" /\ dispatch' \in {"idle", "failed"}
      BY <2>1 DEF CountRequest
    <3>4. \A i \in 1 .. 3 : counter'[FailureCounter[i]] = counter[FailureCounter[i]]
      BY <3>1, FailureCountersAre
    <3> QED BY <2>0, <3>1, <3>2, <3>3, <3>4 DEF FailureIsOfARequest
  <2>2. CASE CountFailure
    <3>1. /\ counter' \in [Counters -> Nat] /\ \A n \in Counters : counter[n] <= counter'[n]
          /\ counter'["agent_rpc_failures_total"] = counter["agent_rpc_failures_total"] + 1
          /\ \A n \in Counters \ {"agent_rpc_failures_total"} : counter'[n] = counter[n]
      BY <2>2, IncCounts, MetricsTypes, CountersAre DEF CountFailure
    <3>2. /\ Degraded' = Degraded /\ ChecksMade' = ChecksMade /\ Asked' = Asked
          /\ DbFailed' = DbFailed /\ MigrationFailed' = MigrationFailed /\ Failed' = Failed + 1
      BY <3>1, CountersAre DEF Failed, Asked, Degraded, ChecksMade, DbFailed, MigrationFailed
    <3>3. dispatch = "failed" /\ dispatch' = "idle"
      BY <2>2 DEF CountFailure
    <3>4. \A i \in 1 .. 3 : counter'[FailureCounter[i]] = counter[FailureCounter[i]]
      BY <3>1, FailureCountersAre
    <3> QED BY <2>0, <3>1, <3>2, <3>3, <3>4 DEF FailureIsOfARequest
  <2> QED BY <2>1, <2>2
<1>2. MetricsTypeOK'
  BY <1>0, <1>1 DEF MetricsInv, MetricsTypeOK
<1>3. \A c \in Checks : ReportGrows(c)'
  BY <1>0 DEF MetricsInv, ReportGrows
<1>4. FailuresAreOfChecks' /\ AnswersHaveReasons'
  <2>1. /\ DegradedReports' = DegradedReports /\ FailedReports' = FailedReports
        /\ \A i \in 1 .. 3 : MayFail(i)' = MayFail(i)
    BY <1>0 DEF MayFail, DegradedReports, FailedReports
  <2> QED BY <1>0, <1>1, <2>1 DEF MetricsInv, FailuresAreOfChecks, AnswersHaveReasons
<1>5. PartIsReadFirst' /\ ShownIsCounted'
  BY <1>0, <1>1, ReadStaysRead
<1> QED BY <1>1, <1>2, <1>3, <1>4, <1>5 DEF MetricsInv

(* A step of one goroutine concerns its own report only.                   *)
LEMMA OtherReports ==
  ASSUME NEW c \in Checks,
         \A d \in Checks \ {c} : report'[d] = report[d] /\ todo'[d] = todo[d]
  PROVE  /\ \A i \in 1 .. 3 : MayFail(i) \ {c} = MayFail(i)' \ {c}
         /\ DegradedReports \ {c} = DegradedReports' \ {c}
         /\ FailedReports \ {c} = FailedReports' \ {c}
         /\ \A d \in Checks \ {c} : ReportGrows(d) => ReportGrows(d)'
<1>1. \A i \in 1 .. 3 : MayFail(i) \ {c} = MayFail(i)' \ {c}
  BY DEF MayFail
<1>2. DegradedReports \ {c} = DegradedReports' \ {c}
  BY DEF DegradedReports
<1>3. FailedReports \ {c} = FailedReports' \ {c}
  BY DEF FailedReports
<1>4. \A d \in Checks \ {c} : ReportGrows(d) => ReportGrows(d)'
  BY DEF ReportGrows
<1> QED BY <1>1, <1>2, <1>3, <1>4

(* How many reports are counted, before such a step and after.             *)
LEMMA ReportsCounted ==
  ASSUME NEW c \in Checks,
         \A d \in Checks \ {c} : report'[d] = report[d] /\ todo'[d] = todo[d]
  PROVE  /\ \A i \in 1 .. 3 :
              /\ Cardinality(MayFail(i)) \in Nat /\ Cardinality(MayFail(i)') \in Nat
              /\ Cardinality(MayFail(i)') <= Cardinality(MayFail(i)) + 1
              /\ c \in MayFail(i) \/ c \notin MayFail(i)' =>
                   Cardinality(MayFail(i)') <= Cardinality(MayFail(i))
              /\ c \in MayFail(i) /\ c \notin MayFail(i)' =>
                   Cardinality(MayFail(i)') + 1 = Cardinality(MayFail(i))
         /\ Cardinality(DegradedReports) \in Nat /\ Cardinality(DegradedReports') \in Nat
         /\ Cardinality(DegradedReports') <= Cardinality(DegradedReports) + 1
         /\ c \in DegradedReports \/ c \notin DegradedReports' =>
              Cardinality(DegradedReports') <= Cardinality(DegradedReports)
         /\ c \in DegradedReports /\ c \notin DegradedReports' =>
              Cardinality(DegradedReports') + 1 = Cardinality(DegradedReports)
         /\ Cardinality(FailedReports) \in Nat /\ Cardinality(FailedReports') \in Nat
         /\ Cardinality(FailedReports') <= Cardinality(FailedReports) + 1
         /\ c \in FailedReports \/ c \notin FailedReports' =>
              Cardinality(FailedReports') <= Cardinality(FailedReports)
         /\ c \in FailedReports /\ c \notin FailedReports' =>
              Cardinality(FailedReports') + 1 = Cardinality(FailedReports)
<1>1. \A i \in 1 .. 3 : MayFail(i) \ {c} = MayFail(i)' \ {c}
  BY OtherReports
<1>2. DegradedReports \ {c} = DegradedReports' \ {c}
  BY OtherReports
<1>3. FailedReports \ {c} = FailedReports' \ {c}
  BY OtherReports
<1>4. /\ \A i \in 1 .. 3 : IsFiniteSet(MayFail(i))
      /\ IsFiniteSet(DegradedReports) /\ IsFiniteSet(FailedReports)
  BY ReportsAreFinite
<1>5. \A i \in 1 .. 3 :
           /\ Cardinality(MayFail(i)) \in Nat /\ Cardinality(MayFail(i)') \in Nat
           /\ Cardinality(MayFail(i)') <= Cardinality(MayFail(i)) + 1
           /\ c \in MayFail(i) \/ c \notin MayFail(i)' =>
                Cardinality(MayFail(i)') <= Cardinality(MayFail(i))
           /\ c \in MayFail(i) /\ c \notin MayFail(i)' =>
                Cardinality(MayFail(i)') + 1 = Cardinality(MayFail(i))
  BY <1>1, <1>4, OneElement
<1>6. /\ Cardinality(DegradedReports) \in Nat /\ Cardinality(DegradedReports') \in Nat
      /\ Cardinality(DegradedReports') <= Cardinality(DegradedReports) + 1
      /\ c \in DegradedReports \/ c \notin DegradedReports' =>
           Cardinality(DegradedReports') <= Cardinality(DegradedReports)
      /\ c \in DegradedReports /\ c \notin DegradedReports' =>
           Cardinality(DegradedReports') + 1 = Cardinality(DegradedReports)
  BY <1>2, <1>4, OneElement
<1>7. /\ Cardinality(FailedReports) \in Nat /\ Cardinality(FailedReports') \in Nat
      /\ Cardinality(FailedReports') <= Cardinality(FailedReports) + 1
      /\ c \in FailedReports \/ c \notin FailedReports' =>
           Cardinality(FailedReports') <= Cardinality(FailedReports)
      /\ c \in FailedReports /\ c \notin FailedReports' =>
           Cardinality(FailedReports') + 1 = Cardinality(FailedReports)
  BY <1>3, <1>4, OneElement
<1> QED BY <1>5, <1>6, <1>7

(* A check is counted and its report begun.                                *)
LEMMA StartCheckInv ==
  ASSUME MetricsInv, NEW c \in Checks, StartCheck(c)
  PROVE  MetricsInv'
<1>0. /\ UNCHANGED <<todo, dispatch, answers, reading, snapshot>>
      /\ report' = [report EXCEPT ![c] = <<"started">>]
      /\ report[c] = << >> /\ todo[c] = "none"
  BY DEF StartCheck
<1>1. /\ counter' \in [Counters -> Nat] /\ \A n \in Counters : counter[n] <= counter'[n]
      /\ Failed' = Failed /\ Asked' = Asked /\ Degraded' = Degraded /\ ChecksMade' = ChecksMade + 1
      /\ DbFailed' = DbFailed /\ MigrationFailed' = MigrationFailed
      /\ \A i \in 1 .. 3 : counter'[FailureCounter[i]] = counter[FailureCounter[i]]
  <2>1. /\ counter' \in [Counters -> Nat] /\ \A n \in Counters : counter[n] <= counter'[n]
        /\ counter'["readiness_checks_total"] = counter["readiness_checks_total"] + 1
        /\ \A n \in Counters \ {"readiness_checks_total"} : counter'[n] = counter[n]
    BY IncCounts, MetricsTypes, CountersAre DEF StartCheck
  <2> QED BY <2>1, CountersAre, FailureCountersAre
             DEF Failed, Asked, Degraded, ChecksMade, DbFailed, MigrationFailed
<1>2. report'[c] = <<"started">> /\ Len(report'[c]) = 1 /\ todo'[c] = "none"
  BY <1>0, MetricsTypes
<1>3. \A d \in Checks \ {c} : report'[d] = report[d] /\ todo'[d] = todo[d]
  BY <1>0, MetricsTypes
<1>4. MetricsTypeOK'
  <2>1. <<"started">> \in Seq({"started"} \cup Statuses)
    OBVIOUS
  <2>2. report' \in [Checks -> Seq({"started"} \cup Statuses)]
    BY <1>0, <2>1, MetricsTypes
  <2>3. ASSUME NEW d \in Checks PROVE Len(report'[d]) <= 4
    <3>1. CASE d = c
      <4>1. Len(report'[d]) = 1
        BY <1>2, <3>1
      <4> QED BY <4>1
    <3>2. CASE d # c
      BY <1>3, <3>2 DEF MetricsInv, MetricsTypeOK
    <3> QED BY <3>1, <3>2
  <2> QED BY <1>0, <1>1, <2>2, <2>3 DEF MetricsInv, MetricsTypeOK
<1>5. \A d \in Checks : ReportGrows(d)'
  <2>1. ReportGrows(c)'
    BY <1>2 DEF ReportGrows
  <2> QED BY <1>3, <2>1, OtherReports DEF MetricsInv
<1>6. FailureIsOfARequest'
  BY <1>0, <1>1 DEF MetricsInv, FailureIsOfARequest
<1>7. FailuresAreOfChecks'
  <2> SUFFICES ASSUME NEW i \in 1 .. 3
               PROVE  counter'[FailureCounter[i]] + Cardinality(MayFail(i)') <= ChecksMade'
    BY DEF FailuresAreOfChecks
  <2>1. Cardinality(MayFail(i)') <= Cardinality(MayFail(i)) + 1
    BY <1>3, ReportsCounted
  <2>2. /\ counter[FailureCounter[i]] \in Nat /\ ChecksMade \in Nat
        /\ Cardinality(MayFail(i)) \in Nat /\ Cardinality(MayFail(i)') \in Nat
    BY <1>3, MetricsTypes, ReportsCounted, FailureCountersAre
  <2>3. counter[FailureCounter[i]] + Cardinality(MayFail(i)) <= ChecksMade
    BY DEF MetricsInv, FailuresAreOfChecks
  <2> QED BY <1>1, <2>1, <2>2, <2>3
<1>8. AnswersHaveReasons'
  <2>1. c \notin DegradedReports' /\ c \notin FailedReports'
    BY <1>2 DEF DegradedReports, FailedReports
  <2>2. /\ Cardinality(DegradedReports') <= Cardinality(DegradedReports)
        /\ Cardinality(FailedReports') <= Cardinality(FailedReports)
    BY <1>3, <2>1, ReportsCounted
  <2>3. /\ Cardinality(DegradedReports) \in Nat /\ Cardinality(DegradedReports') \in Nat
        /\ Cardinality(FailedReports) \in Nat /\ Cardinality(FailedReports') \in Nat
        /\ answers["degraded"] \in Nat /\ answers["fail"] \in Nat
        /\ Degraded \in Nat /\ DbFailed \in Nat /\ MigrationFailed \in Nat
    BY <1>3, MetricsTypes, ReportsCounted DEF Statuses
  <2>4. Degraded' = Degraded /\ DbFailed' = DbFailed /\ MigrationFailed' = MigrationFailed
    BY <1>1
  <2> QED BY <1>0, <2>2, <2>3, <2>4 DEF MetricsInv, AnswersHaveReasons
<1>9. PartIsReadFirst' /\ ShownIsCounted'
  BY <1>0, <1>1, ReadStaysRead
<1> QED BY <1>4, <1>5, <1>6, <1>7, <1>8, <1>9 DEF MetricsInv

(* A check is made: it finds fault or not.                                 *)
LEMMA RunCheckInv ==
  ASSUME MetricsInv, NEW c \in Checks, RunCheck(c)
  PROVE  MetricsInv'
<1> DEFINE n == Len(report[c])
<1>0. /\ UNCHANGED <<counter, dispatch, answers, reading, snapshot>>
      /\ n \in 1 .. 3 /\ todo[c] = "none"
  BY DEF RunCheck
<1>1. PICK found \in {"ok", Failure[n]} :
        /\ report' = [report EXCEPT ![c] = Append(report[c], found)]
        /\ \/ found = "ok" /\ todo' = todo
           \/ todo' = [todo EXCEPT ![c] = FailureCounter[n]]
  BY DEF RunCheck
<1>2. /\ n + 1 \in 2 .. 4 /\ found \in Statuses
      /\ FailureCounter[n] \in Counters /\ FailureCounter[n] # "none"
      /\ n = 3 => found # "fail"
  <2>1. n = 1 \/ n = 2 \/ n = 3
    BY <1>0
  <2>2. FailureCounter[n] \in Counters /\ FailureCounter[n] # "none"
    <3> HIDE DEF n
    <3> QED BY <2>1, ChecksAre, CountersAre
  <2>3. found \in Statuses /\ (n = 3 => found # "fail")
    <3>1. found \in {"ok", Failure[n]}
      OBVIOUS
    <3> HIDE DEF n
    <3> QED BY <2>1, <3>1, ChecksAre DEF Statuses
  <2>4. n + 1 \in 2 .. 4
    <3> HIDE DEF n
    <3> QED BY <2>1
  <2> QED BY <2>2, <2>3, <2>4
<1>3. /\ report'[c] = Append(report[c], found)
      /\ Len(report'[c]) = n + 1 /\ report'[c][n + 1] = found
      /\ \A i \in 1 .. n : report'[c][i] = report[c][i]
      /\ report'[c] \in Seq({"started"} \cup Statuses)
  <2>1. report[c] \in Seq({"started"} \cup Statuses) /\ report'[c] = Append(report[c], found)
    BY <1>1, MetricsTypes
  <2> QED BY <1>2, <2>1
<1>4. (found = "ok" /\ todo'[c] = "none") \/ todo'[c] = FailureCounter[n]
  BY <1>0, <1>1, MetricsTypes
<1>5. \A d \in Checks \ {c} : report'[d] = report[d] /\ todo'[d] = todo[d]
  BY <1>1, MetricsTypes
<1> HIDE DEF n
<1>6. MetricsTypeOK'
  <2>1. report' \in [Checks -> Seq({"started"} \cup Statuses)]
    BY <1>1, <1>3, MetricsTypes
  <2>2. \A d \in Checks : Len(report'[d]) <= 4
    BY <1>2, <1>3, <1>5 DEF MetricsInv, MetricsTypeOK
  <2>3. todo' \in [Checks -> Counters \cup {"none"}]
    BY <1>1, <1>2, MetricsTypes
  <2> QED BY <1>0, <2>1, <2>2, <2>3 DEF MetricsInv, MetricsTypeOK
<1>7. \A d \in Checks : ReportGrows(d)'
  <2>1. /\ report[c][1] = "started"
        /\ \A i \in 2 .. n : report[c][i] \in {"ok", Failure[i - 1]}
    BY <1>0 DEF MetricsInv, ReportGrows, n
  <2>2. report'[c][1] = "started"
    BY <1>0, <1>3, <2>1
  <2>3. ASSUME NEW i \in 2 .. (n + 1) PROVE report'[c][i] \in {"ok", Failure[i - 1]}
    <3>1. CASE i \in 2 .. n
      BY <1>0, <1>3, <2>1, <3>1
    <3>2. CASE i = n + 1
      <4>1. i - 1 = n
        BY <1>0, <3>2
      <4> QED BY <1>1, <1>3, <3>2, <4>1
    <3> QED BY <1>0, <3>1, <3>2
  <2>4. todo'[c] # "none" => n + 1 \in 2 .. 4 /\ todo'[c] = FailureCounter[(n + 1) - 1]
    <3>1. (n + 1) - 1 = n
      BY <1>0
    <3> QED BY <1>2, <1>4, <3>1
  <2>5. ReportGrows(c)'
    BY <1>3, <2>2, <2>3, <2>4 DEF ReportGrows
  <2> QED BY <1>5, <2>5, OtherReports DEF MetricsInv
<1>8. FailureIsOfARequest'
  BY <1>0 DEF MetricsInv, FailureIsOfARequest, Failed, Asked
<1>9. FailuresAreOfChecks'
  <2> SUFFICES ASSUME NEW i \in 1 .. 3
               PROVE  counter'[FailureCounter[i]] + Cardinality(MayFail(i)') <= ChecksMade'
    BY DEF FailuresAreOfChecks
  <2>1. c \in MayFail(i) \/ c \notin MayFail(i)'
    <3> SUFFICES ASSUME c \in MayFail(i)' PROVE n \in 1 .. i
      BY DEF MayFail, n
    <3>1. n + 1 \in 1 .. i \/ todo'[c] = FailureCounter[i]
      BY <1>3 DEF MayFail
    <3>2. CASE n + 1 \in 1 .. i
      BY <1>0, <3>2
    <3>3. CASE todo'[c] = FailureCounter[i]
      <4>1. FailureCounter[n] = FailureCounter[i]
        BY <1>4, <3>3, FailureCountersAre
      <4> QED BY <1>0, <4>1, FailureCountersAre
    <3> QED BY <3>1, <3>2, <3>3
  <2>2. Cardinality(MayFail(i)') <= Cardinality(MayFail(i))
    BY <1>5, <2>1, ReportsCounted
  <2>3. /\ counter[FailureCounter[i]] \in Nat /\ ChecksMade \in Nat
        /\ Cardinality(MayFail(i)) \in Nat /\ Cardinality(MayFail(i)') \in Nat
    BY <1>5, MetricsTypes, ReportsCounted, FailureCountersAre
  <2>4. counter' = counter /\ ChecksMade' = ChecksMade
    BY <1>0 DEF ChecksMade
  <2>5. counter[FailureCounter[i]] + Cardinality(MayFail(i)) <= ChecksMade
    BY DEF MetricsInv, FailuresAreOfChecks
  <2> QED BY <2>2, <2>3, <2>4, <2>5
<1>10. AnswersHaveReasons'
  <2>1. c \notin DegradedReports'
    <3> SUFFICES ASSUME c \in DegradedReports' PROVE FALSE
      OBVIOUS
    <3>1. n + 1 = 4 /\ report'[c][4] = "degraded" /\ todo'[c] = "none"
      BY <1>3 DEF DegradedReports
    <3> QED BY <1>2, <1>3, <1>4, <3>1
  <2>2. c \in FailedReports' => c \in FailedReports
    <3> SUFFICES ASSUME c \in FailedReports' PROVE c \in FailedReports
      OBVIOUS
    <3>1. PICK i \in 2 .. (n + 1) :
            report'[c][i] = "fail" /\ (i < n + 1 \/ todo'[c] = "none")
      BY <1>3 DEF FailedReports
    <3>2. CASE i = n + 1
      BY <1>2, <1>3, <1>4, <3>1, <3>2
    <3>3. CASE i \in 2 .. n
      <4>1. i \in 1 .. n /\ report[c][i] = "fail"
        BY <1>0, <1>3, <3>1, <3>3
      <4> QED BY <1>0, <3>3, <4>1 DEF FailedReports, n
    <3> QED BY <1>0, <3>2, <3>3
  <2>3. /\ Cardinality(DegradedReports') <= Cardinality(DegradedReports)
        /\ Cardinality(FailedReports') <= Cardinality(FailedReports)
    BY <1>5, <2>1, <2>2, ReportsCounted
  <2>4. /\ Cardinality(DegradedReports) \in Nat /\ Cardinality(DegradedReports') \in Nat
        /\ Cardinality(FailedReports) \in Nat /\ Cardinality(FailedReports') \in Nat
        /\ answers["degraded"] \in Nat /\ answers["fail"] \in Nat
        /\ Degraded \in Nat /\ DbFailed \in Nat /\ MigrationFailed \in Nat
    BY <1>5, MetricsTypes, ReportsCounted DEF Statuses
  <2>5. Degraded' = Degraded /\ DbFailed' = DbFailed /\ MigrationFailed' = MigrationFailed
    BY <1>0 DEF Degraded, DbFailed, MigrationFailed
  <2> QED BY <1>0, <2>3, <2>4, <2>5 DEF MetricsInv, AnswersHaveReasons
<1>11. PartIsReadFirst' /\ ShownIsCounted'
  BY <1>0 DEF MetricsInv, PartIsReadFirst, ShownIsCounted, Failed, Degraded
<1> QED BY <1>6, <1>7, <1>8, <1>9, <1>10, <1>11 DEF MetricsInv

(* What a check found is counted.                                          *)
LEMMA CountCheckInv ==
  ASSUME MetricsInv, NEW c \in Checks, CountCheck(c)
  PROVE  MetricsInv'
<1> DEFINE n == Len(report[c])
<1>0. /\ UNCHANGED <<dispatch, report, answers, reading, snapshot>>
      /\ todo[c] # "none" /\ Inc(todo[c]) /\ todo' = [todo EXCEPT ![c] = "none"]
  BY DEF CountCheck
<1>1. \/ n = 2 /\ todo[c] = "readiness_db_failures_total"
      \/ n = 3 /\ todo[c] = "readiness_migration_failures_total"
      \/ n = 4 /\ todo[c] = "readiness_agent_degraded_total"
  <2>1. n \in 2 .. 4 /\ todo[c] = FailureCounter[n - 1]
    BY <1>0 DEF MetricsInv, ReportGrows
  <2>2. n = 2 \/ n = 3 \/ n = 4
    BY <2>1
  <2> HIDE DEF n
  <2> QED BY <2>1, <2>2, ChecksAre
<1>2. /\ counter' \in [Counters -> Nat] /\ \A m \in Counters : counter[m] <= counter'[m]
      /\ counter'[todo[c]] = counter[todo[c]] + 1
      /\ \A m \in Counters \ {todo[c]} : counter'[m] = counter[m]
  <2>1. todo[c] \in Counters
    BY <1>1, CountersAre
  <2> QED BY <1>0, <2>1, IncCounts, MetricsTypes
<1>3. /\ Failed' = Failed /\ Asked' = Asked /\ ChecksMade' = ChecksMade
      /\ todo[c] = "readiness_db_failures_total" =>
           DbFailed' = DbFailed + 1 /\ MigrationFailed' = MigrationFailed /\ Degraded' = Degraded
      /\ todo[c] = "readiness_migration_failures_total" =>
           DbFailed' = DbFailed /\ MigrationFailed' = MigrationFailed + 1 /\ Degraded' = Degraded
      /\ todo[c] = "readiness_agent_degraded_total" =>
           DbFailed' = DbFailed /\ MigrationFailed' = MigrationFailed /\ Degraded' = Degraded + 1
  BY <1>1, <1>2, CountersAre
     DEF Failed, Asked, Degraded, ChecksMade, DbFailed, MigrationFailed
<1>4. /\ todo'[c] = "none" /\ report' = report
      /\ \A d \in Checks \ {c} : report'[d] = report[d] /\ todo'[d] = todo[d]
      /\ todo' \in [Checks -> Counters \cup {"none"}]
  BY <1>0, MetricsTypes
<1>5. MetricsTypeOK'
  BY <1>0, <1>2, <1>4 DEF MetricsInv, MetricsTypeOK
<1>6. \A d \in Checks : ReportGrows(d)'
  <2>1. ReportGrows(c)'
    BY <1>4 DEF MetricsInv, ReportGrows
  <2> QED BY <1>4, <2>1, OtherReports DEF MetricsInv
<1>7. FailureIsOfARequest'
  BY <1>0, <1>3 DEF MetricsInv, FailureIsOfARequest
<1>8. /\ Cardinality(DegradedReports) \in Nat /\ Cardinality(DegradedReports') \in Nat
      /\ Cardinality(FailedReports) \in Nat /\ Cardinality(FailedReports') \in Nat
      /\ answers["degraded"] \in Nat /\ answers["fail"] \in Nat
      /\ Degraded \in Nat /\ DbFailed \in Nat /\ MigrationFailed \in Nat /\ ChecksMade \in Nat
  BY <1>4, MetricsTypes, ReportsCounted DEF Statuses
<1>9. FailuresAreOfChecks'
  <2> SUFFICES ASSUME NEW i \in 1 .. 3
               PROVE  counter'[FailureCounter[i]] + Cardinality(MayFail(i)') <= ChecksMade'
    BY DEF FailuresAreOfChecks
  <2>1. n \in 2 .. 4 /\ todo[c] = FailureCounter[n - 1]
    BY <1>0 DEF MetricsInv, ReportGrows
  <2>2. /\ counter[FailureCounter[i]] \in Nat /\ ChecksMade \in Nat
        /\ Cardinality(MayFail(i)) \in Nat /\ Cardinality(MayFail(i)') \in Nat
        /\ ChecksMade' = ChecksMade
        /\ counter[FailureCounter[i]] + Cardinality(MayFail(i)) <= ChecksMade
    BY <1>3, <1>4, MetricsTypes, ReportsCounted, FailureCountersAre
       DEF MetricsInv, FailuresAreOfChecks
  <2>3. c \in MayFail(i)' => n \in 1 .. i
    BY <1>4, FailureCountersAre DEF MayFail
  <2>4. n \in 1 .. i => c \in MayFail(i)
    BY DEF MayFail
  <2> HIDE DEF n
  <2>5. CASE i = n - 1
    <3>1. c \in MayFail(i) /\ c \notin MayFail(i)'
      BY <2>1, <2>3, <2>5 DEF MayFail
    <3>2. Cardinality(MayFail(i)') + 1 = Cardinality(MayFail(i))
      BY <1>4, <3>1, ReportsCounted
    <3>3. counter'[FailureCounter[i]] = counter[FailureCounter[i]] + 1
      BY <1>2, <2>1, <2>5
    <3> QED BY <2>2, <3>2, <3>3
  <2>6. CASE i # n - 1
    <3>1. Cardinality(MayFail(i)') <= Cardinality(MayFail(i))
      BY <1>4, <2>3, <2>4, ReportsCounted
    <3>2. counter'[FailureCounter[i]] = counter[FailureCounter[i]]
      <4>1. n - 1 \in 1 .. 3
        BY <2>1
      <4> QED BY <1>2, <2>1, <2>6, <4>1, FailureCountersAre
    <3> QED BY <2>2, <3>1, <3>2
  <2> QED BY <2>5, <2>6
<1>10. AnswersHaveReasons'
  <2>1. CASE todo[c] = "readiness_agent_degraded_total"
    <3>1. c \in FailedReports' => c \in FailedReports
      <4> SUFFICES ASSUME c \in FailedReports' PROVE c \in FailedReports
        OBVIOUS
      <4>1. PICK i \in 2 .. n : report[c][i] = "fail"
        BY <1>4 DEF FailedReports
      <4>2. n = 4 /\ report[c][4] \in {"ok", Failure[3]}
        BY <1>1, <2>1 DEF MetricsInv, ReportGrows
      <4>3. i < n
        BY <4>1, <4>2 DEF Failure
      <4> QED BY <4>1, <4>3 DEF FailedReports
    <3>2. /\ Cardinality(FailedReports') <= Cardinality(FailedReports)
          /\ Cardinality(DegradedReports') <= Cardinality(DegradedReports) + 1
      BY <1>4, <3>1, ReportsCounted
    <3>3. Degraded' = Degraded + 1 /\ DbFailed' = DbFailed /\ MigrationFailed' = MigrationFailed
      BY <1>3, <2>1
    <3> QED BY <1>0, <1>8, <3>2, <3>3 DEF MetricsInv, AnswersHaveReasons
  <2>2. CASE todo[c] # "readiness_agent_degraded_total"
    <3>1. c \notin DegradedReports'
      BY <1>1, <1>4, <2>2 DEF DegradedReports
    <3>2. /\ Cardinality(FailedReports') <= Cardinality(FailedReports) + 1
          /\ Cardinality(DegradedReports') <= Cardinality(DegradedReports)
      BY <1>4, <3>1, ReportsCounted
    <3>3. /\ Degraded' = Degraded
          /\ \/ DbFailed' = DbFailed + 1 /\ MigrationFailed' = MigrationFailed
             \/ DbFailed' = DbFailed /\ MigrationFailed' = MigrationFailed + 1
      BY <1>1, <1>3, <2>2
    <3> QED BY <1>0, <1>8, <3>2, <3>3 DEF MetricsInv, AnswersHaveReasons
  <2> QED BY <2>1, <2>2
<1>11. PartIsReadFirst' /\ ShownIsCounted'
  BY <1>0, <1>2, ReadStaysRead
<1> QED BY <1>5, <1>6, <1>7, <1>9, <1>10, <1>11 DEF MetricsInv

(* The report is answered, and its goroutine begins anew.                  *)
LEMMA AnswerCheckInv ==
  ASSUME MetricsInv, NEW c \in Checks, AnswerCheck(c)
  PROVE  MetricsInv'
<1> DEFINE results == {report[c][i] : i \in 1 .. 4}
           status  == Status(results)
<1>0. /\ UNCHANGED <<counter, todo, dispatch, reading, snapshot>>
      /\ Len(report[c]) = 4 /\ todo[c] = "none"
      /\ answers' = [answers EXCEPT ![status] = answers[status] + 1]
      /\ report' = [report EXCEPT ![c] = << >>]
  BY DEF AnswerCheck
<1>1. /\ Failed' = Failed /\ Asked' = Asked /\ Degraded' = Degraded /\ ChecksMade' = ChecksMade
      /\ DbFailed' = DbFailed /\ MigrationFailed' = MigrationFailed
  BY <1>0 DEF Failed, Asked, Degraded, ChecksMade, DbFailed, MigrationFailed
<1>2. /\ report'[c] = << >> /\ Len(report'[c]) = 0 /\ todo'[c] = "none"
      /\ \A d \in Checks \ {c} : report'[d] = report[d] /\ todo'[d] = todo[d]
  BY <1>0, MetricsTypes
<1>3. /\ status \in Statuses
      /\ status = "degraded" => c \in DegradedReports
      /\ status = "fail" => c \in FailedReports
  <2>1. /\ report[c][1] = "started" /\ report[c][2] \in {"ok", "fail"}
        /\ report[c][3] \in {"ok", "fail"} /\ report[c][4] \in {"ok", "degraded"}
    <3>1. /\ report[c][1] = "started"
          /\ \A i \in 2 .. 4 : report[c][i] \in {"ok", Failure[i - 1]}
      BY <1>0 DEF MetricsInv, ReportGrows
    <3> QED BY <3>1 DEF Failure
  <2>2. results = {report[c][1], report[c][2], report[c][3], report[c][4]}
    OBVIOUS
  <2>3. status \in Statuses
    BY DEF Status, Statuses
  <2>4. ASSUME status = "degraded" PROVE c \in DegradedReports
    <3>1. "degraded" \in results
      BY <2>4 DEF Status
    <3> QED BY <1>0, <2>1, <2>2, <3>1 DEF DegradedReports
  <2>5. ASSUME status = "fail" PROVE c \in FailedReports
    <3>1. "fail" \in results
      BY <2>5 DEF Status
    <3>2. report[c][2] = "fail" \/ report[c][3] = "fail"
      BY <2>1, <2>2, <3>1
    <3> QED BY <1>0, <3>2 DEF FailedReports
  <2> QED BY <2>3, <2>4, <2>5
<1> HIDE DEF status, results
<1>4. /\ answers' \in [Statuses -> Nat]
      /\ answers'[status] = answers[status] + 1
      /\ \A s \in Statuses \ {status} : answers'[s] = answers[s]
  <2>1. answers \in [Statuses -> Nat]
    BY MetricsTypes
  <2> QED BY <1>0, <1>3, <2>1
<1>5. MetricsTypeOK'
  <2>1. report' \in [Checks -> Seq({"started"} \cup Statuses)]
    BY <1>0, MetricsTypes
  <2>2. ASSUME NEW d \in Checks PROVE Len(report'[d]) <= 4
    <3>1. Len(report[d]) <= 4
      BY DEF MetricsInv, MetricsTypeOK
    <3> QED BY <1>2, <3>1
  <2> QED BY <1>0, <1>4, <2>1, <2>2 DEF MetricsInv, MetricsTypeOK
<1>6. \A d \in Checks : ReportGrows(d)'
  <2>1. ReportGrows(c)'
    BY <1>2 DEF ReportGrows
  <2> QED BY <1>2, <2>1, OtherReports DEF MetricsInv
<1>7. FailureIsOfARequest'
  BY <1>0, <1>1 DEF MetricsInv, FailureIsOfARequest
<1>8. /\ \A i \in 1 .. 3 : c \notin MayFail(i)'
      /\ c \notin DegradedReports' /\ c \notin FailedReports'
  <2>1. Len(report'[c]) = 0 /\ todo'[c] = "none"
    BY <1>2
  <2>2. \A i \in 1 .. 3 : c \notin MayFail(i)'
    BY <2>1, FailureCountersAre DEF MayFail
  <2>3. c \notin DegradedReports'
    BY <2>1 DEF DegradedReports
  <2>4. c \notin FailedReports'
    BY <2>1 DEF FailedReports
  <2> QED BY <2>2, <2>3, <2>4
<1>9. /\ Cardinality(DegradedReports) \in Nat /\ Cardinality(DegradedReports') \in Nat
      /\ Cardinality(FailedReports) \in Nat /\ Cardinality(FailedReports') \in Nat
      /\ \A i \in 1 .. 3 : /\ Cardinality(MayFail(i)) \in Nat
                           /\ Cardinality(MayFail(i)') \in Nat
                           /\ Cardinality(MayFail(i)') <= Cardinality(MayFail(i))
      /\ Cardinality(DegradedReports') <= Cardinality(DegradedReports)
      /\ Cardinality(FailedReports') <= Cardinality(FailedReports)
  BY <1>2, <1>8, ReportsCounted
<1>10. /\ answers["degraded"] \in Nat /\ answers["fail"] \in Nat
       /\ Degraded \in Nat /\ DbFailed \in Nat /\ MigrationFailed \in Nat /\ ChecksMade \in Nat
  BY MetricsTypes DEF Statuses
<1>11. FailuresAreOfChecks'
  <2> SUFFICES ASSUME NEW i \in 1 .. 3
               PROVE  counter'[FailureCounter[i]] + Cardinality(MayFail(i)') <= ChecksMade'
    BY DEF FailuresAreOfChecks
  <2>1. /\ counter[FailureCounter[i]] + Cardinality(MayFail(i)) <= ChecksMade
        /\ counter[FailureCounter[i]] \in Nat
    BY MetricsTypes, FailureCountersAre DEF MetricsInv, FailuresAreOfChecks
  <2>2. /\ Cardinality(MayFail(i)) \in Nat /\ Cardinality(MayFail(i)') \in Nat
        /\ Cardinality(MayFail(i)') <= Cardinality(MayFail(i))
    BY <1>9
  <2>3. counter' = counter /\ ChecksMade' = ChecksMade
    BY <1>0, <1>1
  <2> QED BY <1>10, <2>1, <2>2, <2>3
<1>12. AnswersHaveReasons'
  <2>0. /\ answers["degraded"] + Cardinality(DegradedReports) <= Degraded
        /\ answers["fail"] + Cardinality(FailedReports) <= DbFailed + MigrationFailed
    BY DEF MetricsInv, AnswersHaveReasons
  <2>1. answers'["degraded"] + Cardinality(DegradedReports') <= Degraded
    <3>1. CASE status = "degraded"
      <4>1. Cardinality(DegradedReports') + 1 = Cardinality(DegradedReports)
        BY <1>2, <1>3, <1>8, <3>1, ReportsCounted
      <4>2. answers'["degraded"] = answers["degraded"] + 1
        BY <1>4, <3>1
      <4> QED BY <1>9, <1>10, <2>0, <4>1, <4>2
    <3>2. CASE status # "degraded"
      <4>1. answers'["degraded"] = answers["degraded"]
        BY <1>4, <3>2 DEF Statuses
      <4> QED BY <1>9, <1>10, <2>0, <4>1
    <3> QED BY <3>1, <3>2
  <2>2. answers'["fail"] + Cardinality(FailedReports') <= DbFailed + MigrationFailed
    <3>1. CASE status = "fail"
      <4>1. Cardinality(FailedReports') + 1 = Cardinality(FailedReports)
        BY <1>2, <1>3, <1>8, <3>1, ReportsCounted
      <4>2. answers'["fail"] = answers["fail"] + 1
        BY <1>4, <3>1
      <4> QED BY <1>9, <1>10, <2>0, <4>1, <4>2
    <3>2. CASE status # "fail"
      <4>1. answers'["fail"] = answers["fail"]
        BY <1>4, <3>2 DEF Statuses
      <4> QED BY <1>9, <1>10, <2>0, <4>1
    <3> QED BY <3>1, <3>2
  <2> QED BY <1>1, <2>1, <2>2 DEF AnswersHaveReasons
<1>13. PartIsReadFirst' /\ ShownIsCounted'
  BY <1>0, <1>1 DEF MetricsInv, PartIsReadFirst, ShownIsCounted
<1> QED BY <1>5, <1>6, <1>7, <1>11, <1>12, <1>13 DEF MetricsInv

(* The snapshot reads one counter more, or is answered.                    *)
LEMMA SnapshotInv ==
  ASSUME MetricsInv, ReadCounter \/ AnswerSnapshot
  PROVE  MetricsInv'
<1>0. UNCHANGED <<counter, todo, dispatch, report, answers>>
  BY DEF ReadCounter, AnswerSnapshot
<1>1. /\ DegradedReports' = DegradedReports /\ FailedReports' = FailedReports
      /\ \A i \in 1 .. 3 : MayFail(i)' = MayFail(i)
  BY <1>0 DEF MayFail, DegradedReports, FailedReports
<1>2. /\ Failed' = Failed /\ Asked' = Asked /\ Degraded' = Degraded /\ ChecksMade' = ChecksMade
      /\ DbFailed' = DbFailed /\ MigrationFailed' = MigrationFailed
  BY <1>0 DEF Failed, Asked, Degraded, ChecksMade, DbFailed, MigrationFailed
<1>3. /\ \A c \in Checks : ReportGrows(c)'
      /\ FailureIsOfARequest' /\ FailuresAreOfChecks' /\ AnswersHaveReasons'
  <2>1. \A c \in Checks : ReportGrows(c)'
    BY <1>0 DEF MetricsInv, ReportGrows
  <2> QED BY <1>0, <1>1, <1>2, <2>1
             DEF MetricsInv, FailureIsOfARequest, FailuresAreOfChecks, AnswersHaveReasons
<1>4. CASE ReadCounter
  <2>0. reading \in 0 .. 5
    BY <1>4, MetricsTypes DEF ReadCounter, CounterNames
  <2>1. /\ reading' = reading + 1
        /\ snapshot' = [snapshot EXCEPT ![CounterNames[reading + 1]] =
                                          counter[CounterNames[reading + 1]]]
    BY <1>4 DEF ReadCounter
  <2>2. /\ Failed <= Asked /\ Degraded <= ChecksMade
        /\ Failed \in Nat /\ Asked \in Nat /\ Degraded \in Nat /\ ChecksMade \in Nat
    <3>1. Cardinality(MayFail(3)) \in Nat
      BY ReportsAreFinite
    <3>2. Degraded + Cardinality(MayFail(3)) <= ChecksMade
      BY ChecksAre DEF MetricsInv, FailuresAreOfChecks, Degraded
    <3> QED BY <3>1, <3>2, MetricsTypes DEF MetricsInv, FailureIsOfARequest
  <2>3. CounterNames[reading + 1] \in Counters
    <3>1. reading = 0 \/ reading = 1 \/ reading = 2 \/ reading = 3 \/ reading = 4 \/ reading = 5
      BY <2>0
    <3> QED BY <3>1, CountersAre DEF CounterNames
  <2>4. MetricsTypeOK'
    <3>1. snapshot' \in [Counters -> Nat]
      BY <2>1, <2>3, MetricsTypes
    <3>2. reading' \in 0 .. Len(CounterNames)
      BY <2>0, <2>1 DEF CounterNames
    <3> QED BY <1>0, <3>1, <3>2 DEF MetricsInv, MetricsTypeOK
  <2>5. PartIsReadFirst'
    <3>0. snapshot \in [Counters -> Nat] /\ PartIsReadFirst
      BY MetricsTypes DEF MetricsInv
    <3>1. CASE reading = 0
      <4>1. reading' = 1 /\ snapshot'["agent_rpc_failures_total"] = Failed
        BY <2>1, <3>0, <3>1, CountersAre DEF CounterNames, Failed
      <4> QED BY <1>2, <2>2, <4>1 DEF PartIsReadFirst
    <3>2. CASE reading = 1
      <4>1. /\ reading' = 2 /\ snapshot'["agent_rpc_requests_total"] = Asked
            /\ snapshot'["agent_rpc_failures_total"] = snapshot["agent_rpc_failures_total"]
        BY <2>1, <3>0, <3>2, CountersAre DEF CounterNames, Asked
      <4>2. /\ snapshot["agent_rpc_failures_total"] <= Failed
            /\ snapshot["agent_rpc_failures_total"] \in Nat
        BY <3>0, <3>2, CountersAre DEF PartIsReadFirst
      <4> QED BY <1>2, <2>2, <4>1, <4>2 DEF PartIsReadFirst
    <3>3. CASE reading = 2
      <4>1. /\ reading' = 3 /\ snapshot'["readiness_agent_degraded_total"] = Degraded
            /\ \A m \in Counters \ {"readiness_agent_degraded_total"} :
                 snapshot'[m] = snapshot[m]
        BY <2>1, <3>0, <3>3, CountersAre DEF CounterNames, Degraded
      <4>2. /\ snapshot'["agent_rpc_failures_total"] = snapshot["agent_rpc_failures_total"]
            /\ snapshot'["agent_rpc_requests_total"] = snapshot["agent_rpc_requests_total"]
        BY <4>1, CountersAre
      <4> QED BY <1>2, <2>2, <3>0, <3>3, <4>1, <4>2 DEF PartIsReadFirst
    <3>4. CASE reading = 3
      <4>1. /\ reading' = 4 /\ snapshot'["readiness_checks_total"] = ChecksMade
            /\ \A m \in Counters \ {"readiness_checks_total"} : snapshot'[m] = snapshot[m]
        BY <2>1, <3>0, <3>4, CountersAre DEF CounterNames, ChecksMade
      <4>2. /\ snapshot'["agent_rpc_failures_total"] = snapshot["agent_rpc_failures_total"]
            /\ snapshot'["agent_rpc_requests_total"] = snapshot["agent_rpc_requests_total"]
            /\ snapshot'["readiness_agent_degraded_total"]
                 = snapshot["readiness_agent_degraded_total"]
        BY <4>1, CountersAre
      <4>3. snapshot["readiness_agent_degraded_total"] \in Nat
        BY <3>0, CountersAre
      <4> QED BY <1>2, <2>2, <3>0, <3>4, <4>1, <4>2, <4>3 DEF PartIsReadFirst
    <3>5. CASE reading \in 4 .. 5
      <4>1. /\ reading' \in 5 .. 6
            /\ CounterNames[reading + 1] \in
                 {"readiness_db_failures_total", "readiness_migration_failures_total"}
        <5>1. reading = 4 \/ reading = 5
          BY <3>5
        <5> QED BY <2>1, <5>1 DEF CounterNames
      <4>2. /\ snapshot'["agent_rpc_failures_total"] = snapshot["agent_rpc_failures_total"]
            /\ snapshot'["agent_rpc_requests_total"] = snapshot["agent_rpc_requests_total"]
            /\ snapshot'["readiness_agent_degraded_total"]
                 = snapshot["readiness_agent_degraded_total"]
            /\ snapshot'["readiness_checks_total"] = snapshot["readiness_checks_total"]
        BY <2>1, <3>0, <4>1, CountersAre
      <4> QED BY <1>2, <3>0, <3>5, <4>1, <4>2 DEF PartIsReadFirst
    <3> QED BY <2>0, <3>1, <3>2, <3>3, <3>4, <3>5
  <2>6. ShownIsCounted'
    <3>1. \A m \in Counters : snapshot[m] <= counter[m] /\ counter[m] \in Nat
      BY MetricsTypes DEF MetricsInv, ShownIsCounted
    <3>2. \A m \in Counters : snapshot'[m] \in {snapshot[m], counter[m]}
      BY <2>1, MetricsTypes
    <3> QED BY <1>0, <3>1, <3>2 DEF ShownIsCounted
  <2> QED BY <1>3, <2>4, <2>5, <2>6 DEF MetricsInv
<1>5. CASE AnswerSnapshot
  <2>1. snapshot' = [m \in Counters |-> 0] /\ reading' = 0
    BY <1>5 DEF AnswerSnapshot, Zero
  <2>2. MetricsTypeOK'
    <3>1. snapshot' \in [Counters -> Nat] /\ reading' \in 0 .. Len(CounterNames)
      BY <2>1 DEF CounterNames
    <3> QED BY <1>0, <3>1 DEF MetricsInv, MetricsTypeOK
  <2>3. PartIsReadFirst' /\ ShownIsCounted'
    <3>1. \A m \in Counters : snapshot'[m] = 0 /\ counter'[m] \in Nat
      BY <1>0, <2>1, MetricsTypes
    <3>2. ShownIsCounted'
      BY <3>1 DEF ShownIsCounted
    <3> QED BY <2>1, <3>2 DEF PartIsReadFirst
  <2> QED BY <1>3, <2>2, <2>3 DEF MetricsInv
<1> QED BY <1>4, <1>5

(* Every step keeps the invariant.                                         *)
LEMMA MetricsNextInv == MetricsInv /\ [MetricsNext]_metricsVars => MetricsInv'
<1> SUFFICES ASSUME MetricsInv, [MetricsNext]_metricsVars PROVE MetricsInv'
  OBVIOUS
<1>1. CASE MetricsNext
  BY <1>1, CountDispatchInv, StartCheckInv, RunCheckInv, CountCheckInv, AnswerCheckInv,
     SnapshotInv DEF MetricsNext
<1>2. CASE UNCHANGED metricsVars
  <2>0. UNCHANGED <<counter, todo, dispatch, report, answers, reading, snapshot>>
    BY <1>2 DEF metricsVars
  <2>1. /\ DegradedReports' = DegradedReports /\ FailedReports' = FailedReports
        /\ \A i \in 1 .. 3 : MayFail(i)' = MayFail(i)
    BY <2>0 DEF MayFail, DegradedReports, FailedReports
  <2>2. /\ Failed' = Failed /\ Asked' = Asked /\ Degraded' = Degraded /\ ChecksMade' = ChecksMade
        /\ DbFailed' = DbFailed /\ MigrationFailed' = MigrationFailed
    BY <2>0 DEF Failed, Asked, Degraded, ChecksMade, DbFailed, MigrationFailed
  <2>3. \A c \in Checks : ReportGrows(c)'
    BY <2>0 DEF MetricsInv, ReportGrows
  <2>4. MetricsTypeOK' /\ FailureIsOfARequest' /\ PartIsReadFirst' /\ ShownIsCounted'
    BY <2>0, <2>2
       DEF MetricsInv, MetricsTypeOK, FailureIsOfARequest, PartIsReadFirst, ShownIsCounted
  <2>5. FailuresAreOfChecks' /\ AnswersHaveReasons'
    BY <2>0, <2>1, <2>2 DEF MetricsInv, FailuresAreOfChecks, AnswersHaveReasons
  <2> QED BY <2>3, <2>4, <2>5 DEF MetricsInv
<1> QED BY <1>1, <1>2

(* The invariant of the counters.                                          *)
THEOREM MetricsInvariance == MetricsSpec => []MetricsInv
<1>1. MetricsInit => MetricsInv
  BY MetricsInitInv
<1>2. MetricsInv /\ [MetricsNext]_metricsVars => MetricsInv'
  BY MetricsNextInv
<1> QED BY <1>1, <1>2, PTL DEF MetricsSpec

(* The counters, the reports and the snapshot have their types.            *)
THEOREM MetricsTypeCorrect == MetricsSpec => []MetricsTypeOK
<1>1. MetricsInv => MetricsTypeOK
  BY DEF MetricsInv
<1> QED BY <1>1, MetricsInvariance, PTL

(* However many count at once: a snapshot shows no more of a part that is  *)
(* read first than of its whole, and no failed check that was not made by  *)
(* now; and whoever was told that koji is not ready finds that counted.    *)
THEOREM CountsDoFollow == MetricsSpec => []CountsFollowEvents
<1>1. MetricsInv => CountsFollowEvents
  <2> SUFFICES ASSUME MetricsInv PROVE CountsFollowEvents
    OBVIOUS
  <2>1. PartReadFirst
    BY DEF MetricsInv, PartIsReadFirst, PartReadFirst, CounterNames
  <2>2. FailuresWereChecked
    <3>1. ASSUME NEW i \in 1 .. 2 PROVE snapshot[FailureCounter[i]] <= ChecksMade
      <4>1. /\ i \in 1 .. 3 /\ FailureCounter[i] \in Counters
            /\ Cardinality(MayFail(i)) \in Nat
        BY ReportsAreFinite, FailureCountersAre
      <4>2. /\ snapshot[FailureCounter[i]] \in Nat /\ counter[FailureCounter[i]] \in Nat
            /\ ChecksMade \in Nat
        BY <4>1, MetricsTypes
      <4>3. /\ snapshot[FailureCounter[i]] <= counter[FailureCounter[i]]
            /\ counter[FailureCounter[i]] + Cardinality(MayFail(i)) <= ChecksMade
        BY <4>1 DEF MetricsInv, ShownIsCounted, FailuresAreOfChecks
      <4> QED BY <4>1, <4>2, <4>3
    <3>2. /\ snapshot["readiness_db_failures_total"] <= ChecksMade
          /\ snapshot["readiness_migration_failures_total"] <= ChecksMade
      BY <3>1, ChecksAre
    <3> QED BY <3>2 DEF FailuresWereChecked, ChecksMade
  <2>3. AnswersAreCounted
    <3>1. /\ answers["degraded"] \in Nat /\ answers["fail"] \in Nat
          /\ Degraded \in Nat /\ DbFailed \in Nat /\ MigrationFailed \in Nat
          /\ Cardinality(DegradedReports) \in Nat /\ Cardinality(FailedReports) \in Nat
      BY MetricsTypes, ReportsAreFinite DEF Statuses
    <3>2. answers["degraded"] <= Degraded /\ answers["fail"] <= DbFailed + MigrationFailed
      BY <3>1 DEF MetricsInv, AnswersHaveReasons
    <3> QED BY <3>2 DEF AnswersAreCounted, Degraded, DbFailed, MigrationFailed
  <2> QED BY <2>1, <2>2, <2>3 DEF CountsFollowEvents
<1> QED BY <1>1, MetricsInvariance, PTL

---------------------------------------------------------------------------
(* The jobs page: rows that are no newer than others.                      *)
AtMost(earlier, later) == \A j \in Jobs : earlier[j] <= later[j]

(* Nothing runs ahead of the server.                                       *)
BehindServer ==
  /\ AtMost(shown, truth)
  /\ \A q \in ListRequests : AtMost(answer[q], truth)
  /\ decided <= truth[Job]

(* What was not overtaken is as new as what is shown.                      *)
FreshUnlessOvertaken ==
  /\ \A q \in ListRequests :
       state[q] = "answered" /\ q \notin overlapped => AtMost(shown, answer[q])
  /\ decision = "decided" /\ "decision" \notin overlapped => shown[Job] <= decided

(* The list is fetched again only between decisions, and polls are of a    *)
(* page that is open.                                                      *)
RequestsHaveReasons ==
  /\ decision # "none" => state["refetch"] = "none"
  /\ ~open => \A q \in Polls : state[q] = "none"

PageInv == PageTypeOK /\ BehindServer /\ FreshUnlessOvertaken /\ RequestsHaveReasons

---------------------------------------------------------------------------
(* Rows are numbers.                                                       *)
LEMMA RowTypes ==
  ASSUME PageTypeOK, NEW j \in Jobs
  PROVE  /\ truth[j] \in Nat /\ shown[j] \in Nat /\ truth[j] <= MaxChanges
         /\ \A q \in ListRequests : answer[q][j] \in Nat
         /\ decided \in Nat
BY PageAssumption DEF PageTypeOK, Rows

(* The invariant holds at first.                                           *)
LEMMA PageInitInv ==
  ASSUME PageInit
  PROVE  PageInv
<1>1. Old \in Rows
  BY PageAssumption DEF Old, Rows
<1>2. PageTypeOK
  <2>1. answer \in [ListRequests -> Rows] /\ {truth, shown, clicked} \subseteq Rows
    BY <1>1 DEF PageInit
  <2>2. decided \in 0 .. MaxChanges /\ pageFaults \in 0 .. MaxPageFaults
    BY PageAssumption DEF PageInit
  <2> QED BY <2>1, <2>2 DEF PageInit, PageTypeOK
<1>3. BehindServer
  BY DEF PageInit, BehindServer, AtMost, Old, Jobs
<1>4. FreshUnlessOvertaken /\ RequestsHaveReasons
  BY DEF PageInit, FreshUnlessOvertaken, RequestsHaveReasons, ListRequests
<1> QED BY <1>2, <1>3, <1>4 DEF PageInv

(* The server's rows only grow.                                            *)
LEMMA ServerInv ==
  ASSUME PageInv, (\E j \in Jobs : JobChanges(j)) \/ ServerDecides
  PROVE  PageInv'
<1>0. PageTypeOK /\ UNCHANGED <<page, state, answer, overlapped, clicked, pageFaults>>
  BY DEF PageInv, JobChanges, ServerDecides, choice
<1>1. CASE truth' = truth
  <2>1. /\ decision \in {"none", "sent", "decided", "failed"} /\ decided' = decided
        /\ decision' = "failed" \/ decision' = decision
        /\ decision' = "failed" => decision \in {"sent", "failed"}
    <3>1. CASE ServerDecides
      <4>1. truth'[Job] = truth[Job] /\ truth[Job] \in Nat /\ Job \in DOMAIN truth
        BY PageAssumption, <1>0, <1>1 DEF PageTypeOK, Rows, Jobs
      <4> QED BY <1>0, <3>1, <4>1 DEF ServerDecides, PageTypeOK
    <3>2. CASE \E j \in Jobs : JobChanges(j)
      BY <1>0, <3>2 DEF JobChanges, choice, PageTypeOK
    <3> QED BY <3>1, <3>2
  <2> QED BY <1>0, <1>1, <2>1 DEF PageInv, PageTypeOK, BehindServer, FreshUnlessOvertaken, page,
                                 RequestsHaveReasons, AtMost
<1>2. CASE truth' # truth
  <2>1. PICK k \in Jobs :
          /\ truth' = [truth EXCEPT ![k] = truth[k] + 1]
          /\ Changes < MaxChanges
          /\ \/ UNCHANGED <<decision, decided>>
             \/ decision = "sent" /\ decision' = "decided" /\ decided' = truth'[Job]
    BY <1>2 DEF JobChanges, ServerDecides, choice, Jobs
  <2>2. \A j \in Jobs : truth[j] \in Nat
    BY <1>0, RowTypes
  <2>3. truth[k] + 1 <= MaxChanges /\ MaxChanges \in Nat
    BY PageAssumption, <2>1, <2>2 DEF Changes, Jobs
  <2>4. truth' \in Rows /\ \A j \in Jobs : truth[j] <= truth'[j] /\ truth'[j] \in 0 .. MaxChanges
    BY <1>0, <2>1, <2>2, <2>3 DEF PageTypeOK, Rows
  <2>5. PageTypeOK'
    BY <1>0, <2>1, <2>4 DEF PageTypeOK, page, Jobs
  <2>6. AtMost(shown', truth') /\ decided' <= truth'[Job]
    <3>1. AtMost(shown, truth) /\ decided <= truth[Job]
      BY DEF PageInv, BehindServer
    <3>2. \A j \in Jobs : shown[j] \in Nat /\ decided \in Nat /\ truth'[j] \in Nat
      BY PageAssumption, <1>0, <2>4, RowTypes
    <3> QED BY <1>0, <2>1, <2>2, <2>4, <3>1, <3>2 DEF AtMost, page, Jobs
  <2>7. \A q \in ListRequests : AtMost(answer'[q], truth')
    <3>1. \A q \in ListRequests : AtMost(answer[q], truth)
      BY DEF PageInv, BehindServer
    <3>2. \A q \in ListRequests, j \in Jobs : answer[q][j] \in Nat /\ truth'[j] \in Nat
      BY PageAssumption, <1>0, <2>4, RowTypes
    <3> QED BY <1>0, <2>2, <2>4, <3>1, <3>2 DEF AtMost
  <2>8. FreshUnlessOvertaken'
    <3>1. ASSUME decision' = "decided", "decision" \notin overlapped'
          PROVE  shown'[Job] <= decided'
      <4>1. CASE UNCHANGED <<decision, decided>>
        BY <1>0, <3>1, <4>1 DEF PageInv, FreshUnlessOvertaken, page
      <4>2. CASE decided' = truth'[Job]
        BY <2>6, <4>2 DEF AtMost, Jobs
      <4> QED BY <2>1, <4>1, <4>2
    <3> QED BY <1>0, <3>1 DEF PageInv, FreshUnlessOvertaken, AtMost, page
  <2>9. RequestsHaveReasons'
    BY <1>0, <2>1 DEF PageInv, RequestsHaveReasons, page
  <2> QED BY <2>5, <2>6, <2>7, <2>8, <2>9 DEF PageInv, BehindServer
<1> QED BY <1>1, <1>2

(* A request for the list is sent, answered, fails, or is told of failure. *)
LEMMA RequestInv ==
  ASSUME PageInv, NEW q \in ListRequests,
         \/ q \in Polls /\ (OpenPage(q) \/ Poll(q))
         \/ ServerAnswers(q) \/ RequestFails(q) \/ FailureLands(q)
  PROVE  PageInv'
<1>0. PageTypeOK /\ UNCHANGED <<truth, shown, choice>> /\ "refetch" \in ListRequests
  BY DEF PageInv, OpenPage, Poll, ServerAnswers, RequestFails, FailureLands, server, page,
         ListRequests
<1>1. PageTypeOK'
  <2>1. Old \in Rows /\ truth \in Rows
    BY PageAssumption, <1>0 DEF Old, Rows, PageTypeOK
  <2>2. pageFaults' \in 0 .. MaxPageFaults
    BY PageAssumption, <1>0 DEF OpenPage, Poll, ServerAnswers, RequestFails, FailureLands, PageTypeOK
  <2>3. open' \in BOOLEAN /\ error' \in BOOLEAN
    BY <1>0, Zenon DEF OpenPage, Poll, ServerAnswers, RequestFails, FailureLands, PageTypeOK, page
  <2>4. /\ state' \in [ListRequests -> {"none", "sent", "answered", "failed"}]
        /\ answer' \in [ListRequests -> Rows]
        /\ overlapped' \subseteq ListRequests \cup {"decision"}
    BY <1>0, <2>1 DEF OpenPage, Poll, ServerAnswers, RequestFails, FailureLands, Sends,
                     Forgets, PageTypeOK
  <2> QED BY <1>0, <2>2, <2>3, <2>4 DEF PageTypeOK, choice
<1>2. BehindServer'
  <2>1. answer' = answer \/ answer' = [answer EXCEPT ![q] = truth]
          \/ answer' = [answer EXCEPT ![q] = Old]
    BY DEF OpenPage, Poll, ServerAnswers, RequestFails, FailureLands, Forgets
  <2>2. AtMost(truth, truth) /\ AtMost(Old, truth)
    BY <1>0, RowTypes DEF AtMost, Old
  <2> QED BY <1>0, <2>1, <2>2 DEF PageInv, PageTypeOK, BehindServer, AtMost, choice
<1>3. FreshUnlessOvertaken'
  <2>1. \A p \in ListRequests : p # q =>
          state'[p] = state[p] /\ answer'[p] = answer[p] /\ (p \in overlapped' <=> p \in overlapped)
    BY <1>0 DEF OpenPage, Poll, ServerAnswers, RequestFails, FailureLands, Sends, Forgets,
                PageTypeOK
  <2>2. state'[q] = "answered" => answer'[q] = truth
    BY <1>0 DEF OpenPage, Poll, ServerAnswers, RequestFails, FailureLands, Sends, Forgets,
                PageTypeOK
  <2>3. "decision" \in overlapped' <=> "decision" \in overlapped
    <3>1. "decision" # q
      BY PageAssumption DEF ListRequests
    <3> QED BY <3>1 DEF OpenPage, Poll, ServerAnswers, RequestFails, FailureLands
  <2> QED BY <1>0, <2>1, <2>2, <2>3 DEF PageInv, BehindServer, FreshUnlessOvertaken, AtMost, choice
<1>4. RequestsHaveReasons'
  <2>1. q \in Polls => q # "refetch"
    BY PageAssumption
  <2> QED BY <1>0, <2>1 DEF PageInv, RequestsHaveReasons, OpenPage, Poll, ServerAnswers,
            RequestFails, FailureLands, Sends, Forgets, PageTypeOK, choice, page, ListRequests
<1> QED BY <1>1, <1>2, <1>3, <1>4 DEF PageInv

(* A list that lands overtakes all that is under way.                      *)
LEMMA LandsInv ==
  ASSUME PageInv, NEW q \in ListRequests, AnswerLands(q)
  PROVE  PageInv'
<1>0. /\ PageTypeOK /\ state[q] = "answered" /\ shown' = answer[q]
      /\ state' = [state EXCEPT ![q] = "none"] /\ answer' = [answer EXCEPT ![q] = Old]
      /\ overlapped' = UnderWay \ {q}
      /\ UNCHANGED <<truth, open, choice, pageFaults>> /\ error' = FALSE
  BY DEF PageInv, AnswerLands, Forgets, server
<1>1. Old \in Rows /\ AtMost(Old, truth) /\ "decision" # q
  BY PageAssumption, <1>0, RowTypes DEF Old, Rows, AtMost, ListRequests
<1>2. PageTypeOK'
  BY <1>0, <1>1 DEF PageTypeOK, UnderWay, choice
<1>3. BehindServer'
  BY <1>0, <1>1 DEF PageInv, PageTypeOK, BehindServer, AtMost, choice
<1>4. FreshUnlessOvertaken'
  BY <1>0, <1>1 DEF FreshUnlessOvertaken, UnderWay, PageTypeOK, choice
<1>5. RequestsHaveReasons'
  BY <1>0 DEF PageInv, RequestsHaveReasons, PageTypeOK, choice, ListRequests
<1> QED BY <1>2, <1>3, <1>4, <1>5 DEF PageInv

(* The operator decides, and is told the outcome.                          *)
LEMMA DecisionInv ==
  ASSUME PageInv, Decide \/ DecisionLands \/ DecisionFails
  PROVE  PageInv'
<1>0. PageTypeOK /\ UNCHANGED truth /\ "refetch" \in ListRequests /\ Old \in Rows
      /\ "decision" \notin ListRequests
  BY PageAssumption DEF PageInv, Decide, DecisionLands, DecisionFails, server, ListRequests, Old, Rows
<1>1. CASE Decide
  <2>1. PageTypeOK'
    BY <1>0, <1>1 DEF Decide, PageTypeOK, page
  <2> QED BY <1>0, <1>1, <2>1 DEF Decide, PageInv, BehindServer, FreshUnlessOvertaken,
                                  RequestsHaveReasons, AtMost, page
<1>2. CASE DecisionFails
  <2>1. PageTypeOK'
    BY <1>0, <1>2 DEF DecisionFails, PageTypeOK
  <2> QED BY <1>0, <1>2, <2>1 DEF DecisionFails, PageInv, BehindServer, FreshUnlessOvertaken,
                                  RequestsHaveReasons, AtMost
<1>3. CASE DecisionLands
  <2>0. /\ decision = "decided" /\ shown' = [shown EXCEPT ![Job] = decided]
        /\ state' = [state EXCEPT !["refetch"] = "sent"] /\ decision' = "none" /\ decided' = 0
        /\ overlapped' = UnderWay \ {"decision"} /\ clicked' = Old
        /\ UNCHANGED <<open, error, answer, pageFaults>> /\ Job \in Jobs
    BY <1>3 DEF DecisionLands, Sends, Jobs
  <2>1. PageTypeOK'
    <3>1. shown' \in Rows
      BY <1>0, <2>0 DEF PageTypeOK, Rows
    <3> QED BY PageAssumption, <1>0, <2>0, <3>1 DEF PageTypeOK, UnderWay
  <2>2. BehindServer'
    BY <1>0, <2>0, RowTypes DEF PageInv, PageTypeOK, Rows, BehindServer, AtMost
  <2>3. FreshUnlessOvertaken'
    BY <1>0, <2>0 DEF FreshUnlessOvertaken, UnderWay, PageTypeOK
  <2>4. RequestsHaveReasons'
    BY PageAssumption, <1>0, <2>0 DEF PageInv, RequestsHaveReasons, PageTypeOK
  <2> QED BY <2>1, <2>2, <2>3, <2>4 DEF PageInv
<1> QED BY <1>1, <1>2, <1>3

(* The operator leaves, and the polls with him.                            *)
LEMMA LeaveInv ==
  ASSUME PageInv, LeavePage
  PROVE  PageInv'
<1>0. /\ PageTypeOK /\ UNCHANGED <<truth, shown, error, choice, pageFaults>> /\ open' = FALSE
      /\ state' = [q \in ListRequests |-> IF q \in Polls THEN "none" ELSE state[q]]
      /\ answer' = [q \in ListRequests |-> IF q \in Polls THEN Old ELSE answer[q]]
      /\ overlapped' = overlapped \ Polls
  BY DEF PageInv, LeavePage, server
<1>1. Old \in Rows /\ AtMost(Old, truth)
  BY PageAssumption, <1>0, RowTypes DEF Old, Rows, AtMost
<1>2. PageTypeOK'
  BY <1>0, <1>1 DEF PageTypeOK, choice
<1>3. BehindServer'
  BY <1>0, <1>1 DEF PageInv, BehindServer, AtMost, choice
<1>4. FreshUnlessOvertaken'
  BY PageAssumption, <1>0 DEF PageInv, FreshUnlessOvertaken, AtMost, choice
<1>5. RequestsHaveReasons'
  BY <1>0 DEF PageInv, RequestsHaveReasons, choice, ListRequests
<1> QED BY <1>2, <1>3, <1>4, <1>5 DEF PageInv

(* The invariant is one.                                                   *)
THEOREM PageInvariance == PageSpec => []PageInv
<1>1. PageInit => PageInv
  BY PageInitInv
<1>2. PageInv /\ [PageNext]_pageVars => PageInv'
  <2> SUFFICES ASSUME PageInv, [PageNext]_pageVars PROVE PageInv'
    OBVIOUS
  <2>1. CASE UNCHANGED pageVars
    BY <2>1 DEF pageVars, PageInv, PageTypeOK, BehindServer, FreshUnlessOvertaken, RequestsHaveReasons,
                AtMost
  <2>2. CASE PageNext
    <3>1. Polls \subseteq ListRequests
      BY DEF ListRequests
    <3> QED BY <2>2, <3>1, ServerInv, RequestInv, LandsInv, DecisionInv, LeaveInv DEF PageNext
  <2> QED BY <2>1, <2>2
<1> QED BY <1>1, <1>2, PTL DEF PageSpec

(* The types of JobsPage, for any number of polls and changes.             *)
THEOREM PageTypeCorrect == PageSpec => []PageTypeOK
<1>1. PageInv => PageTypeOK
  BY DEF PageInv
<1> QED BY <1>1, PageInvariance, PTL

(* A row goes back only when the answer that lands was overtaken, and a    *)
(* decision takes back no other job's.                                     *)
THEOREM RowsGoBackOnlyByOverlap == PageSpec => GoesBackOnlyByOverlap
<1> DEFINE Explained ==
      \A j \in Jobs : shown'[j] < shown[j] =>
        \/ ListLands
        \/ j = Job /\ "decision" \in overlapped /\ DecidedLands
<1>1. ASSUME PageInv, [PageNext]_pageVars PROVE Explained
  <2> SUFFICES ASSUME NEW j \in Jobs, shown'[j] < shown[j]
               PROVE  ListLands \/ (j = Job /\ "decision" \in overlapped /\ DecidedLands)
    OBVIOUS
  <2>0. PageTypeOK
    BY <1>1 DEF PageInv
  <2>1. shown' # shown
    BY <2>0, RowTypes
  <2>2. ASSUME NEW q \in ListRequests, AnswerLands(q) PROVE ListLands
    <3>1. state[q] = "answered" /\ shown'[j] = answer[q][j] /\ state'[q] = "none"
      BY <2>0, <2>2 DEF AnswerLands, Forgets, PageTypeOK
    <3>2. q \in overlapped
      <4> SUFFICES ASSUME q \notin overlapped PROVE FALSE
        OBVIOUS
      <4>1. shown[j] <= answer[q][j]
        BY <1>1, <3>1 DEF PageInv, FreshUnlessOvertaken, AtMost
      <4> QED BY <2>0, <3>1, <4>1, RowTypes
    <3> QED BY <3>1, <3>2 DEF ListLands
  <2>3. ASSUME DecisionLands PROVE j = Job /\ "decision" \in overlapped /\ DecidedLands
    <3>1. decision = "decided" /\ decision' = "none" /\ shown' = [shown EXCEPT ![Job] = decided]
      BY <2>3 DEF DecisionLands
    <3>2. j = Job /\ shown'[j] = decided
      BY <2>0, <3>1, RowTypes DEF PageTypeOK, Rows
    <3>3. "decision" \in overlapped
      BY <1>1, <2>0, <3>1, <3>2, RowTypes DEF PageInv, FreshUnlessOvertaken
    <3> QED BY <3>1, <3>2, <3>3 DEF DecidedLands
  <2>4. (\E q \in ListRequests : AnswerLands(q)) \/ DecisionLands
    BY <1>1, <2>1 DEF PageNext, pageVars, JobChanges, OpenPage, Poll, LeavePage, ServerAnswers,
         RequestFails, FailureLands, Decide, ServerDecides, DecisionFails, page
  <2> QED BY <2>2, <2>3, <2>4
<1> QED BY <1>1, PageInvariance, PTL DEF PageSpec, GoesBackOnlyByOverlap

(* What a page asked for changes nothing after it was left.                *)
THEOREM LeavingIsFinal == PageSpec => LeftIsLeft
<1> DEFINE Explained == ~open /\ shown' # shown =>
                          decision # decision' \/ state["refetch"] # state'["refetch"]
<1>1. ASSUME PageInv, [PageNext]_pageVars PROVE Explained
  <2> SUFFICES ASSUME ~open, shown' # shown
               PROVE  decision # decision' \/ state["refetch"] # state'["refetch"]
    OBVIOUS
  <2>1. (\E q \in ListRequests : AnswerLands(q)) \/ DecisionLands
    BY <1>1 DEF PageNext, pageVars, JobChanges, OpenPage, Poll, LeavePage, ServerAnswers,
         RequestFails, FailureLands, Decide, ServerDecides, DecisionFails, page
  <2>2. ASSUME NEW q \in ListRequests, AnswerLands(q) PROVE state["refetch"] # state'["refetch"]
    <3>1. state[q] = "answered" /\ state'[q] = "none"
      BY <1>1, <2>2 DEF PageInv, PageTypeOK, AnswerLands, Forgets
    <3>2. q = "refetch"
      BY <1>1, <3>1 DEF PageInv, RequestsHaveReasons, ListRequests
    <3> QED BY <3>1, <3>2
  <2> QED BY <2>1, <2>2 DEF DecisionLands
<1> QED BY <1>1, PageInvariance, PTL DEF PageSpec, LeftIsLeft
=============================================================================
