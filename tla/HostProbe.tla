----------------------------- MODULE HostProbe -----------------------------
(***************************************************************************)
(* The CPU usage kojid reports (system/probe.go): every request for the    *)
(* host's metrics takes the ticks since the sample of the request before.  *)
(*                                                                         *)
(* All requests share one Probe, under a mutex, while the kernel goes on   *)
(* counting.  The kernel's counters only grow, but for the time spent      *)
(* waiting for I/O, which it may take back (proc(5)); the differences are  *)
(* unsigned, of the width Wrap stands for.                                 *)
(***************************************************************************)
EXTENDS Integers, FiniteSets

CONSTANTS
  MetricsRequests,  \* requests for /api/v1/metrics under way
  Wrap,             \* one more than the largest unsigned number
  MaxTicks,         \* bound on the ticks of the kernel
  MaxFalls          \* bound on the ticks of I/O wait taken back

ASSUME ProbeAssumption ==
  /\ Wrap \in Nat /\ MaxTicks \in Nat /\ MaxFalls \in Nat
  /\ MaxTicks < Wrap

VARIABLES
  idle, total,  \* the first line of /proc/stat: field 4, and the sum of all
  falls,        \* ticks taken back
  last,         \* Probe.lastCPUSample
  inside,       \* the requests that hold Probe.mu
  step,         \* per request, where it is
  current,      \* per request, the sample it has read
  usage         \* per request, the two differences of its answer

probeVars == <<idle, total, falls, last, inside, step, current, usage>>

(* A sample; how much was taken back by then is history.                   *)
Sample(i, t, f) == [idle |-> i, total |-> t, falls |-> f]
Now == Sample(idle, total, falls)

(* Subtraction of unsigned numbers.                                        *)
Minus(m, n) == (m - n) % Wrap

Steps == {"new", "memory", "cpu", "store", "answered", "failed"}
None  == [idleDelta |-> 0, totalDelta |-> 0, ticks |-> 0, fell |-> FALSE]

(* NewProbe has taken its first sample, of a host that just booted.        *)
ProbeInit ==
  /\ idle = 0 /\ total = 0 /\ falls = 0
  /\ last = Now
  /\ inside = {}
  /\ step = [r \in MetricsRequests |-> "new"]
  /\ current = [r \in MetricsRequests |-> last]
  /\ usage = [r \in MetricsRequests |-> None]

Tick ==
  /\ total + falls < MaxTicks
  /\ total' = total + 1
  /\ idle' \in {idle, idle + 1}
  /\ UNCHANGED <<falls, last, inside, step, current, usage>>

(* Some of the ticks that are not idle ones were spent waiting.            *)
IowaitFalls ==
  /\ falls < MaxFalls /\ idle < total
  /\ total' = total - 1
  /\ falls' = falls + 1
  /\ UNCHANGED <<idle, last, inside, step, current, usage>>

kernel == <<idle, total, falls>>
RequestGoes(r, where) == step' = [step EXCEPT ![r] = where]
Leaves(r, where) == RequestGoes(r, where) /\ inside' = inside \ {r}

(* Faulty variant: the mutex is not taken.                                 *)
LockProbeShared(r) ==
  /\ step[r] \in {"new", "answered", "failed"}
  /\ inside' = inside \cup {r} /\ RequestGoes(r, "memory")
  /\ usage' = [usage EXCEPT ![r] = None]
  /\ UNCHANGED <<kernel, last, current>>

LockProbe(r) ==
  /\ step[r] \in {"new", "answered", "failed"} /\ inside = {}
  /\ inside' = inside \cup {r} /\ RequestGoes(r, "memory")
  /\ usage' = [usage EXCEPT ![r] = None]
  /\ UNCHANGED <<kernel, last, current>>

(* collectMemory: without it there is no answer, and no sample is taken.   *)
CollectMemory(r) ==
  /\ step[r] = "memory"
  /\ \/ RequestGoes(r, "cpu") /\ UNCHANGED inside
     \/ Leaves(r, "failed")
  /\ UNCHANGED <<kernel, last, current, usage>>

(* readCPUSample: when it fails the answer says 0, and the old sample stays. *)
ReadCPUSample(r) ==
  /\ step[r] = "cpu"
  /\ \/ /\ current' = [current EXCEPT ![r] = Now]
        /\ RequestGoes(r, "store") /\ UNCHANGED inside
     \/ Leaves(r, "answered") /\ UNCHANGED current
  /\ UNCHANGED <<kernel, last, usage>>

(* What is answered; how many ticks there were in truth is history.        *)
Difference(r) ==
  [idleDelta  |-> Minus(current[r].idle, last.idle),
   totalDelta |-> Minus(current[r].total, last.total),
   ticks      |-> (current[r].total + current[r].falls) - (last.total + last.falls),
   fell       |-> current[r].falls # last.falls]

(* collectCPU divides the differences, and keeps the sample for the next.  *)
StoreSample(r) ==
  /\ step[r] = "store"
  /\ usage' = [usage EXCEPT ![r] = Difference(r)]
  /\ last' = current[r]
  /\ current' = [current EXCEPT ![r] = Sample(0, 0, 0)]
  /\ Leaves(r, "answered")
  /\ UNCHANGED kernel

ProbeNext ==
  \/ Tick \/ IowaitFalls
  \/ \E r \in MetricsRequests :
       LockProbe(r) \/ CollectMemory(r) \/ ReadCPUSample(r) \/ StoreSample(r)

ProbeSpec == ProbeInit /\ [][ProbeNext]_probeVars

Numbers == 0 .. (Wrap - 1)
Samples == [idle : 0 .. MaxTicks, total : 0 .. MaxTicks, falls : 0 .. MaxFalls]

ProbeTypeOK ==
  /\ idle \in 0 .. MaxTicks /\ total \in 0 .. MaxTicks /\ falls \in 0 .. MaxFalls
  /\ idle <= total /\ total + falls <= MaxTicks
  /\ last \in Samples
  /\ inside \subseteq MetricsRequests
  /\ step \in [MetricsRequests -> Steps]
  /\ current \in [MetricsRequests -> Samples]
  /\ usage \in [MetricsRequests -> [idleDelta : Numbers, totalDelta : Numbers,
                             ticks : Int, fell : BOOLEAN]]

---------------------------------------------------------------------------
(* However many requests measure at once, what is divided is ticks that    *)
(* did pass and the idle ones among them, so a usage is between 0 and 100: *)
(* unless the kernel took ticks back in between.  (Then a difference may   *)
(* be smaller than the idle time in it, or wrap round.)                    *)
UsageIsAPercentage ==
  \A r \in MetricsRequests :
    ~usage[r].fell => /\ usage[r].totalDelta = usage[r].ticks
                      /\ usage[r].idleDelta <= usage[r].totalDelta
=============================================================================
