------------------------------ MODULE Metrics ------------------------------
(***************************************************************************)
(* The counters of kojid and what is read of them: the worker and the      *)
(* readiness handler that count, and the snapshot an operator is shown     *)
(* (observability/metrics.go, http/handlers_health.go, jobs/worker.go).    *)
(*                                                                         *)
(* One counter is one atomic number, but a snapshot reads them one by one, *)
(* in the order of their names, while all goroutines count on: it is of no *)
(* one moment.                                                             *)
(***************************************************************************)
EXTENDS Naturals, Sequences, FiniteSets

CONSTANTS
  Checks,      \* the goroutines of readiness requests, each used again and again
  MaxCount     \* bound on the dispatches and the checks counted, together

ASSUME MetricsAssumption == IsFiniteSet(Checks) /\ MaxCount \in Nat

VARIABLES
  counter,     \* what each counter says
  todo,        \* per goroutine, the counter it is about to add to
  dispatch,    \* where the worker is between its two counts
  report,      \* per readiness request, the results of its checks so far
  answers,     \* history: how many answers there were of each status
  reading,     \* how many counters the snapshot under way has read
  snapshot     \* what it has read

metricsVars == <<counter, todo, dispatch, report, answers, reading, snapshot>>

(* Faulty variant: the wholes before their parts.                          *)
CounterNamesByWeight ==
  <<"agent_rpc_requests_total", "agent_rpc_failures_total",
    "readiness_checks_total", "readiness_agent_degraded_total",
    "readiness_db_failures_total", "readiness_migration_failures_total">>

(* CounterNames, sorted: those of the eighteen that are counted here.      *)
CounterNames ==
  <<"agent_rpc_failures_total", "agent_rpc_requests_total",
    "readiness_agent_degraded_total", "readiness_checks_total",
    "readiness_db_failures_total", "readiness_migration_failures_total">>

Counters == {CounterNames[i] : i \in 1 .. Len(CounterNames)}
Zero == [n \in Counters |-> 0]
Statuses == {"ok", "degraded", "fail"}

MetricsInit ==
  /\ counter = Zero /\ snapshot = Zero
  /\ reading = 0
  /\ todo = [c \in Checks |-> "none"]
  /\ dispatch = "idle"
  /\ report = [c \in Checks |-> << >>]
  /\ answers = [status \in Statuses |-> 0]

(* Registry.Inc: LoadOrStore finds the same counter for all, Add is atomic. *)
Inc(name) == counter' = [counter EXCEPT ![name] = @ + 1]

Counted == counter["agent_rpc_requests_total"] + counter["readiness_checks_total"]

(* executeClaimedJob: the agent's answer is counted, and then, when it was *)
(* an error, once more as a failure.                                       *)
CountRequest ==
  /\ dispatch = "idle" /\ Counted < MaxCount
  /\ Inc("agent_rpc_requests_total")
  /\ dispatch' \in {"idle", "failed"}
  /\ UNCHANGED <<todo, report, answers, reading, snapshot>>

CountFailure ==
  /\ dispatch = "failed"
  /\ Inc("agent_rpc_failures_total")
  /\ dispatch' = "idle"
  /\ UNCHANGED <<todo, report, answers, reading, snapshot>>

(* handleReady counts the check, then makes its report.                    *)
StartCheck(c) ==
  /\ report[c] = << >> /\ todo[c] = "none"
  /\ Counted < MaxCount
  /\ Inc("readiness_checks_total")
  /\ report' = [report EXCEPT ![c] = <<"started">>]
  /\ UNCHANGED <<todo, dispatch, answers, reading, snapshot>>

(* dbCheck, migrationCheck and agentCheck, in this order: what each says   *)
(* when it fails, and the counter of that.                                 *)
Failure == <<"fail", "fail", "degraded">>
FailureCounter ==
  <<"readiness_db_failures_total", "readiness_migration_failures_total",
    "readiness_agent_degraded_total">>

RunCheck(c) ==
  /\ Len(report[c]) \in 1 .. 3 /\ todo[c] = "none"
  /\ LET i == Len(report[c]) IN
     \/ report' = [report EXCEPT ![c] = Append(@, "ok")] /\ UNCHANGED todo
     \/ /\ report' = [report EXCEPT ![c] = Append(@, Failure[i])]
        /\ todo' = [todo EXCEPT ![c] = FailureCounter[i]]
  /\ UNCHANGED <<counter, dispatch, answers, reading, snapshot>>

CountCheck(c) ==
  /\ todo[c] # "none"
  /\ Inc(todo[c])
  /\ todo' = [todo EXCEPT ![c] = "none"]
  /\ UNCHANGED <<dispatch, report, answers, reading, snapshot>>

(* readinessStatus.                                                        *)
Status(results) ==
  IF "fail" \in results THEN "fail"
  ELSE IF "degraded" \in results THEN "degraded" ELSE "ok"

AnswerCheck(c) ==
  /\ Len(report[c]) = 4 /\ todo[c] = "none"
  /\ LET status == Status({report[c][i] : i \in 1 .. 4})
     IN  answers' = [answers EXCEPT ![status] = @ + 1]
  /\ report' = [report EXCEPT ![c] = << >>]
  /\ UNCHANGED <<counter, todo, dispatch, reading, snapshot>>

(* counterValues, one counter at a time.                                   *)
ReadCounter ==
  /\ reading < Len(CounterNames)
  /\ LET name == CounterNames[reading + 1]
     IN  snapshot' = [snapshot EXCEPT ![name] = counter[name]]
  /\ reading' = reading + 1
  /\ UNCHANGED <<counter, todo, dispatch, report, answers>>

AnswerSnapshot ==
  /\ reading = Len(CounterNames)
  /\ snapshot' = Zero /\ reading' = 0
  /\ UNCHANGED <<counter, todo, dispatch, report, answers>>

MetricsNext ==
  \/ CountRequest \/ CountFailure
  \/ \E c \in Checks : StartCheck(c) \/ RunCheck(c) \/ CountCheck(c) \/ AnswerCheck(c)
  \/ ReadCounter \/ AnswerSnapshot

MetricsSpec == MetricsInit /\ [][MetricsNext]_metricsVars

MetricsTypeOK ==
  /\ {counter, snapshot} \subseteq [Counters -> Nat]
  /\ todo \in [Checks -> Counters \cup {"none"}]
  /\ dispatch \in {"idle", "failed"}
  /\ report \in [Checks -> Seq({"started"} \cup Statuses)]
  /\ \A c \in Checks : Len(report[c]) <= 4
  /\ answers \in [Statuses -> Nat]
  /\ reading \in 0 .. Len(CounterNames)

---------------------------------------------------------------------------
(* A snapshot is of no one moment.  Where the part has the earlier name,   *)
(* and is read first, it shows no more of the part than of the whole.      *)
PartReadFirst ==
  reading = Len(CounterNames) =>
    /\ snapshot["agent_rpc_failures_total"] <= snapshot["agent_rpc_requests_total"]
    /\ snapshot["readiness_agent_degraded_total"] <= snapshot["readiness_checks_total"]

(* The failures of the database and of its migrations have later names: a  *)
(* snapshot can show more of them than checks, but then the checks went on *)
(* while it was taken, and what it shows has been checked by now.          *)
FailuresWereChecked ==
  reading = Len(CounterNames) =>
    \A n \in {"readiness_db_failures_total", "readiness_migration_failures_total"} :
      snapshot[n] <= counter["readiness_checks_total"]

(* Whoever is told that koji is not ready finds the reason counted.        *)
AnswersAreCounted ==
  /\ answers["degraded"] <= counter["readiness_agent_degraded_total"]
  /\ answers["fail"] <= counter["readiness_db_failures_total"]
                       + counter["readiness_migration_failures_total"]

(* What a snapshot shows happened, and what was answered is counted: the   *)
(* code counts an event before its outcome, and both before the answer.    *)
CountsFollowEvents == PartReadFirst /\ FailuresWereChecked /\ AnswersAreCounted
=============================================================================
