----------------------------- MODULE JobControl -----------------------------
(***************************************************************************)
(* The service-control pipeline of kojid and koji-agent.                   *)
(*                                                                         *)
(*   - HTTP handlers (internal/http) create jobs, decide them and show     *)
(*     them.  Each handler is a goroutine that issues several SQL          *)
(*     statements; other goroutines run between any two of them.           *)
(*   - The worker (internal/jobs/worker.go) claims approved jobs, calls    *)
(*     the agent over a Unix socket, and records the result.               *)
(*   - The agent (internal/agent) runs the command detached from the       *)
(*     caller: a client that gives up does not stop it.                    *)
(*   - Every statement may fail, kojid may be killed, told to stop, or     *)
(*     stop because its worker failed, and the agent may go away.          *)
(*                                                                         *)
(* The database connection pool has size one (internal/db/db.go), so one   *)
(* statement is one atomic step.                                           *)
(***************************************************************************)
EXTENDS Integers, FiniteSets

CONSTANTS
    Jobs,               \* ids a job row can get; positive, ordered like the UUID text
    Requests,           \* HTTP requests that may arrive; each arrives at most once
    NoRequest,          \* not a request: a column that is still NULL
    RequestKinds,       \* which of Kinds arrive, and
    Inputs,             \* which of AllInputs (bounds on what clients do)
    Services,           \* service names a client may ask for
    ValidServices,      \* the names ValidateServiceName accepts
    DaemonAllowlist,    \* service_allowlist of koji.yaml
    AgentAllowlist,     \* the allowlist of agent.yaml
    AgentModes,         \* whether agent.yaml enables mutation: "enabled", "disabled", or either
    Stamps,             \* creation times, in half seconds
    MaxFaults           \* bound on faults and shutdowns in one behaviour

Kinds == {"control", "approve", "reject", "detail"}

\* The capability check of a request passes or not; a decision's body may be
\* malformed or too long.
AllInputs == {"granted", "denied", "malformed"}

NoJob == 0

ASSUME JobsAssumption == Jobs \subseteq Nat \ {NoJob}
ASSUME RequestsAssumption == NoRequest \notin Requests
ASSUME KindsAssumption == RequestKinds \subseteq Kinds /\ Inputs \subseteq AllInputs
ASSUME ServicesAssumption ==
    /\ ValidServices \subseteq Services
    /\ DaemonAllowlist \subseteq Services
    /\ AgentAllowlist \subseteq Services
ASSUME AgentModesAssumption == AgentModes \subseteq {"disabled", "enabled"}
ASSUME StampsAssumption == Stamps \subseteq Nat
ASSUME FaultsAssumption == MaxFaults \in Nat

VARIABLES
    \* the jobs table, by column
    status, reason, created, approvedBy, rejectedBy,
    \* the audit_events table: the set of its rows
    audit,
    \* HTTP requests: handler position, kind, job, service, row as last read, answer
    pc, kind, about, service, seen, answer,
    \* the kojid process and the worker goroutine in it
    kojid, wpc, wjob, wres,
    \* koji-agent, its commands by job, and how often a job was sent to it
    agent, cmd, dispatched,
    \* faults so far
    faults

jobVars     == <<status, reason, created, approvedBy, rejectedBy>>
requestVars == <<pc, kind, about, service, seen, answer>>
workerVars  == <<wpc, wjob, wres>>
agentVars   == <<agent, cmd, dispatched>>
vars == <<jobVars, audit, requestVars, kojid, workerVars, agentVars, faults>>

-----------------------------------------------------------------------------
(* Values *)

Statuses == {"absent", "queued", "approved", "rejected",
             "running", "completed", "failed"}

Terminal == {"rejected", "completed", "failed"}

\* The result of the agent call as executeClaimedJob and applyAgentError see it.
FailureReasons == {"mutation_disabled", "command_failed", "command_timeout",
                   "service_not_allowlisted", "agent_unavailable"}

Reasons == {"none", "pending_approval", "approved", "rejected", "running",
            "completed"} \cup FailureReasons

\* What became of the command of a job on the agent's side.  A command that
\* wrote more than the output limit succeeded ("truncated"), one whose agent
\* went away ("lost") or that ran out of time ("timeout") may have.
Commands == {"none", "received", "running", "ok", "truncated", "failed",
             "timeout", "mutation_disabled", "service_not_allowlisted", "lost"}

InFlight == {"received", "running"}

Row == [at : Stamps, service : Services, by : Requests]
NoRow == [at |-> 0, service |-> "none", by |-> NoRequest]

Actions == {"capability.denied", "service.control", "job.created", "job.viewed",
            "job.status_changed", "job.approved", "job.rejected", "job.approval_denied",
            "job.started", "job.completed", "job.failed", "job.mutation_disabled",
            "job.command_failed", "job.command_timeout"}

Details == Statuses \cup Reasons \cup
           {"capability_denied", "invalid_service_name", "invalid_status", "jobs_read"}

Event == [action : Actions, job : Jobs \cup {NoJob}, target : {"job", "service"},
          detail : Details, by : Requests]

RequestSteps == {"new", "capDenied", "intentDenied", "intentRejected",
                 "notAllowlisted", "insert", "auditCreated", "update", "recheck",
                 "get", "auditDecision", "auditConflict", "auditStatus",
                 "auditViewed", "done"}

\* Positions at which the handler's next step is a SQL statement.
StatementSteps == RequestSteps \ {"new", "done"}

WorkerSteps == {"poll", "auditStarted", "dial", "waiting", "finish",
                "auditOutcome", "auditStatus", "stopped"}

WorkerStatementSteps == {"poll", "auditStarted", "finish", "auditOutcome", "auditStatus"}

Answers == {0, 200, 202, 400, 403, 404, 409, 500}

-----------------------------------------------------------------------------
Init ==
    /\ status = [j \in Jobs |-> "absent"]
    /\ reason = [j \in Jobs |-> "none"]
    /\ created = [j \in Jobs |-> NoRow]
    /\ approvedBy = [j \in Jobs |-> NoRequest]
    /\ rejectedBy = [j \in Jobs |-> NoRequest]
    /\ audit = {}
    /\ pc = [r \in Requests |-> "new"]
    /\ kind = [r \in Requests |-> "none"]
    /\ about = [r \in Requests |-> NoJob]
    /\ service = [r \in Requests |-> "none"]
    /\ seen = [r \in Requests |-> "absent"]
    /\ answer = [r \in Requests |-> 0]
    /\ kojid = "up"
    /\ wpc = "poll"
    /\ wjob = NoJob
    /\ wres = "none"
    /\ agent \in AgentModes
    /\ cmd = [j \in Jobs |-> "none"]
    /\ dispatched = [j \in Jobs |-> 0]
    /\ faults = 0

-----------------------------------------------------------------------------
(* HTTP handlers.  Handlers keep running while kojid drains; only new     *)
(* requests are refused then.                                             *)

Serving == kojid \in {"up", "draining"}

Goto(r, step) == pc' = [pc EXCEPT ![r] = step]

Respond(r, code) ==
    /\ pc' = [pc EXCEPT ![r] = "done"]
    /\ answer' = [answer EXCEPT ![r] = code]

\* audit.Store.Record: one INSERT; rows are never changed afterwards.
Record(action, j, target, detail, r) ==
    audit' = audit \cup {[action |-> action, job |-> j, target |-> target,
                          detail |-> detail, by |-> r]}

\* handleServiceControl up to its first change of the database: capability,
\* validation, allowlist.  The capability check reads another table; its
\* outcome is an input here.  (The bound: no more such requests than job ids.)
ArriveControl(r) ==
    /\ kojid = "up" /\ pc[r] = "new"
    /\ "control" \in RequestKinds
    /\ Cardinality({q \in Requests : kind[q] = "control"}) < Cardinality(Jobs)
    /\ \E s \in Services, in \in Inputs \cap {"granted", "denied"} :
          /\ kind' = [kind EXCEPT ![r] = "control"]
          /\ service' = [service EXCEPT ![r] = s]
          /\ Goto(r, IF in = "denied" THEN "capDenied"
                     ELSE IF s \notin ValidServices THEN "intentRejected"
                     ELSE IF s \notin DaemonAllowlist THEN "notAllowlisted"
                     ELSE "insert")
    /\ UNCHANGED <<jobVars, audit, about, seen, answer, kojid, workerVars, agentVars, faults>>

\* requireJobApproval, then readJobDecisionReason: a body that is malformed or
\* too long answers 400 before anything is changed.
ArriveDecision(r) ==
    /\ kojid = "up" /\ pc[r] = "new"
    /\ \E k \in RequestKinds \cap {"approve", "reject"}, j \in Jobs :
          /\ kind' = [kind EXCEPT ![r] = k]
          /\ about' = [about EXCEPT ![r] = j]
          /\ \/ "granted" \in Inputs /\ Goto(r, "update") /\ UNCHANGED answer
             \/ "denied" \in Inputs /\ Goto(r, "capDenied") /\ UNCHANGED answer
             \/ "malformed" \in Inputs /\ Respond(r, 400)
    /\ UNCHANGED <<jobVars, audit, service, seen, kojid, workerVars, agentVars, faults>>

\* handleJobDetail.
ArriveDetail(r) ==
    /\ kojid = "up" /\ pc[r] = "new"
    /\ "detail" \in RequestKinds
    /\ \E j \in Jobs, in \in Inputs \cap {"granted", "denied"} :
          /\ kind' = [kind EXCEPT ![r] = "detail"]
          /\ about' = [about EXCEPT ![r] = j]
          /\ Goto(r, IF in = "granted" THEN "get" ELSE "capDenied")
    /\ UNCHANGED <<jobVars, audit, service, seen, answer, kojid, workerVars, agentVars, faults>>

\* recordCapabilityDenied; a detail request is then refused, the others first
\* record what was intended.
AuditCapabilityDenied(r) ==
    /\ Serving /\ pc[r] = "capDenied"
    /\ Record("capability.denied", about[r],
              IF kind[r] = "control" THEN "service" ELSE "job", "capability_denied", r)
    /\ \/ kind[r] = "detail" /\ Respond(r, 403)
       \/ kind[r] # "detail" /\ Goto(r, "intentDenied") /\ UNCHANGED answer
    /\ UNCHANGED <<jobVars, kind, about, service, seen, kojid, workerVars, agentVars, faults>>

\* The three refusals of handleServiceControl and the one of
\* handleJobApprovalCapabilityError: one audit row, then the answer.
AuditRefusedIntent(r) ==
    /\ Serving
    /\ \/ /\ pc[r] = "intentDenied" /\ kind[r] = "control"
          /\ Record("service.control", NoJob, "service", "capability_denied", r)
          /\ Respond(r, 403)
       \/ /\ pc[r] = "intentDenied" /\ kind[r] # "control"
          /\ Record("job.approval_denied", about[r], "job", "capability_denied", r)
          /\ Respond(r, 403)
       \/ /\ pc[r] = "intentRejected"
          /\ Record("service.control", NoJob, "service", "invalid_service_name", r)
          /\ Respond(r, 400)
       \/ /\ pc[r] = "notAllowlisted"
          /\ Record("service.control", NoJob, "service", "service_not_allowlisted", r)
          /\ Respond(r, 403)
    /\ UNCHANGED <<jobVars, kind, about, service, seen, kojid, workerVars, agentVars, faults>>

\* jobs.Store.Create: a random id, a creation stamp taken some time before the
\* INSERT got the connection, and the queued row.
InsertRow(r, j, at) ==
    /\ status' = [status EXCEPT ![j] = "queued"]
    /\ reason' = [reason EXCEPT ![j] = "pending_approval"]
    /\ created' = [created EXCEPT ![j] = [at |-> at, service |-> service[r], by |-> r]]

InsertJob(r) ==
    /\ Serving /\ pc[r] = "insert"
    /\ \E j \in Jobs, at \in Stamps :
          /\ status[j] = "absent"
          /\ InsertRow(r, j, at)
          /\ about' = [about EXCEPT ![r] = j]
          /\ seen' = [seen EXCEPT ![r] = "queued"]
    /\ Goto(r, "auditCreated")
    /\ UNCHANGED <<approvedBy, rejectedBy, audit, kind, service, answer,
                   kojid, workerVars, agentVars, faults>>

\* recordJobCreated names the service and action as its target, not the job.
AuditCreated(r) ==
    /\ Serving /\ pc[r] = "auditCreated"
    /\ Record("job.created", about[r], "service", seen[r], r)
    /\ Goto(r, "auditStatus")
    /\ UNCHANGED <<jobVars, kind, about, service, seen, answer, kojid, workerVars, agentVars, faults>>

\* Faulty variant: the UPDATE forgets "AND status = 'queued'".
UpdateQueuedUnguarded(r, j) ==
    /\ status[j] # "absent"
    /\ \/ /\ kind[r] = "approve"
          /\ status' = [status EXCEPT ![j] = "approved"]
          /\ reason' = [reason EXCEPT ![j] = "approved"]
          /\ approvedBy' = [approvedBy EXCEPT ![j] = r]
          /\ UNCHANGED rejectedBy
       \/ /\ kind[r] = "reject"
          /\ status' = [status EXCEPT ![j] = "rejected"]
          /\ reason' = [reason EXCEPT ![j] = "rejected"]
          /\ rejectedBy' = [rejectedBy EXCEPT ![j] = r]
          /\ UNCHANGED approvedBy

\* updateQueuedJob with approvalDecision or rejectionDecision: one conditional
\* UPDATE, which changes the row only while it is queued.
UpdateQueued(r, j) ==
    /\ status[j] = "queued"
    /\ \/ /\ kind[r] = "approve"
          /\ status' = [status EXCEPT ![j] = "approved"]
          /\ reason' = [reason EXCEPT ![j] = "approved"]
          /\ approvedBy' = [approvedBy EXCEPT ![j] = r]
          /\ UNCHANGED rejectedBy
       \/ /\ kind[r] = "reject"
          /\ status' = [status EXCEPT ![j] = "rejected"]
          /\ reason' = [reason EXCEPT ![j] = "rejected"]
          /\ rejectedBy' = [rejectedBy EXCEPT ![j] = r]
          /\ UNCHANGED approvedBy

\* Faulty variant: rows affected is not looked at.
DecideJobIgnoringAffected(r) ==
    /\ Serving /\ pc[r] = "update"
    /\ Goto(r, "get")
    /\ \/ UpdateQueued(r, about[r])
       \/ status[about[r]] # "queued" /\ UNCHANGED <<status, reason, approvedBy, rejectedBy>>
    /\ UNCHANGED <<created, audit, kind, about, service, seen, answer,
                   kojid, workerVars, agentVars, faults>>

\* Faulty variant: one affected row is taken for none.
DecideJobMisreadingAffected(r) ==
    /\ Serving /\ pc[r] = "update"
    /\ Goto(r, "recheck")
    /\ \/ UpdateQueued(r, about[r])
       \/ status[about[r]] # "queued" /\ UNCHANGED <<status, reason, approvedBy, rejectedBy>>
    /\ UNCHANGED <<created, audit, kind, about, service, seen, answer,
                   kojid, workerVars, agentVars, faults>>

DecideJob(r) ==
    /\ Serving /\ pc[r] = "update"
    /\ \/ UpdateQueued(r, about[r]) /\ Goto(r, "get")
       \/ /\ status[about[r]] # "queued"
          /\ Goto(r, "recheck")
          /\ UNCHANGED <<status, reason, approvedBy, rejectedBy>>
    /\ UNCHANGED <<created, audit, kind, about, service, seen, answer,
                   kojid, workerVars, agentVars, faults>>

\* missingOrInvalidTransition: a second look decides between 404 and 409.
RecheckJob(r) ==
    /\ Serving /\ pc[r] = "recheck"
    /\ \/ /\ status[about[r]] = "absent"
          /\ Respond(r, 404)
       \/ /\ status[about[r]] # "absent"
          /\ Goto(r, "auditConflict") /\ UNCHANGED answer
    /\ UNCHANGED <<jobVars, audit, kind, about, service, seen, kojid, workerVars, agentVars, faults>>

AuditConflict(r) ==
    /\ Serving /\ pc[r] = "auditConflict"
    /\ Record("job.approval_denied", about[r], "job", "invalid_status", r)
    /\ Respond(r, 409)
    /\ UNCHANGED <<jobVars, kind, about, service, seen, kojid, workerVars, agentVars, faults>>

\* Faulty variant: the row loaded before the decision is handed on.
GetJobLoadedBefore(r) ==
    /\ Serving /\ pc[r] = "get" /\ status[about[r]] # "absent"
    /\ seen' = [seen EXCEPT ![r] = IF kind[r] = "detail" THEN status[about[r]] ELSE "queued"]
    /\ Goto(r, IF kind[r] = "detail" THEN "auditViewed" ELSE "auditDecision")
    /\ UNCHANGED <<jobVars, audit, kind, about, service, answer, kojid, workerVars, agentVars, faults>>

\* jobs.Store.Get, after a decision or for a detail request: the row as it is
\* now, which for a decision may be later than what the decision wrote.
GetJob(r) ==
    /\ Serving /\ pc[r] = "get"
    /\ \/ /\ status[about[r]] = "absent"
          /\ Respond(r, 404) /\ UNCHANGED seen
       \/ /\ status[about[r]] # "absent"
          /\ seen' = [seen EXCEPT ![r] = status[about[r]]]
          /\ Goto(r, IF kind[r] = "detail" THEN "auditViewed" ELSE "auditDecision")
          /\ UNCHANGED answer
    /\ UNCHANGED <<jobVars, audit, kind, about, service, kojid, workerVars, agentVars, faults>>

\* recordJobDecision writes the status it was given by Get.
AuditDecision(r) ==
    /\ Serving /\ pc[r] = "auditDecision"
    /\ Record(IF kind[r] = "approve" THEN "job.approved" ELSE "job.rejected",
              about[r], "job", seen[r], r)
    /\ Goto(r, "auditStatus")
    /\ UNCHANGED <<jobVars, kind, about, service, seen, answer, kojid, workerVars, agentVars, faults>>

\* recordJobStatusChanged, the last step of creations and decisions.
AuditStatus(r) ==
    /\ Serving /\ pc[r] = "auditStatus"
    /\ Record("job.status_changed", about[r],
              IF kind[r] = "control" THEN "service" ELSE "job", seen[r], r)
    /\ Respond(r, IF kind[r] = "control" THEN 202 ELSE 200)
    /\ UNCHANGED <<jobVars, kind, about, service, seen, kojid, workerVars, agentVars, faults>>

AuditViewed(r) ==
    /\ Serving /\ pc[r] = "auditViewed"
    /\ Record("job.viewed", about[r], "job", "jobs_read", r)
    /\ Respond(r, 200)
    /\ UNCHANGED <<jobVars, kind, about, service, seen, kojid, workerVars, agentVars, faults>>

\* Faulty variant: audit errors are ignored, as recordAuthAudit ignores them.
StatementFailsUnnoticed(r) ==
    /\ Serving /\ pc[r] \in StatementSteps
    /\ faults < MaxFaults /\ faults' = faults + 1
    /\ \/ pc[r] = "auditCreated" /\ Goto(r, "auditStatus") /\ UNCHANGED answer
       \/ pc[r] # "auditCreated" /\ Respond(r, 500)
    /\ UNCHANGED <<jobVars, audit, kind, about, service, seen, kojid, workerVars, agentVars>>

\* The statement the handler is at fails (the client went away and cancelled
\* the request's context, or SQLite reports an error): the handler answers 500
\* and what it already wrote stays.
StatementFails(r) ==
    /\ Serving /\ pc[r] \in StatementSteps
    /\ faults < MaxFaults /\ faults' = faults + 1
    /\ Respond(r, 500)
    /\ UNCHANGED <<jobVars, audit, kind, about, service, seen, kojid, workerVars, agentVars>>

RequestStep(r) ==
    \/ AuditCapabilityDenied(r) \/ AuditRefusedIntent(r)
    \/ InsertJob(r) \/ AuditCreated(r)
    \/ DecideJob(r) \/ RecheckJob(r) \/ AuditConflict(r)
    \/ GetJob(r) \/ AuditDecision(r) \/ AuditStatus(r) \/ AuditViewed(r)

-----------------------------------------------------------------------------
(* The worker: one goroutine, one job at a time.  Its context is cancelled *)
(* as soon as kojid starts to drain, so its statements succeed only while  *)
(* kojid is up.                                                            *)

\* formatTime writes RFC3339Nano, which drops trailing zeros: a whole second
\* ends in "Z" right after the seconds and, "Z" being greater than ".", sorts
\* after every fraction of that second.  Times here are half seconds.
TextKey(t) == IF t % 2 = 0 THEN t + 1 ELSE t - 1

\* Faulty variant: ORDER BY created_at DESC.
ClaimsNewestFirst(i, j) ==
    \/ TextKey(created[i].at) > TextKey(created[j].at)
    \/ TextKey(created[i].at) = TextKey(created[j].at) /\ i <= j

ClaimsBefore(i, j) ==
    \/ TextKey(created[i].at) < TextKey(created[j].at)
    \/ TextKey(created[i].at) = TextKey(created[j].at) /\ i <= j

\* Faulty variant: undecided jobs are claimed too.
ClaimableUndecided(j) ==
    /\ status[j] \in {"queued", "approved"}
    /\ \A i \in Jobs : status[i] = "approved" => ClaimsBefore(j, i)

\* ClaimApproved: the UPDATE ... RETURNING of claimApprovedSQL.
Claimable(j) ==
    /\ status[j] = "approved"
    /\ \A i \in Jobs : status[i] = "approved" => ClaimsBefore(j, i)

WorkerClaim ==
    /\ kojid = "up" /\ wpc = "poll"
    /\ \E j \in Jobs :
          /\ Claimable(j)
          /\ status' = [status EXCEPT ![j] = "running"]
          /\ reason' = [reason EXCEPT ![j] = "running"]
          /\ wjob' = j
    /\ wpc' = "auditStarted"
    /\ UNCHANGED <<created, approvedBy, rejectedBy, audit, requestVars, kojid,
                   wres, agentVars, faults>>

\* ErrNoApprovedJobs: the worker waits for the next tick.
WorkerIdles ==
    /\ kojid = "up" /\ wpc = "poll"
    /\ \A j \in Jobs : status[j] # "approved"
    /\ UNCHANGED vars

\* recordJobEvent for the claimed job, under the id of the creating request.
RecordJobEvent(action, detail) == Record(action, wjob, "job", detail, created[wjob].by)

WorkerAuditStarted ==
    /\ kojid = "up" /\ wpc = "auditStarted"
    /\ RecordJobEvent("job.started", "running")
    /\ wpc' = "dial"
    /\ UNCHANGED <<jobVars, requestVars, kojid, wjob, wres, agentVars, faults>>

\* Client.dial: connected and the request written; or the agent is not there or
\* the context is cancelled; or the agent does not accept within the timeout.
Send(j) ==
    /\ cmd' = [cmd EXCEPT ![j] = "received"]
    /\ dispatched' = [dispatched EXCEPT ![j] = @ + 1]

WorkerDial ==
    /\ Serving /\ wpc = "dial"
    /\ \/ /\ kojid = "up" /\ agent # "down"
          /\ Send(wjob)
          /\ wpc' = "waiting" /\ UNCHANGED wres
       \/ /\ kojid = "draining" \/ agent = "down"
          /\ wpc' = "finish" /\ wres' = "agent_unavailable"
          /\ UNCHANGED <<cmd, dispatched>>
       \/ /\ kojid = "up" /\ agent # "down"
          /\ wpc' = "finish" /\ wres' = "command_timeout"
          /\ UNCHANGED <<cmd, dispatched>>
    /\ UNCHANGED <<jobVars, audit, requestVars, kojid, wjob, agent, faults>>

\* Faulty variant: reasons are passed through unmapped.
ResultOfUnmapped(c) == IF c = "ok" THEN "completed" ELSE c

\* Faulty variant: a broken connection is taken for a failed command.
ResultOfLostAsFailed(c) ==
    CASE c = "ok" -> "completed"
      [] c \in {"truncated", "failed", "lost"} -> "command_failed"
      [] c = "timeout" -> "command_timeout"
      [] OTHER -> c

\* commandFailureReason, then responseError, then applyAgentError: what the
\* worker makes of the end of a command.
ResultOf(c) ==
    CASE c = "ok" -> "completed"
      [] c \in {"truncated", "failed"} -> "command_failed"
      [] c = "timeout" -> "command_timeout"
      [] c = "lost" -> "agent_unavailable"
      [] OTHER -> c

\* Faulty variant: one connection for all calls, so a late reply answers the next one.
WorkerReceiveAnyReply ==
    /\ Serving /\ wpc = "waiting"
    /\ \E j \in Jobs : /\ cmd[j] \notin InFlight \cup {"none"}
                       /\ wres' = ResultOf(cmd[j])
    /\ wpc' = "finish"
    /\ UNCHANGED <<jobVars, audit, requestVars, kojid, wjob, agentVars, faults>>

\* Client.call reads the response, or the end of a broken connection.
WorkerReceive ==
    /\ Serving /\ wpc = "waiting"
    /\ cmd[wjob] \notin InFlight
    /\ wpc' = "finish" /\ wres' = ResultOf(cmd[wjob])
    /\ UNCHANGED <<jobVars, audit, requestVars, kojid, wjob, agentVars, faults>>

\* Faulty variant: the deadline bounds the dial, not the reply.
WorkerTimeoutOfDial ==
    /\ Serving /\ wpc = "dial"
    /\ wpc' = "finish" /\ wres' = "command_timeout"
    /\ UNCHANGED <<jobVars, audit, requestVars, kojid, wjob, agentVars, faults>>

\* The client's deadline (2s by default) passes.  The agent is not told: its
\* own limit for the command (3s by default) is longer.
WorkerTimeout ==
    /\ Serving /\ wpc = "waiting"
    /\ wpc' = "finish" /\ wres' = "command_timeout"
    /\ UNCHANGED <<jobVars, audit, requestVars, kojid, wjob, agentVars, faults>>

\* finishRunning: UPDATE ... WHERE status = 'running', and Get.  Nothing changes
\* a finished row, so the row read back is the row written.
WorkerFinish ==
    /\ kojid = "up" /\ wpc = "finish"
    /\ status[wjob] = "running"
    /\ status' = [status EXCEPT ![wjob] = IF wres = "completed" THEN "completed" ELSE "failed"]
    /\ reason' = [reason EXCEPT ![wjob] = wres]
    /\ wpc' = "auditOutcome"
    /\ UNCHANGED <<created, approvedBy, rejectedBy, audit, requestVars, kojid,
                   wjob, wres, agentVars, faults>>

\* markCompleted and applyAgentError choose the action by the result.
OutcomeAction(result) ==
    CASE result = "completed" -> "job.completed"
      [] result = "mutation_disabled" -> "job.mutation_disabled"
      [] result = "command_failed" -> "job.command_failed"
      [] result = "command_timeout" -> "job.command_timeout"
      [] OTHER -> "job.failed"

WorkerAuditOutcome ==
    /\ kojid = "up" /\ wpc = "auditOutcome"
    /\ RecordJobEvent(OutcomeAction(wres), wres)
    /\ wpc' = "auditStatus"
    /\ UNCHANGED <<jobVars, requestVars, kojid, wjob, wres, agentVars, faults>>

WorkerAuditStatus ==
    /\ kojid = "up" /\ wpc = "auditStatus"
    /\ RecordJobEvent("job.status_changed", wres)
    /\ wpc' = "poll" /\ wjob' = NoJob /\ wres' = "none"
    /\ UNCHANGED <<jobVars, requestVars, kojid, agentVars, faults>>

\* A statement fails because the context is cancelled, or for another reason:
\* ProcessOne returns the error and Start ends.
WorkerFails ==
    /\ wpc \in WorkerStatementSteps
    /\ \/ kojid = "draining" /\ UNCHANGED faults
       \/ kojid = "up" /\ faults < MaxFaults /\ faults' = faults + 1
    /\ wpc' = "stopped"
    /\ UNCHANGED <<jobVars, audit, requestVars, kojid, wjob, wres, agentVars>>

WorkerStep ==
    \/ WorkerClaim \/ WorkerAuditStarted \/ WorkerDial \/ WorkerReceive
    \/ WorkerFinish \/ WorkerAuditOutcome \/ WorkerAuditStatus

-----------------------------------------------------------------------------
(* koji-agent.  A connection is a goroutine that runs its command under    *)
(* context.Background(), whether or not the client still waits.            *)

\* Executor.ControlService: mutation switch, then allowlist, then the command.
AgentDecide(j) ==
    /\ agent # "down" /\ cmd[j] = "received"
    /\ cmd' = [cmd EXCEPT ![j] =
          IF agent = "disabled" THEN "mutation_disabled"
          ELSE IF created[j].service \notin AgentAllowlist THEN "service_not_allowlisted"
          ELSE "running"]
    /\ UNCHANGED <<jobVars, audit, requestVars, kojid, workerVars, agent, dispatched, faults>>

\* Runner.Run returns: success, success with too much output, failure, or killed
\* at the time limit.
AgentCommandEnds(j) ==
    /\ agent # "down" /\ cmd[j] = "running"
    /\ \E c \in {"ok", "truncated", "failed", "timeout"} : cmd' = [cmd EXCEPT ![j] = c]
    /\ UNCHANGED <<jobVars, audit, requestVars, kojid, workerVars, agent, dispatched, faults>>

\* The agent exits, by a crash or by a signal (it does not wait for commands).
AgentStops ==
    /\ agent # "down"
    /\ faults < MaxFaults /\ faults' = faults + 1
    /\ agent' = "down"
    /\ cmd' = [j \in Jobs |-> IF cmd[j] \in InFlight THEN "lost" ELSE cmd[j]]
    /\ UNCHANGED <<jobVars, audit, requestVars, kojid, workerVars, dispatched>>

\* It starts again and reads agent.yaml, which may have been edited.
AgentStarts ==
    /\ agent = "down"
    /\ agent' \in AgentModes
    /\ UNCHANGED <<jobVars, audit, requestVars, kojid, workerVars, cmd, dispatched, faults>>

-----------------------------------------------------------------------------
(* The kojid process. *)

\* Everything in memory is gone: handlers end unanswered, the worker with them.
LoseMemory ==
    /\ pc' = [r \in Requests |-> IF pc[r] = "new" THEN "new" ELSE "done"]
    /\ wpc' = "stopped" /\ wjob' = NoJob /\ wres' = "none"

\* Killed, panicked or out of power.
KojidCrashes ==
    /\ Serving
    /\ faults < MaxFaults /\ faults' = faults + 1
    /\ kojid' = "failed"
    /\ LoseMemory
    /\ UNCHANGED <<jobVars, audit, kind, about, service, seen, answer, agentVars>>

\* Faulty variant: only a draining kojid looks at the worker's error.
KojidExitsOnWorkerErrorLate ==
    /\ kojid = "draining" /\ wpc = "stopped"
    /\ kojid' = "failed"
    /\ LoseMemory
    /\ UNCHANGED <<jobVars, audit, kind, about, service, seen, answer, agentVars, faults>>

\* run() returns the error of the worker; the process exits.
KojidExitsOnWorkerError ==
    /\ kojid = "up" /\ wpc = "stopped"
    /\ kojid' = "failed"
    /\ LoseMemory
    /\ UNCHANGED <<jobVars, audit, kind, about, service, seen, answer, agentVars, faults>>

\* SIGTERM: the worker's context is cancelled at once, then Shutdown drains.
KojidTerminated ==
    /\ kojid = "up"
    /\ faults < MaxFaults /\ faults' = faults + 1
    /\ kojid' = "draining"
    /\ UNCHANGED <<jobVars, audit, requestVars, workerVars, agentVars>>

\* Shutdown returns, drained or after 15s; nothing waits for the worker.
KojidDrained ==
    /\ kojid = "draining"
    /\ kojid' = "off"
    /\ LoseMemory
    /\ UNCHANGED <<jobVars, audit, kind, about, service, seen, answer, agentVars, faults>>

\* Faulty variant: startup puts running jobs back in line.
KojidStartsRequeueing ==
    /\ kojid \in {"failed", "off"}
    /\ kojid' = "up"
    /\ wpc' = "poll"
    /\ status' = [j \in Jobs |-> IF status[j] = "running" THEN "approved" ELSE status[j]]
    /\ UNCHANGED <<reason, created, approvedBy, rejectedBy, audit, requestVars,
                   wjob, wres, agentVars, faults>>

\* systemd restarts a failed kojid; an operator starts a stopped one.  Startup
\* looks at no job: a row left running stays so.
KojidStarts ==
    /\ kojid \in {"failed", "off"}
    /\ kojid' = "up"
    /\ wpc' = "poll"
    /\ UNCHANGED <<jobVars, audit, requestVars, wjob, wres, agentVars, faults>>

-----------------------------------------------------------------------------
Next ==
    \/ \E r \in Requests :
          \/ ArriveControl(r) \/ ArriveDecision(r) \/ ArriveDetail(r)
          \/ RequestStep(r) \/ StatementFails(r)
    \/ WorkerStep \/ WorkerIdles \/ WorkerTimeout \/ WorkerFails
    \/ \E j \in Jobs : AgentDecide(j) \/ AgentCommandEnds(j)
    \/ AgentStops \/ AgentStarts
    \/ KojidCrashes \/ KojidExitsOnWorkerError \/ KojidTerminated \/ KojidDrained \/ KojidStarts

Spec == Init /\ [][Next]_vars

\* Handlers and the worker are goroutines the Go scheduler runs; the deadline of
\* the client's connection passes; systemd restarts a kojid that failed
\* (Restart=on-failure), but starts nothing that was stopped on purpose.  Of the
\* agent nothing is assumed: it may never decide, a command may never end (its
\* children can keep the pipes of Runner.Run open), and no one need start it
\* again.  Requests, faults and signals come when they come.
Fairness ==
    /\ \A r \in Requests : WF_vars(RequestStep(r))
    /\ WF_vars(WorkerStep)
    /\ WF_vars(WorkerTimeout)
    /\ WF_vars(WorkerFails /\ kojid = "draining")
    /\ WF_vars(KojidExitsOnWorkerError)
    /\ WF_vars(KojidDrained)
    /\ WF_vars(kojid = "failed" /\ KojidStarts)

FairSpec == Spec /\ Fairness

-----------------------------------------------------------------------------
(* Properties *)

\* The columns, handler positions, worker, agent and process states have the
\* values the code gives them.
TypeOK ==
    /\ status \in [Jobs -> Statuses]
    /\ reason \in [Jobs -> Reasons]
    /\ created \in [Jobs -> Row \cup {NoRow}]
    /\ approvedBy \in [Jobs -> Requests \cup {NoRequest}]
    /\ rejectedBy \in [Jobs -> Requests \cup {NoRequest}]
    /\ audit \subseteq Event
    /\ pc \in [Requests -> RequestSteps]
    /\ kind \in [Requests -> Kinds \cup {"none"}]
    /\ about \in [Requests -> Jobs \cup {NoJob}]
    /\ service \in [Requests -> Services \cup {"none"}]
    /\ seen \in [Requests -> Statuses]
    /\ answer \in [Requests -> Answers]
    /\ kojid \in {"up", "draining", "failed", "off"}
    /\ wpc \in WorkerSteps
    /\ wjob \in Jobs \cup {NoJob}
    /\ wres \in FailureReasons \cup {"none", "completed"}
    /\ agent \in {"down", "disabled", "enabled"}
    /\ cmd \in [Jobs -> Commands]
    /\ dispatched \in [Jobs -> Nat]
    /\ faults \in 0..MaxFaults

\* The pipeline implements the lifecycle of JobLifecycle: one decision, one
\* claim, at most one command, completed only after a confirmed effect.
EffectOf(c) ==
    CASE c = "none" -> "none"
      [] c \in InFlight -> "sent"
      [] c \in {"ok", "truncated"} -> "applied"
      [] OTHER -> "unconfirmed"

Lifecycle == INSTANCE JobLifecycle WITH
                 status <- status, effect <- [j \in Jobs |-> EffectOf(cmd[j])]

ImplementsLifecycle == Lifecycle!Spec

\* Whatever reaches the agent was approved by a human decision that stands (it
\* is not also rejected), and the claim was audited before the agent was called.
EffectsAreAuthorised ==
    \A j \in Jobs : cmd[j] # "none" =>
        /\ approvedBy[j] \in Requests /\ kind[approvedBy[j]] = "approve"
        /\ rejectedBy[j] = NoRequest
        /\ \E e \in audit : e.action = "job.started" /\ e.job = j

\* No crash, restart, timeout or failed statement makes the worker send a job to
\* the agent a second time.
AtMostOneDispatch == \A j \in Jobs : dispatched[j] <= 1

\* From its claim to its final UPDATE the worker's job stays running, so the
\* conditional UPDATE of updateRunningJob always finds its row.
WorkerHoldsItsJob ==
    wpc \in {"auditStarted", "dial", "waiting", "finish"} =>
        wjob \in Jobs /\ status[wjob] = "running"

\* The outcome written to the row is what happened on the host: completed only
\* for a command that succeeded, command_failed only for one that ended, a refusal
\* only for one that never ran, agent_unavailable only for one never confirmed.
\* Nothing can be said for command_timeout.
OutcomesAreTruthful ==
    \A j \in Jobs :
        /\ reason[j] = "completed" => cmd[j] = "ok"
        /\ reason[j] = "command_failed" => cmd[j] \in {"failed", "truncated"}
        /\ reason[j] \in {"mutation_disabled", "service_not_allowlisted"} => cmd[j] = reason[j]
        /\ reason[j] = "agent_unavailable" => cmd[j] \in {"none", "lost"}

\* An audit row never tells of something that did not happen or was undone: the
\* decision it names is the one in the job row, the outcome is the row's outcome.
AuditNeverLies ==
    \A e \in audit :
        /\ e.action = "job.approved" => approvedBy[e.job] = e.by
        /\ e.action = "job.rejected" => rejectedBy[e.job] = e.by /\ status[e.job] = "rejected"
        /\ e.action = "job.started" => status[e.job] \in {"running", "completed", "failed"}
        /\ e.action = "job.completed" => status[e.job] = "completed"
        /\ e.action \in {"job.failed", "job.mutation_disabled",
                         "job.command_failed", "job.command_timeout"}
              => status[e.job] = "failed" /\ reason[e.job] = e.detail

\* The status told with a decision, in its audit row, is read after the decision
\* was written, when the job may have gone on: it is a status that the decision
\* led to, and the job has come to it.
ToldStatusWasReached ==
    \A e \in audit :
        /\ e.action = "job.rejected" => e.detail = "rejected"
        /\ e.action = "job.approved" =>
              /\ e.detail \in {"approved", "running", "completed", "failed"}
              /\ e.detail # "approved" => status[e.job] # "approved"
              /\ e.detail \in Terminal => status[e.job] = e.detail

\* A client that was told 202 or 200 has a job created or decided by its request,
\* and both audit rows of the change are stored.
SuccessIsAudited ==
    \A r \in Requests : answer[r] \in {200, 202} /\ kind[r] # "detail" =>
        /\ \/ kind[r] = "control" /\ created[about[r]].by = r
           \/ kind[r] = "approve" /\ approvedBy[about[r]] = r
           \/ kind[r] = "reject" /\ rejectedBy[about[r]] = r
        /\ \E e \in audit : /\ e.action \in {"job.created", "job.approved", "job.rejected"}
                            /\ e.by = r /\ e.job = about[r]
        /\ \E e \in audit : e.action = "job.status_changed" /\ e.by = r /\ e.job = about[r]

\* A request that was refused (400, 403, 404 or 409) changed no job.  A 409 can be
\* wrong about why, never about that.
RefusalsAreInert ==
    \A r \in Requests : answer[r] \in {400, 403, 404, 409} =>
        \A j \in Jobs : created[j].by # r /\ approvedBy[j] # r /\ rejectedBy[j] # r

\* The job claimed was created no later, to the second, than any other approved
\* job.  Within one second the text order of formatTime is not the order in time.
ClaimsOldestSecond ==
    [][\A i, j \in Jobs :
          /\ status[j] = "approved" /\ status'[j] = "running"
          /\ status[i] = "approved"
          => created[j].at \div 2 <= created[i].at \div 2]_vars

\* An approved job is eventually claimed, through crashes and failed statements,
\* unless kojid was stopped on purpose.
ApprovedIsClaimed ==
    \A j \in Jobs : status[j] = "approved" ~> (status[j] # "approved" \/ kojid = "off")

Owned(j) == kojid = "up" /\ wjob = j /\ wpc # "stopped"

\* A worker that lives finishes the job it claimed, whatever the agent does: the
\* deadline of the connection ends the wait for an agent that never answers.
ClaimedJobSettles ==
    \A j \in Jobs : (status[j] = "running" /\ Owned(j)) ~> (status[j] \in Terminal \/ ~Owned(j))

-----------------------------------------------------------------------------
(* What the documentation says and the code does not do *)

\* docs: worker transitions are audited.  Stated once the worker is looking for
\* its next job, so that it is not merely on its way to the audit INSERT.
WorkerTransitionsAudited ==
    wpc = "poll" =>
        \A j \in Jobs :
            /\ status[j] \in {"running", "completed", "failed"} =>
                  \E e \in audit : e.action = "job.started" /\ e.job = j
            /\ status[j] \in {"completed", "failed"} =>
                  \E e \in audit : e.action = OutcomeAction(reason[j]) /\ e.job = j

\* docs: the intent of an approved job survives a restart of the daemon.
RunningJobsFinish ==
    \A j \in Jobs : status[j] = "running" ~> status[j] \in Terminal
=============================================================================
