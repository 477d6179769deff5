-------------------------- MODULE JobControlProofs --------------------------
(***************************************************************************)
(* Safety of JobControl for every set of jobs and requests and any number  *)
(* of faults.                                                              *)
(***************************************************************************)
EXTENDS JobControl, TLAPS

-----------------------------------------------------------------------------
(* The inductive invariant *)

Started(j) == \E e \in audit : e.action = "job.started" /\ e.job = j

\* A row that exists has its creation columns.
RowInv ==
    \A j \in Jobs : /\ status[j] # "absent" => created[j] \in Row
                    /\ status[j] = "absent" => created[j] = NoRow

\* What a handler knows at the positions where it uses it.
HandlerInv ==
    \A r \in Requests :
        /\ pc[r] = "insert" => service[r] \in Services
        /\ pc[r] \in {"insert", "auditCreated"} => kind[r] = "control"
        /\ pc[r] \in {"update", "auditDecision"} => kind[r] \in {"approve", "reject"}
        /\ pc[r] = "get" => kind[r] \in {"approve", "reject", "detail"}
        /\ pc[r] = "auditViewed" => kind[r] = "detail"
        /\ pc[r] = "auditStatus" => kind[r] \in {"control", "approve", "reject"}
        /\ pc[r] \in {"update", "recheck", "get", "auditDecision", "auditConflict",
                      "auditCreated", "auditStatus"} => about[r] \in Jobs

\* The decision columns and the status tell the same story.
DecisionInv ==
    \A j \in Jobs :
        /\ approvedBy[j] \in Requests <=>
              status[j] \in {"approved", "running", "completed", "failed"}
        /\ rejectedBy[j] \in Requests <=> status[j] = "rejected"
        /\ approvedBy[j] \in Requests =>
              kind[approvedBy[j]] = "approve" /\ pc[approvedBy[j]] # "new"

\* The worker's job, from its claim to the last audit row.
WorkerInv ==
    /\ WorkerHoldsItsJob
    /\ wpc \in {"auditOutcome", "auditStatus"} =>
           wjob \in Jobs /\ status[wjob] \in {"completed", "failed"}

\* A job is sent only after its claim is audited, and the worker has not sent
\* the job it is about to send.
DispatchInv ==
    /\ \A j \in Jobs :
          /\ dispatched[j] = IF cmd[j] = "none" THEN 0 ELSE 1
          /\ cmd[j] # "none" => /\ status[j] \in {"running", "completed", "failed"}
                                /\ Started(j)
    /\ wpc \in {"auditStarted", "dial"} => cmd[wjob] = "none"
    /\ wpc = "dial" => Started(wjob)
    /\ wpc = "waiting" => cmd[wjob] # "none"

\* Result res is true of command c.
Truthful(res, c) ==
    /\ res = "completed" => c = "ok"
    /\ res = "command_failed" => c \in {"failed", "truncated"}
    /\ res \in {"mutation_disabled", "service_not_allowlisted"} => c = res
    /\ res = "agent_unavailable" => c \in {"none", "lost"}

OutcomeInv ==
    /\ wpc = "finish" => wres # "none" /\ Truthful(wres, cmd[wjob])
    /\ \A j \in Jobs :
          /\ Truthful(reason[j], cmd[j])
          /\ reason[j] \in FailureReasons \cup {"completed"} => status[j] \in {"completed", "failed"}

\* Audit rows about a decision or an outcome name a job, and what the handlers
\* and the worker are about to record is true.
Telling == {"job.approved", "job.rejected", "job.started", "job.completed", "job.failed",
            "job.mutation_disabled", "job.command_failed", "job.command_timeout"}

RowsTell ==
    /\ AuditNeverLies
    /\ \A e \in audit : e.action \in Telling => e.job \in Jobs

AuditInv ==
    /\ RowsTell
    /\ wpc = "auditOutcome" =>
          /\ reason[wjob] = wres
          /\ status[wjob] = IF wres = "completed" THEN "completed" ELSE "failed"

\* Request r made the change it was sent for; it made none.
Owns(r) ==
    \/ kind[r] = "control" /\ created[about[r]].by = r
    \/ kind[r] = "approve" /\ approvedBy[about[r]] = r
    \/ kind[r] = "reject" /\ rejectedBy[about[r]] = r

Inert(r) == \A j \in Jobs : created[j].by # r /\ approvedBy[j] # r /\ rejectedBy[j] # r

\* The two audit rows of a successful change.
ChangeRecorded(r) ==
    \E e \in audit : /\ e.action \in {"job.created", "job.approved", "job.rejected"}
                     /\ e.by = r /\ e.job = about[r]

StatusRecorded(r) ==
    \E e \in audit : e.action = "job.status_changed" /\ e.by = r /\ e.job = about[r]

\* Positions before any change, and after one.
Before == {"new", "capDenied", "intentDenied", "intentRejected", "notAllowlisted",
           "insert", "update", "recheck", "auditConflict", "auditViewed"}
After == {"auditCreated", "auditDecision", "auditStatus"}

AnswerInvOf(q) ==
    /\ pc[q] \in Before \/ (pc[q] = "get" /\ kind[q] = "detail") => Inert(q)
    /\ pc[q] \in After \/ (pc[q] = "get" /\ kind[q] # "detail") => Owns(q)
    /\ pc[q] = "auditStatus" => ChangeRecorded(q)
    /\ answer[q] # 0 => pc[q] = "done"
    /\ answer[q] \in {400, 403, 404, 409} => Inert(q)
    /\ answer[q] \in {200, 202} /\ kind[q] # "detail" =>
          about[q] \in Jobs /\ Owns(q) /\ ChangeRecorded(q) /\ StatusRecorded(q)

AnswerInv == \A r \in Requests : AnswerInvOf(r)

IInv ==
    /\ TypeOK
    /\ RowInv
    /\ HandlerInv
    /\ DecisionInv
    /\ WorkerInv
    /\ DispatchInv
    /\ OutcomeInv
    /\ AuditInv
    /\ AnswerInv

-----------------------------------------------------------------------------
(* Lemmas about the values *)

\* Whatever the worker reports has an audit action and can be an audit detail.
LEMMA OutcomeActions ==
    \A x \in FailureReasons \cup {"none", "completed"} :
        OutcomeAction(x) \in Actions /\ x \in Details
  BY DEF FailureReasons, OutcomeAction, Actions, Details, Reasons

\* Recording keeps the audit table well formed and drops no row.
LEMMA RecordKeepsRows ==
    ASSUME NEW action \in Actions, NEW j \in Jobs \cup {NoJob}, NEW target \in {"job", "service"},
           NEW detail \in Details, NEW r \in Requests,
           audit \subseteq Event, Record(action, j, target, detail, r)
    PROVE  audit' \subseteq Event
  BY DEF Record, Event

\* The row is there afterwards.
LEMMA RecordAddsRow ==
    ASSUME NEW action, NEW j, NEW target, NEW detail, NEW r,
           Record(action, j, target, detail, r)
    PROVE  \E e \in audit' : e.action = action /\ e.job = j /\ e.by = r
  <1> DEFINE row == [action |-> action, job |-> j, target |-> target, detail |-> detail, by |-> r]
  <1>1. row \in audit' /\ row.action = action /\ row.job = j /\ row.by = r
    BY DEF Record
  <1>2. QED
    BY <1>1

\* Every step keeps the columns and the goroutine positions typed.
LEMMA TypeStep == IInv /\ [Next]_vars => TypeOK'
  <1> SUFFICES ASSUME IInv, [Next]_vars PROVE TypeOK'
    OBVIOUS
  <1> USE FaultsAssumption
      DEF TypeOK, jobVars, requestVars, workerVars, agentVars, Goto, Respond, LoseMemory
  <1>1. ASSUME NEW r \in Requests, ArriveControl(r) PROVE TypeOK'
    BY <1>1 DEF ArriveControl, IInv, RequestSteps, Kinds
  <1>2. ASSUME NEW r \in Requests, ArriveDecision(r) PROVE TypeOK'
    BY <1>2 DEF ArriveDecision, IInv, RequestSteps, Kinds, Answers
  <1>3. ASSUME NEW r \in Requests, ArriveDetail(r) PROVE TypeOK'
    BY <1>3 DEF ArriveDetail, IInv, RequestSteps, Kinds
  <1>4. ASSUME NEW r \in Requests, AuditCapabilityDenied(r) PROVE TypeOK'
    <2>1. audit' \subseteq Event
      BY <1>4, RecordKeepsRows DEF AuditCapabilityDenied, IInv, Actions, Details
    <2>2. QED
      BY <1>4, <2>1 DEF AuditCapabilityDenied, IInv, RequestSteps, Answers
  <1>5. ASSUME NEW r \in Requests, AuditRefusedIntent(r) PROVE TypeOK'
    <2>1. audit' \subseteq Event
      BY <1>5, RecordKeepsRows DEF AuditRefusedIntent, IInv, Actions, Details, Reasons, FailureReasons
    <2>2. QED
      BY <1>5, <2>1 DEF AuditRefusedIntent, IInv, RequestSteps, Answers
  <1>6. ASSUME NEW r \in Requests, InsertJob(r) PROVE TypeOK'
    BY <1>6 DEF InsertJob, InsertRow, IInv, HandlerInv, RequestSteps, Statuses, Row, Reasons
  <1>7. ASSUME NEW r \in Requests, AuditCreated(r) PROVE TypeOK'
    <2>1. audit' \subseteq Event
      BY <1>7, RecordKeepsRows DEF AuditCreated, IInv, Actions, Details
    <2>2. QED
      BY <1>7, <2>1 DEF AuditCreated, IInv, RequestSteps
  <1>8. ASSUME NEW r \in Requests, DecideJob(r) PROVE TypeOK'
    BY <1>8 DEF DecideJob, UpdateQueued, IInv, RequestSteps, Statuses, Reasons
  <1>9. ASSUME NEW r \in Requests, RecheckJob(r) PROVE TypeOK'
    BY <1>9 DEF RecheckJob, IInv, RequestSteps, Answers
  <1>10. ASSUME NEW r \in Requests, AuditConflict(r) PROVE TypeOK'
    <2>1. audit' \subseteq Event
      BY <1>10, RecordKeepsRows DEF AuditConflict, IInv, Actions, Details
    <2>2. QED
      BY <1>10, <2>1 DEF AuditConflict, IInv, RequestSteps, Answers
  <1>11. ASSUME NEW r \in Requests, GetJob(r) PROVE TypeOK'
    BY <1>11 DEF GetJob, IInv, HandlerInv, RequestSteps, Answers
  <1>12. ASSUME NEW r \in Requests, AuditDecision(r) PROVE TypeOK'
    <2>1. audit' \subseteq Event
      BY <1>12, RecordKeepsRows DEF AuditDecision, IInv, Actions, Details
    <2>2. QED
      BY <1>12, <2>1 DEF AuditDecision, IInv, RequestSteps
  <1>13. ASSUME NEW r \in Requests, AuditStatus(r) PROVE TypeOK'
    <2>1. audit' \subseteq Event
      BY <1>13, RecordKeepsRows DEF AuditStatus, IInv, Actions, Details
    <2>2. QED
      BY <1>13, <2>1 DEF AuditStatus, IInv, RequestSteps, Answers
  <1>14. ASSUME NEW r \in Requests, AuditViewed(r) PROVE TypeOK'
    <2>1. audit' \subseteq Event
      BY <1>14, RecordKeepsRows DEF AuditViewed, IInv, Actions, Details
    <2>2. QED
      BY <1>14, <2>1 DEF AuditViewed, IInv, RequestSteps, Answers
  <1>15. ASSUME NEW r \in Requests, StatementFails(r) PROVE TypeOK'
    BY <1>15 DEF StatementFails, IInv, RequestSteps, Answers
  <1>16. CASE WorkerClaim
    BY <1>16 DEF WorkerClaim, IInv, WorkerSteps, Statuses, Reasons
  <1>17. CASE WorkerAuditStarted
    <2>1. wjob \in Jobs /\ created[wjob].by \in Requests
      BY <1>17 DEF WorkerAuditStarted, IInv, WorkerInv, WorkerHoldsItsJob, RowInv, Row
    <2>2. audit' \subseteq Event
      BY <1>17, <2>1, RecordKeepsRows DEF WorkerAuditStarted, RecordJobEvent, IInv, Actions, Details, Reasons
    <2>3. QED
      BY <1>17, <2>2 DEF WorkerAuditStarted, IInv, WorkerSteps
  <1>18. CASE WorkerDial
    BY <1>18 DEF WorkerDial, Send, IInv, WorkerSteps, FailureReasons, Commands
  <1>19. CASE WorkerReceive
    BY <1>19 DEF WorkerReceive, IInv, WorkerSteps, ResultOf, Commands, FailureReasons,
                 InFlight, WorkerInv, WorkerHoldsItsJob, DispatchInv
  <1>20. CASE WorkerTimeout
    BY <1>20 DEF WorkerTimeout, IInv, WorkerSteps, FailureReasons
  <1>21. CASE WorkerFinish
    BY <1>21 DEF WorkerFinish, IInv, WorkerSteps, Statuses, Reasons
  <1>22. CASE WorkerAuditOutcome
    <2>1. wjob \in Jobs /\ created[wjob].by \in Requests
      BY <1>22 DEF WorkerAuditOutcome, IInv, WorkerInv, RowInv, Row
    <2>2. audit' \subseteq Event
      BY <1>22, <2>1, RecordKeepsRows, OutcomeActions DEF WorkerAuditOutcome, RecordJobEvent, IInv
    <2>3. QED
      BY <1>22, <2>2 DEF WorkerAuditOutcome, IInv, WorkerSteps
  <1>23. CASE WorkerAuditStatus
    <2>1. wjob \in Jobs /\ created[wjob].by \in Requests
      BY <1>23 DEF WorkerAuditStatus, IInv, WorkerInv, RowInv, Row
    <2>2. audit' \subseteq Event
      BY <1>23, <2>1, RecordKeepsRows, OutcomeActions DEF WorkerAuditStatus, RecordJobEvent, IInv, Actions
    <2>3. QED
      BY <1>23, <2>2 DEF WorkerAuditStatus, IInv, WorkerSteps
  <1>24. CASE WorkerFails
    BY <1>24 DEF WorkerFails, IInv, WorkerSteps
  <1>25. ASSUME NEW j \in Jobs, AgentDecide(j) PROVE TypeOK'
    BY <1>25 DEF AgentDecide, IInv, Commands
  <1>26. ASSUME NEW j \in Jobs, AgentCommandEnds(j) PROVE TypeOK'
    BY <1>26 DEF AgentCommandEnds, IInv, Commands
  <1>27. CASE AgentStops
    BY <1>27 DEF AgentStops, IInv, Commands
  <1>28. CASE AgentStarts
    BY <1>28, AgentModesAssumption DEF AgentStarts, IInv
  <1>29. CASE KojidCrashes
    BY <1>29 DEF KojidCrashes, IInv, RequestSteps, WorkerSteps
  <1>30. CASE KojidExitsOnWorkerError
    BY <1>30 DEF KojidExitsOnWorkerError, IInv, RequestSteps, WorkerSteps
  <1>31. CASE KojidTerminated
    BY <1>31 DEF KojidTerminated, IInv
  <1>32. CASE KojidDrained
    BY <1>32 DEF KojidDrained, IInv, RequestSteps, WorkerSteps
  <1>33. CASE KojidStarts
    BY <1>33 DEF KojidStarts, IInv, WorkerSteps
  <1>34. CASE WorkerIdles \/ UNCHANGED vars
    BY <1>34 DEF WorkerIdles, IInv, vars
  <1>35. QED
    BY <1>1, <1>2, <1>3, <1>4, <1>5, <1>6, <1>7, <1>8, <1>9, <1>10, <1>11, <1>12, <1>13,
       <1>14, <1>15, <1>16, <1>17, <1>18, <1>19, <1>20, <1>21, <1>22, <1>23, <1>24, <1>25,
       <1>26, <1>27, <1>28, <1>29, <1>30, <1>31, <1>32, <1>33, <1>34
       DEF Next, RequestStep, WorkerStep

-----------------------------------------------------------------------------
(* The steps that touch jobs, worker or commands, apart from all the others *)

\* kojid ends, by a crash, the worker's error or a signal.
KojidEnds ==
    /\ LoseMemory
    /\ UNCHANGED <<jobVars, audit, kind, cmd, dispatched>>

\* A step of a handler, of the agent or of the process that leaves them alone.
Elsewhere == UNCHANGED <<jobVars, workerVars, cmd, dispatched>>

\* Every step is one of the actions the proofs below look at, or is elsewhere.
LEMMA StepCases ==
    ASSUME [Next]_vars
    PROVE  \/ \E r \in Requests : InsertJob(r) \/ DecideJob(r)
           \/ WorkerStep \/ WorkerTimeout \/ WorkerFails
           \/ \E j \in Jobs : AgentDecide(j) \/ AgentCommandEnds(j)
           \/ AgentStops
           \/ KojidEnds \/ KojidStarts
           \/ Elsewhere
  <1> USE DEF jobVars, requestVars, workerVars, agentVars, Elsewhere
  <1>1. ASSUME NEW r \in Requests,
               ArriveControl(r) \/ ArriveDecision(r) \/ ArriveDetail(r) \/ StatementFails(r)
        PROVE  Elsewhere
    BY <1>1 DEF ArriveControl, ArriveDecision, ArriveDetail, StatementFails
  <1>2. ASSUME NEW r \in Requests, RequestStep(r), ~InsertJob(r), ~DecideJob(r)
        PROVE  Elsewhere
    BY <1>2 DEF RequestStep, AuditCapabilityDenied, AuditRefusedIntent, AuditCreated, RecheckJob,
                AuditConflict, GetJob, AuditDecision, AuditStatus, AuditViewed
  <1>3. ASSUME KojidCrashes \/ KojidExitsOnWorkerError \/ KojidDrained
        PROVE  KojidEnds
    BY <1>3 DEF KojidCrashes, KojidExitsOnWorkerError, KojidDrained, KojidEnds
  <1>4. ASSUME WorkerIdles \/ KojidTerminated \/ AgentStarts \/ UNCHANGED vars
        PROVE  Elsewhere
    BY <1>4 DEF WorkerIdles, KojidTerminated, AgentStarts, vars
  <1>5. QED
    BY <1>1, <1>2, <1>3, <1>4 DEF Next

\* The audit table only grows (audit.Store has no UPDATE and no DELETE).
LEMMA AuditGrows == ASSUME [Next]_vars PROVE audit \subseteq audit'
  <1> USE DEF Record
  <1>1. ASSUME NEW r \in Requests,
               ArriveControl(r) \/ ArriveDecision(r) \/ ArriveDetail(r) \/ StatementFails(r)
        PROVE  audit \subseteq audit'
    BY <1>1 DEF ArriveControl, ArriveDecision, ArriveDetail, StatementFails
  <1>2. ASSUME NEW r \in Requests, RequestStep(r)
        PROVE  audit \subseteq audit'
    BY <1>2 DEF RequestStep, AuditCapabilityDenied, AuditRefusedIntent, AuditCreated, RecheckJob,
                AuditConflict, GetJob, AuditDecision, AuditStatus, AuditViewed, InsertJob, DecideJob
  <1>3. ASSUME WorkerStep \/ WorkerTimeout \/ WorkerFails \/ WorkerIdles
        PROVE  audit \subseteq audit'
    BY <1>3 DEF WorkerStep, WorkerClaim, WorkerAuditStarted, WorkerDial, WorkerReceive, WorkerFinish,
                WorkerAuditOutcome, WorkerAuditStatus, WorkerTimeout, WorkerFails, WorkerIdles,
                RecordJobEvent, vars
  <1>4. ASSUME NEW j \in Jobs, AgentDecide(j) \/ AgentCommandEnds(j)
        PROVE  audit \subseteq audit'
    BY <1>4 DEF AgentDecide, AgentCommandEnds
  <1>5. ASSUME \/ AgentStops \/ AgentStarts \/ KojidCrashes \/ KojidExitsOnWorkerError
               \/ KojidTerminated \/ KojidDrained \/ KojidStarts \/ UNCHANGED vars
        PROVE  audit \subseteq audit'
    BY <1>5 DEF AgentStops, AgentStarts, KojidCrashes, KojidExitsOnWorkerError, KojidTerminated,
                KojidDrained, KojidStarts, vars
  <1>6. QED
    BY <1>1, <1>2, <1>3, <1>4, <1>5 DEF Next

\* Once a request has arrived, its kind is settled and it does not arrive again.
LEMMA KindSettled ==
    ASSUME TypeOK, [Next]_vars, NEW q \in Requests, pc[q] # "new"
    PROVE  pc'[q] # "new" /\ kind'[q] = kind[q]
  <1> USE DEF TypeOK, requestVars, Goto, Respond, LoseMemory
  <1>1. ASSUME NEW r \in Requests,
               ArriveControl(r) \/ ArriveDecision(r) \/ ArriveDetail(r) \/ StatementFails(r)
        PROVE  pc'[q] # "new" /\ kind'[q] = kind[q]
    BY <1>1 DEF ArriveControl, ArriveDecision, ArriveDetail, StatementFails
  <1>2. ASSUME NEW r \in Requests, RequestStep(r)
        PROVE  pc'[q] # "new" /\ kind'[q] = kind[q]
    BY <1>2 DEF RequestStep, AuditCapabilityDenied, AuditRefusedIntent, AuditCreated, RecheckJob,
                AuditConflict, GetJob, AuditDecision, AuditStatus, AuditViewed, InsertJob, DecideJob
  <1>3. ASSUME \/ KojidCrashes \/ KojidExitsOnWorkerError \/ KojidDrained
        PROVE  pc'[q] # "new" /\ kind'[q] = kind[q]
    BY <1>3 DEF KojidCrashes, KojidExitsOnWorkerError, KojidDrained
  <1>4. ASSUME \/ WorkerStep \/ WorkerTimeout \/ WorkerFails \/ WorkerIdles \/ UNCHANGED vars
               \/ AgentStops \/ AgentStarts \/ KojidTerminated \/ KojidStarts
               \/ \E j \in Jobs : AgentDecide(j) \/ AgentCommandEnds(j)
        PROVE  pc'[q] # "new" /\ kind'[q] = kind[q]
    BY <1>4 DEF WorkerStep, WorkerClaim, WorkerAuditStarted, WorkerDial, WorkerReceive, WorkerFinish,
                WorkerAuditOutcome, WorkerAuditStatus, WorkerTimeout, WorkerFails, WorkerIdles, vars,
                AgentStops, AgentStarts, KojidTerminated, KojidStarts, AgentDecide, AgentCommandEnds
  <1>5. QED
    BY <1>1, <1>2, <1>3, <1>4 DEF Next

-----------------------------------------------------------------------------
(* Each part of the invariant is preserved *)

\* Job rows stay consistent with themselves through every step.
LEMMA RowStep == IInv /\ [Next]_vars => RowInv'
  <1> SUFFICES ASSUME IInv, [Next]_vars PROVE RowInv'
    OBVIOUS
  <1> USE DEF IInv, TypeOK, RowInv
  <1>1. ASSUME NEW r \in Requests, InsertJob(r) PROVE RowInv'
    BY <1>1 DEF InsertJob, InsertRow, HandlerInv, Row
  <1>2. ASSUME NEW r \in Requests, DecideJob(r) PROVE RowInv'
    BY <1>2 DEF DecideJob, UpdateQueued, HandlerInv
  <1>3. CASE WorkerClaim
    BY <1>3 DEF WorkerClaim, Claimable
  <1>4. CASE WorkerFinish
    BY <1>4 DEF WorkerFinish
  <1>5. CASE UNCHANGED <<status, created>>
    BY <1>5
  <1>6. QED
    BY <1>1, <1>2, <1>3, <1>4, <1>5, StepCases
       DEF WorkerStep, WorkerAuditStarted, WorkerDial, WorkerReceive, WorkerAuditOutcome,
           WorkerAuditStatus, WorkerTimeout, WorkerFails, AgentDecide, AgentCommandEnds,
           AgentStops, KojidEnds, KojidStarts, Elsewhere, jobVars

\* A handler past its statement still holds what that statement wrote.
LEMMA HandlerStep == IInv /\ [Next]_vars => HandlerInv'
  <1> SUFFICES ASSUME IInv, [Next]_vars PROVE HandlerInv'
    OBVIOUS
  <1> USE DEF IInv, TypeOK, HandlerInv, requestVars, Goto, Respond, LoseMemory
  <1>1. ASSUME NEW r \in Requests, ArriveControl(r) PROVE HandlerInv'
    BY <1>1 DEF ArriveControl
  <1>2. ASSUME NEW r \in Requests, ArriveDecision(r) PROVE HandlerInv'
    BY <1>2 DEF ArriveDecision
  <1>3. ASSUME NEW r \in Requests, ArriveDetail(r) PROVE HandlerInv'
    BY <1>3 DEF ArriveDetail
  <1>4. ASSUME NEW r \in Requests, StatementFails(r) PROVE HandlerInv'
    BY <1>4 DEF StatementFails
  <1>5. ASSUME NEW r \in Requests, RequestStep(r) PROVE HandlerInv'
    BY <1>5 DEF RequestStep, AuditCapabilityDenied, AuditRefusedIntent, AuditCreated, RecheckJob,
                AuditConflict, GetJob, AuditDecision, AuditStatus, AuditViewed, InsertJob, DecideJob
  <1>6. CASE KojidCrashes \/ KojidExitsOnWorkerError \/ KojidDrained
    BY <1>6 DEF KojidCrashes, KojidExitsOnWorkerError, KojidDrained
  <1>7. CASE UNCHANGED requestVars
    BY <1>7
  <1>8. QED
    BY <1>1, <1>2, <1>3, <1>4, <1>5, <1>6, <1>7
       DEF Next, WorkerStep, WorkerClaim, WorkerAuditStarted, WorkerDial, WorkerReceive, WorkerFinish,
           WorkerAuditOutcome, WorkerAuditStatus, WorkerTimeout, WorkerFails, WorkerIdles, vars,
           AgentStops, AgentStarts, KojidTerminated, KojidStarts, AgentDecide, AgentCommandEnds

\* A decided row names the one request that decided it.
LEMMA DecisionStep == IInv /\ [Next]_vars => DecisionInv'
  <1> SUFFICES ASSUME IInv, [Next]_vars PROVE DecisionInv'
    OBVIOUS
  <1> USE RequestsAssumption, KindSettled DEF IInv, TypeOK, DecisionInv
  <1>1. ASSUME NEW r \in Requests, InsertJob(r) PROVE DecisionInv'
    BY <1>1 DEF InsertJob, InsertRow
  <1>2. ASSUME NEW r \in Requests, DecideJob(r) PROVE DecisionInv'
    BY <1>2 DEF DecideJob, UpdateQueued, HandlerInv
  <1>3. CASE WorkerClaim
    BY <1>3 DEF WorkerClaim, Claimable
  <1>4. CASE WorkerFinish
    BY <1>4 DEF WorkerFinish
  <1>5. CASE UNCHANGED <<status, approvedBy, rejectedBy>>
    BY <1>5
  <1>6. QED
    BY <1>1, <1>2, <1>3, <1>4, <1>5, StepCases
       DEF WorkerStep, WorkerAuditStarted, WorkerDial, WorkerReceive, WorkerAuditOutcome,
           WorkerAuditStatus, WorkerTimeout, WorkerFails, AgentDecide, AgentCommandEnds,
           AgentStops, KojidEnds, KojidStarts, Elsewhere, jobVars

\* The worker's locals stay in step with the row of its job.
LEMMA WorkerInvStep == IInv /\ [Next]_vars => WorkerInv'
  <1> SUFFICES ASSUME IInv, [Next]_vars PROVE WorkerInv'
    OBVIOUS
  <1> USE DEF IInv, TypeOK, WorkerInv, WorkerHoldsItsJob, jobVars, workerVars, agentVars
  <1>1. ASSUME NEW r \in Requests, InsertJob(r) PROVE WorkerInv'
    BY <1>1 DEF InsertJob, InsertRow
  <1>2. ASSUME NEW r \in Requests, DecideJob(r) PROVE WorkerInv'
    BY <1>2 DEF DecideJob, UpdateQueued
  <1>3. CASE WorkerClaim
    BY <1>3 DEF WorkerClaim
  <1>4. CASE WorkerFinish
    BY <1>4 DEF WorkerFinish
  <1>5. CASE WorkerAuditStarted \/ WorkerDial \/ WorkerReceive \/ WorkerTimeout
    BY <1>5 DEF WorkerAuditStarted, WorkerDial, WorkerReceive, WorkerTimeout
  <1>6. CASE WorkerAuditOutcome \/ WorkerAuditStatus \/ WorkerFails
    BY <1>6 DEF WorkerAuditOutcome, WorkerAuditStatus, WorkerFails
  <1>7. CASE KojidEnds \/ KojidStarts
    BY <1>7 DEF KojidEnds, KojidStarts, LoseMemory
  <1>8. CASE UNCHANGED <<status, wpc, wjob>>
    BY <1>8
  <1>9. QED
    BY <1>1, <1>2, <1>3, <1>4, <1>5, <1>6, <1>7, <1>8, StepCases
       DEF WorkerStep, AgentDecide, AgentCommandEnds, AgentStops, Elsewhere

\* Only the worker at its dial position can send, and only a job never sent.
LEMMA DispatchStep == IInv /\ [Next]_vars => DispatchInv'
  <1> SUFFICES ASSUME IInv, [Next]_vars PROVE DispatchInv'
    OBVIOUS
  <1>1. audit \subseteq audit'
    BY AuditGrows
  <1>2. \A j \in Jobs : Started(j) => Started(j)'
    BY <1>1 DEF Started
  <1> USE <1>2 DEF IInv, TypeOK, DispatchInv, WorkerInv, WorkerHoldsItsJob,
                   jobVars, workerVars, agentVars
  <1>3. ASSUME NEW r \in Requests, InsertJob(r) PROVE DispatchInv'
    BY <1>3 DEF InsertJob, InsertRow
  <1>4. ASSUME NEW r \in Requests, DecideJob(r) PROVE DispatchInv'
    BY <1>4 DEF DecideJob, UpdateQueued
  <1>5. CASE WorkerClaim
    BY <1>5 DEF WorkerClaim, Claimable
  <1>6. CASE WorkerAuditStarted
    <2>1. \E e \in audit' : e.action = "job.started" /\ e.job = wjob
      BY <1>6, RecordAddsRow DEF WorkerAuditStarted, RecordJobEvent
    <2>2. Started(wjob)' /\ wjob' = wjob
      BY <1>6, <2>1 DEF WorkerAuditStarted, Started
    <2>3. QED
      BY <1>6, <2>2 DEF WorkerAuditStarted
  <1>7. CASE WorkerDial
    BY <1>7 DEF WorkerDial, Send
  <1>8. CASE WorkerReceive \/ WorkerTimeout
    BY <1>8 DEF WorkerReceive, WorkerTimeout
  <1>9. CASE WorkerFinish
    BY <1>9 DEF WorkerFinish
  <1>10. CASE WorkerAuditOutcome \/ WorkerAuditStatus \/ WorkerFails
    BY <1>10 DEF WorkerAuditOutcome, WorkerAuditStatus, WorkerFails
  <1>11. ASSUME NEW j \in Jobs, AgentDecide(j) \/ AgentCommandEnds(j) PROVE DispatchInv'
    BY <1>11 DEF AgentDecide, AgentCommandEnds
  <1>12. CASE AgentStops
    BY <1>12 DEF AgentStops, InFlight
  <1>13. CASE KojidEnds \/ KojidStarts
    BY <1>13 DEF KojidEnds, KojidStarts, LoseMemory
  <1>14. CASE Elsewhere
    BY <1>14 DEF Elsewhere
  <1>15. QED
    BY <1>3, <1>4, <1>5, <1>6, <1>7, <1>8, <1>9, <1>10, <1>11, <1>12, <1>13, <1>14, StepCases
       DEF WorkerStep

\* A recorded reason keeps matching what became of the command.
LEMMA OutcomeStep == IInv /\ [Next]_vars => OutcomeInv'
  <1> SUFFICES ASSUME IInv, [Next]_vars PROVE OutcomeInv'
    OBVIOUS
  <1> USE DEF IInv, TypeOK, OutcomeInv, Truthful, WorkerInv, WorkerHoldsItsJob,
              jobVars, workerVars, agentVars, FailureReasons
  <1>1. ASSUME NEW r \in Requests, InsertJob(r) PROVE OutcomeInv'
    BY <1>1 DEF InsertJob, InsertRow
  <1>2. ASSUME NEW r \in Requests, DecideJob(r) PROVE OutcomeInv'
    BY <1>2 DEF DecideJob, UpdateQueued
  <1>3. CASE WorkerClaim
    BY <1>3 DEF WorkerClaim, Claimable
  <1>4. CASE WorkerAuditStarted \/ WorkerAuditOutcome \/ WorkerAuditStatus \/ WorkerFails
    BY <1>4 DEF WorkerAuditStarted, WorkerAuditOutcome, WorkerAuditStatus, WorkerFails
  <1>5. CASE WorkerDial
    BY <1>5 DEF WorkerDial, Send, DispatchInv
  <1>6. CASE WorkerReceive
    BY <1>6 DEF WorkerReceive, ResultOf, DispatchInv, InFlight, Commands
  <1>7. CASE WorkerTimeout
    BY <1>7 DEF WorkerTimeout
  <1>8. CASE WorkerFinish
    BY <1>8 DEF WorkerFinish
  <1>9. ASSUME NEW j \in Jobs, AgentDecide(j) \/ AgentCommandEnds(j) PROVE OutcomeInv'
    BY <1>9 DEF AgentDecide, AgentCommandEnds
  <1>10. CASE AgentStops
    BY <1>10 DEF AgentStops, InFlight
  <1>11. CASE KojidEnds \/ KojidStarts
    BY <1>11 DEF KojidEnds, KojidStarts, LoseMemory
  <1>12. CASE Elsewhere
    BY <1>12 DEF Elsewhere
  <1>13. QED
    BY <1>1, <1>2, <1>3, <1>4, <1>5, <1>6, <1>7, <1>8, <1>9, <1>10, <1>11, <1>12, StepCases
       DEF WorkerStep

\* A row of another action is no reason to doubt the table.
LEMMA OtherRows ==
    ASSUME RowsTell, UNCHANGED <<status, reason, approvedBy, rejectedBy>>,
           NEW action \in Actions \ Telling, NEW j, NEW target, NEW detail, NEW r,
           Record(action, j, target, detail, r)
    PROVE  RowsTell'
  BY DEF RowsTell, AuditNeverLies, Record, Telling

\* Rows of the audit table stay true, old and new.
LEMMA AuditStep == IInv /\ [Next]_vars => AuditInv'
  <1> SUFFICES ASSUME IInv, [Next]_vars PROVE AuditInv'
    OBVIOUS
  <1> USE DEF IInv, TypeOK, AuditInv, jobVars, requestVars, workerVars, agentVars
  <1>1. ASSUME NEW r \in Requests, InsertJob(r) PROVE AuditInv'
    <2>1. RowsTell'
      BY <1>1, RequestsAssumption
         DEF InsertJob, InsertRow, RowsTell, AuditNeverLies, Telling, Event, DecisionInv
    <2>2. QED
      BY <1>1, <2>1 DEF InsertJob, InsertRow, WorkerInv
  <1>2. ASSUME NEW r \in Requests, DecideJob(r) PROVE AuditInv'
    <2>1. RowsTell'
      BY <1>2, RequestsAssumption
         DEF DecideJob, UpdateQueued, HandlerInv, RowsTell, AuditNeverLies, Telling, Event, DecisionInv
    <2>2. QED
      BY <1>2, <2>1 DEF DecideJob, UpdateQueued, WorkerInv
  <1>3. ASSUME NEW r \in Requests,
               \/ AuditCapabilityDenied(r) \/ AuditRefusedIntent(r) \/ AuditCreated(r)
               \/ AuditConflict(r) \/ AuditStatus(r) \/ AuditViewed(r)
        PROVE  AuditInv'
    <2>1. RowsTell'
      BY <1>3, OtherRows
         DEF AuditCapabilityDenied, AuditRefusedIntent, AuditCreated, AuditConflict,
             AuditStatus, AuditViewed, Actions, Telling
    <2>2. QED
      BY <1>3, <2>1 DEF AuditCapabilityDenied, AuditRefusedIntent, AuditCreated, AuditConflict,
             AuditStatus, AuditViewed
  <1>4. ASSUME NEW r \in Requests, AuditDecision(r) PROVE AuditInv'
    <2>1. RowsTell'
      BY <1>4 DEF AuditDecision, Record, HandlerInv, AnswerInv, AnswerInvOf, After, Owns, DecisionInv,
                  RowsTell, AuditNeverLies, Telling
    <2>2. QED
      BY <1>4, <2>1 DEF AuditDecision
  <1>5. CASE WorkerClaim
    <2>1. RowsTell'
      BY <1>5 DEF WorkerClaim, Claimable, RowsTell, AuditNeverLies, Telling
    <2>2. QED
      BY <1>5, <2>1 DEF WorkerClaim
  <1>6. CASE WorkerAuditStarted
    <2>1. RowsTell'
      BY <1>6 DEF WorkerAuditStarted, RecordJobEvent, Record, WorkerInv, WorkerHoldsItsJob,
                  RowsTell, AuditNeverLies, Telling
    <2>2. QED
      BY <1>6, <2>1 DEF WorkerAuditStarted
  <1>7. CASE WorkerFinish
    <2>1. RowsTell'
      BY <1>7 DEF WorkerFinish, RowsTell, AuditNeverLies, Telling
    <2>2. QED
      BY <1>7, <2>1 DEF WorkerFinish, WorkerInv, WorkerHoldsItsJob
  <1>8. CASE WorkerAuditOutcome
    <2>1. RowsTell'
      BY <1>8 DEF WorkerAuditOutcome, RecordJobEvent, Record, OutcomeAction, WorkerInv,
                  RowsTell, AuditNeverLies, Telling
    <2>2. QED
      BY <1>8, <2>1 DEF WorkerAuditOutcome
  <1>9. CASE WorkerAuditStatus
    <2>1. RowsTell'
      BY <1>9, OtherRows DEF WorkerAuditStatus, RecordJobEvent, Actions, Telling
    <2>2. QED
      BY <1>9, <2>1 DEF WorkerAuditStatus
  <1>10. CASE UNCHANGED <<status, reason, approvedBy, rejectedBy, audit>> /\ wpc' # "auditOutcome"
    BY <1>10 DEF RowsTell, AuditNeverLies
  <1>11. CASE UNCHANGED <<status, reason, approvedBy, rejectedBy, audit, wpc, wjob, wres>>
    BY <1>11 DEF RowsTell, AuditNeverLies
  <1>12. ASSUME NEW r \in Requests,
                \/ ArriveControl(r) \/ ArriveDecision(r) \/ ArriveDetail(r) \/ StatementFails(r)
                \/ RecheckJob(r) \/ GetJob(r)
         PROVE  AuditInv'
    BY <1>11, <1>12 DEF ArriveControl, ArriveDecision, ArriveDetail, StatementFails, RecheckJob, GetJob
  <1>13. ASSUME \/ WorkerDial \/ WorkerReceive \/ WorkerTimeout \/ WorkerFails \/ KojidStarts
                \/ KojidCrashes \/ KojidExitsOnWorkerError \/ KojidDrained
         PROVE  AuditInv'
    BY <1>10, <1>13 DEF WorkerDial, WorkerReceive, WorkerTimeout, WorkerFails, KojidStarts,
         KojidCrashes, KojidExitsOnWorkerError, KojidDrained, LoseMemory
  <1>14. ASSUME \/ WorkerIdles \/ UNCHANGED vars \/ AgentStops \/ AgentStarts \/ KojidTerminated
                \/ \E j \in Jobs : AgentDecide(j) \/ AgentCommandEnds(j)
         PROVE  AuditInv'
    BY <1>11, <1>14 DEF WorkerIdles, vars, AgentStops, AgentStarts, KojidTerminated,
         AgentDecide, AgentCommandEnds
  <1>15. QED
    BY <1>1, <1>2, <1>3, <1>4, <1>5, <1>6, <1>7, <1>8, <1>9, <1>12, <1>13, <1>14
       DEF Next, RequestStep, WorkerStep

\* AnswerInv for one request.
\* The request that does not move, while no job changes hands.
LEMMA StillRequest ==
    ASSUME AnswerInv, audit \subseteq audit', NEW q \in Requests,
           UNCHANGED <<created, approvedBy, rejectedBy>>,
           pc'[q] = pc[q], kind'[q] = kind[q], about'[q] = about[q], answer'[q] = answer[q]
    PROVE  AnswerInvOf(q)'
  <1>1. /\ Inert(q) => Inert(q)'
        /\ Owns(q) => Owns(q)'
        /\ ChangeRecorded(q) => ChangeRecorded(q)'
        /\ StatusRecorded(q) => StatusRecorded(q)'
    BY DEF Inert, Owns, ChangeRecorded, StatusRecorded
  <1>2. AnswerInvOf(q)
    BY DEF AnswerInv, AnswerInvOf
  <1>3. QED
    BY <1>1, <1>2 DEF AnswerInvOf

\* Answers given stay true of the job and audit tables.
LEMMA AnswerStep == IInv /\ [Next]_vars => AnswerInv'
  <1> SUFFICES ASSUME IInv, [Next]_vars, NEW q \in Requests PROVE AnswerInvOf(q)'
    BY DEF AnswerInv, AnswerInvOf
  <1>a. audit \subseteq audit'
    BY AuditGrows
  <1>b. AnswerInvOf(q)
    BY DEF IInv, AnswerInv, AnswerInvOf
  <1> USE <1>a, <1>b DEF IInv, TypeOK, jobVars, requestVars, Goto, Respond, Before, After
  <1>1. ASSUME NEW r \in Requests, InsertJob(r) PROVE AnswerInvOf(q)'
    <2>1. CASE q = r
      <3>1. Owns(q)'
        BY <1>1, <2>1 DEF InsertJob, InsertRow, Owns, HandlerInv
      <3>2. QED
        BY <1>1, <2>1, <3>1 DEF InsertJob, AnswerInvOf, HandlerInv
    <2>2. CASE q # r
      <3>1. /\ pc'[q] = pc[q] /\ kind'[q] = kind[q] /\ about'[q] = about[q] /\ answer'[q] = answer[q]
            /\ UNCHANGED audit
        BY <1>1, <2>2 DEF InsertJob
      <3>2. Inert(q) => Inert(q)'
        BY <1>1, <2>2 DEF InsertJob, InsertRow, Inert
      <3>3. Owns(q) => Owns(q)'
        BY <1>1, <2>2, <3>1, RequestsAssumption DEF InsertJob, InsertRow, Owns, RowInv, NoRow
      <3>4. (ChangeRecorded(q) => ChangeRecorded(q)') /\ (StatusRecorded(q) => StatusRecorded(q)')
        BY <3>1 DEF ChangeRecorded, StatusRecorded
      <3>5. QED
        BY <3>1, <3>2, <3>3, <3>4 DEF AnswerInvOf
    <2>3. QED
      BY <2>1, <2>2
  <1>2. ASSUME NEW r \in Requests, DecideJob(r) PROVE AnswerInvOf(q)'
    <2>1. CASE q = r
      <3>1. CASE UpdateQueued(r, about[r]) /\ Goto(r, "get")
        <4>1. Owns(q)'
          BY <1>2, <2>1, <3>1 DEF DecideJob, UpdateQueued, Owns, HandlerInv
        <4>2. QED
          BY <1>2, <2>1, <3>1, <4>1 DEF DecideJob, AnswerInvOf, HandlerInv
      <3>2. CASE UNCHANGED <<status, reason, approvedBy, rejectedBy>> /\ Goto(r, "recheck")
        <4>1. Inert(q)'
          BY <1>2, <2>1, <3>2 DEF DecideJob, Inert, AnswerInvOf
        <4>2. QED
          BY <1>2, <2>1, <3>2, <4>1 DEF DecideJob, AnswerInvOf
      <3>3. QED
        BY <1>2, <3>1, <3>2 DEF DecideJob
    <2>2. CASE q # r
      <3>1. /\ pc'[q] = pc[q] /\ kind'[q] = kind[q] /\ about'[q] = about[q] /\ answer'[q] = answer[q]
            /\ UNCHANGED <<audit, created>>
        BY <1>2, <2>2 DEF DecideJob
      <3>2. Inert(q) => Inert(q)'
        BY <1>2, <2>2 DEF DecideJob, UpdateQueued, Inert
      <3>3. about[q] \in Jobs /\ Owns(q) => Owns(q)'
        BY <1>2, <2>2, <3>1 DEF DecideJob, UpdateQueued, Owns, DecisionInv, HandlerInv
      <3>4. (ChangeRecorded(q) => ChangeRecorded(q)') /\ (StatusRecorded(q) => StatusRecorded(q)')
        BY <3>1 DEF ChangeRecorded, StatusRecorded
      <3>5. QED
        BY <3>1, <3>2, <3>3, <3>4 DEF AnswerInvOf, HandlerInv
    <2>3. QED
      BY <2>1, <2>2
  <1>3. ASSUME NEW r \in Requests, ArriveControl(r) \/ ArriveDecision(r) \/ ArriveDetail(r)
        PROVE  AnswerInvOf(q)'
    <2>1. CASE q = r
      <3>1. Inert(q)'
        BY <1>3, <2>1 DEF ArriveControl, ArriveDecision, ArriveDetail, Inert, AnswerInvOf
      <3>2. QED
        BY <1>3, <2>1, <3>1 DEF ArriveControl, ArriveDecision, ArriveDetail, AnswerInvOf
    <2>2. CASE q # r
      BY <1>3, <2>2, StillRequest DEF ArriveControl, ArriveDecision, ArriveDetail
    <2>3. QED
      BY <2>1, <2>2
  <1>4. ASSUME NEW r \in Requests,
               \/ AuditCapabilityDenied(r) \/ AuditRefusedIntent(r)
               \/ RecheckJob(r) \/ AuditConflict(r) \/ AuditViewed(r)
        PROVE  AnswerInvOf(q)'
    <2>1. CASE q = r
      <3>1. Inert(q)'
        BY <1>4, <2>1 DEF AuditCapabilityDenied, AuditRefusedIntent, RecheckJob, AuditConflict,
             AuditViewed, Inert, AnswerInvOf
      <3>2. QED
        BY <1>4, <2>1, <3>1 DEF AuditCapabilityDenied, AuditRefusedIntent, RecheckJob, AuditConflict,
             AuditViewed, AnswerInvOf, HandlerInv
    <2>2. CASE q # r
      BY <1>4, <2>2, StillRequest
         DEF AuditCapabilityDenied, AuditRefusedIntent, RecheckJob, AuditConflict, AuditViewed
    <2>3. QED
      BY <2>1, <2>2
  <1>5. ASSUME NEW r \in Requests, GetJob(r) PROVE AnswerInvOf(q)'
    <2>1. CASE q = r
      <3>1. (Inert(q) => Inert(q)') /\ (Owns(q) => Owns(q)')
        BY <1>5, <2>1 DEF GetJob, Inert, Owns
      <3>2. Owns(q) /\ kind[q] \in {"approve", "reject"} /\ about[q] \in Jobs =>
               status[about[q]] # "absent"
        BY DEF Owns, DecisionInv
      <3>3. QED
        BY <1>5, <2>1, <3>1, <3>2 DEF GetJob, AnswerInvOf, HandlerInv
    <2>2. CASE q # r
      BY <1>5, <2>2, StillRequest DEF GetJob
    <2>3. QED
      BY <2>1, <2>2
  <1>6. ASSUME NEW r \in Requests, AuditCreated(r) \/ AuditDecision(r) PROVE AnswerInvOf(q)'
    <2>1. CASE q = r
      <3>1. Owns(q)'
        BY <1>6, <2>1 DEF AuditCreated, AuditDecision, Owns, AnswerInvOf
      <3>2. ChangeRecorded(q)'
        BY <1>6, <2>1, RecordAddsRow DEF AuditCreated, AuditDecision, ChangeRecorded
      <3>3. QED
        BY <1>6, <2>1, <3>1, <3>2 DEF AuditCreated, AuditDecision, AnswerInvOf
    <2>2. CASE q # r
      BY <1>6, <2>2, StillRequest DEF AuditCreated, AuditDecision
    <2>3. QED
      BY <2>1, <2>2
  <1>7. ASSUME NEW r \in Requests, AuditStatus(r) PROVE AnswerInvOf(q)'
    <2>1. CASE q = r
      <3>1. Owns(q)' /\ about'[q] \in Jobs
        BY <1>7, <2>1 DEF AuditStatus, Owns, AnswerInvOf, HandlerInv
      <3>2. ChangeRecorded(q)'
        BY <1>7, <2>1 DEF AuditStatus, ChangeRecorded, AnswerInvOf
      <3>3. StatusRecorded(q)'
        BY <1>7, <2>1, RecordAddsRow DEF AuditStatus, StatusRecorded
      <3>4. QED
        BY <1>7, <2>1, <3>1, <3>2, <3>3 DEF AuditStatus, AnswerInvOf
    <2>2. CASE q # r
      BY <1>7, <2>2, StillRequest DEF AuditStatus
    <2>3. QED
      BY <2>1, <2>2
  <1>8. ASSUME NEW r \in Requests, StatementFails(r) PROVE AnswerInvOf(q)'
    <2>1. CASE q = r
      BY <1>8, <2>1 DEF StatementFails, AnswerInvOf
    <2>2. CASE q # r
      BY <1>8, <2>2, StillRequest DEF StatementFails
    <2>3. QED
      BY <2>1, <2>2
  <1>9. CASE KojidCrashes \/ KojidExitsOnWorkerError \/ KojidDrained
    <2>1. /\ UNCHANGED <<created, approvedBy, rejectedBy, audit, kind, about, answer>>
          /\ pc'[q] = IF pc[q] = "new" THEN "new" ELSE "done"
      BY <1>9 DEF KojidCrashes, KojidExitsOnWorkerError, KojidDrained, LoseMemory
    <2>2. /\ Inert(q)' <=> Inert(q)
          /\ Owns(q)' <=> Owns(q)
          /\ ChangeRecorded(q)' <=> ChangeRecorded(q)
          /\ StatusRecorded(q)' <=> StatusRecorded(q)
      BY <2>1 DEF Inert, Owns, ChangeRecorded, StatusRecorded
    <2>3. QED
      BY <2>1, <2>2 DEF AnswerInvOf
  <1>10. CASE UNCHANGED <<created, approvedBy, rejectedBy, pc, kind, about, answer>>
    BY <1>10, StillRequest
  <1>11. QED
    BY <1>1, <1>2, <1>3, <1>4, <1>5, <1>6, <1>7, <1>8, <1>9, <1>10
       DEF Next, RequestStep, WorkerStep, WorkerClaim, WorkerAuditStarted, WorkerDial, WorkerReceive,
           WorkerFinish, WorkerAuditOutcome, WorkerAuditStatus, WorkerTimeout, WorkerFails, WorkerIdles,
           vars, AgentStops, AgentStarts, KojidTerminated, KojidStarts, AgentDecide, AgentCommandEnds

-----------------------------------------------------------------------------
(* The theorems *)

\* The inductive invariant holds in an empty database.
LEMMA InitInv == Init => IInv
  <1> SUFFICES ASSUME Init PROVE IInv
    OBVIOUS
  <1> USE DEF Init
  <1>1. TypeOK
    BY AgentModesAssumption, FaultsAssumption
       DEF TypeOK, Statuses, Reasons, RequestSteps, Answers, WorkerSteps, Commands
  <1>2. RowInv /\ HandlerInv
    BY DEF RowInv, HandlerInv
  <1>3. DecisionInv
    BY RequestsAssumption DEF DecisionInv
  <1>4. WorkerInv /\ DispatchInv /\ OutcomeInv
    BY DEF WorkerInv, WorkerHoldsItsJob, DispatchInv, OutcomeInv, Truthful, FailureReasons
  <1>5. AuditInv
    BY DEF AuditInv, RowsTell, AuditNeverLies
  <1>6. AnswerInv
    BY RequestsAssumption DEF AnswerInv, AnswerInvOf, Inert, NoRow, Before, After
  <1>7. QED
    BY <1>1, <1>2, <1>3, <1>4, <1>5, <1>6 DEF IInv

\* The inductive invariant holds of every behaviour.
LEMMA Inductive == Spec => []IInv
  <1>1. IInv /\ [Next]_vars => IInv'
    BY TypeStep, RowStep, HandlerStep, DecisionStep, WorkerInvStep, DispatchStep, OutcomeStep,
       AuditStep, AnswerStep DEF IInv
  <1>2. QED
    BY InitInv, <1>1, PTL DEF Spec

\* Types, for any number of jobs, requests and faults.
THEOREM TypeCorrect == Spec => []TypeOK
  <1>1. IInv => TypeOK
    BY DEF IInv
  <1>2. QED
    BY Inductive, <1>1, PTL

\* Nothing reaches koji-agent without a standing approval and an audited claim.
THEOREM Authorised == Spec => []EffectsAreAuthorised
  <1>1. IInv => EffectsAreAuthorised
    BY RequestsAssumption DEF IInv, TypeOK, DispatchInv, DecisionInv, Started, EffectsAreAuthorised
  <1>2. QED
    BY Inductive, <1>1, PTL

\* The worker never sends a job twice, whatever crashes in between.
THEOREM DispatchedOnce == Spec => []AtMostOneDispatch
  <1>1. IInv => AtMostOneDispatch
    BY DEF IInv, TypeOK, DispatchInv, AtMostOneDispatch
  <1>2. QED
    BY Inductive, <1>1, PTL

\* updateRunningJob always finds the worker's job running.
THEOREM WorkerKeepsJob == Spec => []WorkerHoldsItsJob
  <1>1. IInv => WorkerHoldsItsJob
    BY DEF IInv, WorkerInv
  <1>2. QED
    BY Inductive, <1>1, PTL

\* The outcome in a job row is what happened on the host, timeouts apart.
THEOREM TruthfulOutcomes == Spec => []OutcomesAreTruthful
  <1>1. IInv => OutcomesAreTruthful
    BY DEF IInv, OutcomeInv, Truthful, OutcomesAreTruthful
  <1>2. QED
    BY Inductive, <1>1, PTL

\* No audit row contradicts the job row it is about.
THEOREM TruthfulAudit == Spec => []AuditNeverLies
  <1>1. IInv => AuditNeverLies
    BY DEF IInv, AuditInv, RowsTell
  <1>2. QED
    BY Inductive, <1>1, PTL

\* A success told to a client is in the job row and twice in the audit table.
THEOREM AuditedSuccess == Spec => []SuccessIsAudited
  <1>1. IInv => SuccessIsAudited
    BY DEF IInv, AnswerInv, AnswerInvOf, Owns, ChangeRecorded, StatusRecorded, SuccessIsAudited
  <1>2. QED
    BY Inductive, <1>1, PTL

\* A refused request changed no job.
THEOREM InertRefusals == Spec => []RefusalsAreInert
  <1>1. IInv => RefusalsAreInert
    BY DEF IInv, AnswerInv, AnswerInvOf, Inert, RefusalsAreInert
  <1>2. QED
    BY Inductive, <1>1, PTL

-----------------------------------------------------------------------------
(* The order of claims *)

\* The text order of two times is their order in seconds.
LEMMA TextOrder ==
    ASSUME NEW s \in Nat, NEW t \in Nat, TextKey(s) <= TextKey(t)
    PROVE  s \div 2 <= t \div 2
  <1>1. /\ s = 2 * (s \div 2) + (s % 2) /\ s % 2 \in {0, 1} /\ s \div 2 \in Int
        /\ t = 2 * (t \div 2) + (t % 2) /\ t % 2 \in {0, 1} /\ t \div 2 \in Int
    OBVIOUS
  <1>2. /\ TextKey(s) = 2 * (s \div 2) + (1 - (s % 2))
        /\ TextKey(t) = 2 * (t \div 2) + (1 - (t % 2))
    BY <1>1 DEF TextKey
  <1>3. QED
    BY <1>1, <1>2

\* Only a claim lets an approved job run.
LEMMA OnlyClaimsRun ==
    ASSUME IInv, [Next]_vars, NEW j \in Jobs, status[j] = "approved", status'[j] = "running"
    PROVE  WorkerClaim /\ Claimable(j)
  <1> USE DEF IInv, TypeOK
  <1>1. ASSUME NEW r \in Requests, InsertJob(r) PROVE FALSE
    BY <1>1 DEF InsertJob, InsertRow
  <1>2. ASSUME NEW r \in Requests, DecideJob(r) PROVE FALSE
    BY <1>2 DEF DecideJob, UpdateQueued, HandlerInv
  <1>3. CASE WorkerClaim
    BY <1>3 DEF WorkerClaim
  <1>4. CASE WorkerFinish
    BY <1>4 DEF WorkerFinish
  <1>5. CASE UNCHANGED status
    BY <1>5
  <1>6. QED
    BY <1>1, <1>2, <1>3, <1>4, <1>5, StepCases
       DEF WorkerStep, WorkerAuditStarted, WorkerDial, WorkerReceive, WorkerAuditOutcome,
           WorkerAuditStatus, WorkerTimeout, WorkerFails, AgentDecide, AgentCommandEnds,
           AgentStops, KojidEnds, KojidStarts, Elsewhere, jobVars

\* Whatever job is claimed, none that is approved was created in an earlier second.
THEOREM OldestSecondFirst == Spec => ClaimsOldestSecond
  <1>1. ASSUME IInv, [Next]_vars, NEW i \in Jobs, NEW j \in Jobs,
               status[j] = "approved", status'[j] = "running", status[i] = "approved"
        PROVE  created[j].at \div 2 <= created[i].at \div 2
    <2>1. ClaimsBefore(j, i)
      BY <1>1, OnlyClaimsRun DEF Claimable
    <2>2. created[j].at \in Nat /\ created[i].at \in Nat
      BY <1>1, StampsAssumption DEF IInv, RowInv, Row
    <2>3. TextKey(created[j].at) <= TextKey(created[i].at)
      BY <2>1, <2>2 DEF ClaimsBefore, TextKey
    <2>4. QED
      BY <2>2, <2>3, TextOrder
  <1>2. IInv /\ [Next]_vars =>
          [\A i, j \in Jobs :
              /\ status[j] = "approved" /\ status'[j] = "running"
              /\ status[i] = "approved"
              => created[j].at \div 2 <= created[i].at \div 2]_vars
    BY <1>1
  <1>3. QED
    BY Inductive, <1>2, PTL DEF Spec, ClaimsOldestSecond

-----------------------------------------------------------------------------
(* Refinement *)

\* Steps that change neither a status nor a command are stuttering steps above.
LEMMA Stutter ==
    ASSUME UNCHANGED <<status, cmd>>
    PROVE  UNCHANGED Lifecycle!vars
  BY DEF Lifecycle!vars

\* Every step of the pipeline is a lifecycle step or changes nothing there.
LEMMA LifecycleStep == IInv /\ [Next]_vars => [Lifecycle!Next]_(Lifecycle!vars)
  <1> SUFFICES ASSUME IInv, [Next]_vars PROVE [Lifecycle!Next]_(Lifecycle!vars)
    OBVIOUS
  <1> USE DEF IInv, TypeOK, Lifecycle!Move
  <1>1. ASSUME NEW r \in Requests, InsertJob(r) PROVE Lifecycle!Next
    BY <1>1 DEF InsertJob, InsertRow, agentVars, Lifecycle!Next, Lifecycle!Create
  <1>2. ASSUME NEW r \in Requests, DecideJob(r) PROVE Lifecycle!Next \/ UNCHANGED Lifecycle!vars
    BY <1>2, Stutter
       DEF DecideJob, UpdateQueued, HandlerInv, agentVars, Lifecycle!Next, Lifecycle!Approve, Lifecycle!Reject
  <1>3. CASE WorkerClaim
    BY <1>3 DEF WorkerClaim, Claimable, agentVars, Lifecycle!Next, Lifecycle!Claim
  <1>4. CASE WorkerDial
    <2>1. CASE Send(wjob)
      <3>1. wjob \in Jobs /\ status[wjob] = "running" /\ cmd[wjob] = "none" /\ UNCHANGED status
        BY <1>4 DEF WorkerDial, WorkerInv, WorkerHoldsItsJob, DispatchInv, jobVars
      <3>2. Lifecycle!Send(wjob)
        BY <2>1, <3>1 DEF Send, Lifecycle!Send, EffectOf, InFlight
      <3>3. QED
        BY <3>1, <3>2 DEF Lifecycle!Next
    <2>2. CASE UNCHANGED cmd
      BY <1>4, <2>2, Stutter DEF WorkerDial, jobVars
    <2>3. QED
      BY <1>4, <2>1, <2>2 DEF WorkerDial
  <1>5. CASE WorkerFinish
    <2>1. wjob \in Jobs /\ UNCHANGED cmd
      BY <1>5 DEF WorkerFinish, WorkerInv, WorkerHoldsItsJob, agentVars
    <2>2. CASE wres = "completed"
      <3>1. cmd[wjob] = "ok"
        BY <1>5, <2>2 DEF WorkerFinish, OutcomeInv, Truthful
      <3>2. Lifecycle!Complete(wjob)
        BY <1>5, <2>1, <2>2, <3>1 DEF WorkerFinish, Lifecycle!Complete, EffectOf, InFlight
      <3>3. QED
        BY <2>1, <3>2 DEF Lifecycle!Next
    <2>3. CASE wres # "completed"
      <3>1. Lifecycle!Fail(wjob)
        BY <1>5, <2>1, <2>3 DEF WorkerFinish, Lifecycle!Fail
      <3>2. QED
        BY <2>1, <3>1 DEF Lifecycle!Next
    <2>4. QED
      BY <2>2, <2>3
  <1>6. ASSUME NEW j \in Jobs, AgentDecide(j) PROVE Lifecycle!Next \/ UNCHANGED Lifecycle!vars
    <2>1. CASE cmd'[j] = "running"
      <3>1. \A i \in Jobs : EffectOf(cmd'[i]) = EffectOf(cmd[i])
        BY <1>6, <2>1 DEF AgentDecide, EffectOf, InFlight
      <3>2. UNCHANGED status
        BY <1>6 DEF AgentDecide, jobVars
      <3>3. QED
        BY <3>1, <3>2 DEF Lifecycle!vars
    <2>2. CASE cmd'[j] # "running"
      <3>1. Lifecycle!Settle(j)
        BY <1>6, <2>2 DEF AgentDecide, Lifecycle!Settle, EffectOf, InFlight, jobVars
      <3>2. QED
        BY <3>1 DEF Lifecycle!Next
    <2>3. QED
      BY <2>1, <2>2
  <1>7. ASSUME NEW j \in Jobs, AgentCommandEnds(j) PROVE Lifecycle!Next
    <2>1. Lifecycle!Settle(j)
      BY <1>7 DEF AgentCommandEnds, Lifecycle!Settle, EffectOf, InFlight, jobVars
    <2>2. QED
      BY <2>1 DEF Lifecycle!Next
  <1>8. CASE AgentStops
    <2>1. Lifecycle!HostStops
      BY <1>8 DEF AgentStops, Lifecycle!HostStops, EffectOf, InFlight, jobVars
    <2>2. QED
      BY <2>1 DEF Lifecycle!Next
  <1>9. CASE UNCHANGED <<status, cmd>>
    BY <1>9, Stutter
  <1>10. QED
    BY <1>1, <1>2, <1>3, <1>4, <1>5, <1>6, <1>7, <1>8, <1>9, StepCases
       DEF WorkerStep, WorkerAuditStarted, WorkerReceive, WorkerAuditOutcome, WorkerAuditStatus,
           WorkerTimeout, WorkerFails, KojidEnds, KojidStarts, Elsewhere, jobVars, agentVars

\* The pipeline implements the lifecycle.
THEOREM Refinement == Spec => ImplementsLifecycle
  <1>1. Init => Lifecycle!Init
    <2> SUFFICES ASSUME Init PROVE Lifecycle!Init
      OBVIOUS
    <2>1. \A j \in Jobs : EffectOf(cmd[j]) = "none"
      <3>1. \A j \in Jobs : cmd[j] = "none"
        BY DEF Init
      <3>2. EffectOf("none") = "none"
        BY DEF EffectOf, InFlight
      <3>3. QED
        BY <3>1, <3>2
    <2>2. [j \in Jobs |-> EffectOf(cmd[j])] = [j \in Jobs |-> "none"]
      BY <2>1
    <2>3. QED
      BY <2>2 DEF Init, Lifecycle!Init
  <1>2. QED
    BY <1>1, Inductive, LifecycleStep, PTL DEF Spec, ImplementsLifecycle, Lifecycle!Spec
=============================================================================
