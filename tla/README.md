# A TLA+ verification development for Koji

Koji is a small control plane for one Linux host. `kojid` serves an HTTP API and
a web page, keeps users, sessions, jobs and an audit trail in SQLite, and hands
approved service-control jobs to `koji-agent`, a second process that runs
`systemctl`. This directory holds TLA+ models of the parts of Koji whose
correctness depends on the order in which things happen, the TLC runs that check
them on small instances, and proofs, checked by TLAPS, that hold for every
instance.

Every definition is translated from the code under `src/`; `PROJECT.json` gives,
for each, the file and lines it stands for. File names below are relative to
`src/internal` unless they start with `cmd`, `docs`, `packaging` or `web`.

Contents

1. The system: components, state, interactions
2. What is hard about it
3. The modules and how they correspond to the code
4. The runs
5. Fairness
6. The proofs
7. Where the documents and the code disagree
8. What is not modelled
9. What could be added

## 1. The system: components, state, interactions

| Component | State it keeps | Operations | Correct when |
|---|---|---|---|
| Job store (`jobs/jobs.go`) | the `jobs` table | create, get, list, approve, reject, claim, mark completed, mark failed | a job is decided once, claimed once, and moves only along its lifecycle |
| Job worker (`jobs/worker.go`) | the job it is at, in memory | claim, audit, call the agent, record the outcome, audit | nothing is executed twice or without a standing approval; the recorded outcome is what happened |
| Job handlers (`http/handlers_jobs.go`, `handlers_services.go`, `handlers_audit.go`) | locals of a goroutine | request control, approve, reject, view | the answer agrees with the rows; a refused request changed nothing; a success is audited |
| Agent client (`agent/client.go`) | one connection, a deadline | call | a failure is classified correctly, a late reply is not mistaken for another |
| Agent server and executor (`agent/server.go`, `executor.go`, `platform/command/runner.go`) | connections, running commands, its socket file | decide, execute, answer, listen, close | only allow-listed actions run; a command is bounded in time and output |
| Audit store (`audit/audit.go`) | the `audit_events` table | record, list | rows are true, and present where they are promised |
| Identity (`identity/*.go`, `caps/caps.go`, `http/handlers_admin.go`) | `users`, `user_capabilities`, `bootstrap_state` | bootstrap, create, disable, enable, grant, revoke | somebody can always administer Koji |
| Sessions and tokens (`auth/store.go`, `identity/magic_tokens.go`, `http/auth_handlers.go`, `http/middleware.go`) | `sessions`, `magic_tokens` | login by password or token, gate, CSRF check, logout, issue, revoke all | what is over stays over, a token works once, a disabled user is out |
| Database (`db/*.go`) | `schema_migrations` and the schema | open, check compatibility, migrate, check currency | the schema is the one the running release was built for |
| Process lifecycle (`cmd/kojid`, `cmd/koji-agent`, `packaging/systemd`) | processes | start, drain, crash, restart | what was approved survives a restart |
| Configuration (`config/config.go`, flags in `cmd/*/main.go`) | none | scan, default, validate, override | what a program starts with is what its file and flags say |
| Host probes (`system/*.go`, `http/handlers_processes.go`) | the last CPU sample | read /proc, statfs, systemctl | a usage is a percentage; a list misses nobody who stayed, is audited and shows what the policy lets out |
| Metrics, health (`observability`, `http/handlers_health.go`) | counters | increment, report | a snapshot of no one moment is still consistent; what was answered was counted |
| HTTP plumbing (`http/mux.go`, `server.go`, `json.go`, ...) | none | route, encode, serve files | |
| Web interface (`web/src`) | page state | poll, decide, leave | the page comes to show the jobs as they are |
| Operator scripts (`packaging/scripts`) | files | backup, restore, pre-upgrade check | a restored host is the backed-up one |

How they meet:

- The handlers and the worker are goroutines of `kojid` that share one SQLite
  connection (`db.SetMaxOpenConns(1)`). A statement, or an explicit transaction,
  is atomic. Between two statements of one goroutine any other may run.
- Every administration or job handler runs behind `AuthGateMiddleware`, which
  reads the session and puts the principal in the request's context. It is not
  read again.
- The worker calls the agent over a Unix socket, one request per connection, with
  a deadline of two seconds. The agent detaches the command from the caller.
- Handlers and worker write audit rows with statements of their own. Job handlers
  answer 500 when the row cannot be written; identity handlers ignore it.
- An error of the worker ends `kojid`; systemd restarts it after a failure
  (`Restart=on-failure`) and does not after a clean exit. The agent likewise.
- `db.Open` checks and migrates the schema before anything else runs.
- Both programs read their configuration once, at start: by default one and the
  same file, `/etc/koji/koji.yaml`, each its own fields of it.
- The agent's socket is a name in a directory that both systemd units declare as
  theirs. Instances of the agent, systemd and operators change what it names.
- All requests for metrics share one `Probe`; all goroutines share the counters.
- The web page polls the API and sends decisions; nothing orders the answers.

## 2. What is hard about it

The list with file and line is in `PROJECT.json` ("hazards"). In short: handlers
act on counts and rows that other handlers have changed since; two-statement
operations stop after the first; a job is claimed, sent, answered and recorded
across two processes, either of which may die; the caller's timeout races the
command; audit rows follow the changes they tell of; timestamps are compared as
text in which whole seconds sort after fractions; several releases may open one
database; a socket is looked at, removed and bound in separate system calls; a
command's deadline, its exit and the ends of its pipes race; a list in the
configuration stays open over the lines that follow; processes come and go while
/proc is walked; counters are read one by one while they count; an older answer
lands on the page after a newer one. Each of these is an interleaving or a failure
at one particular point, which the repository's tests, sequential and mostly
fault-free, do not reach.

## 3. The modules and how they correspond to the code

| Module | Models | Checked by | Proofs |
|---|---|---|---|
| `JobLifecycle` | what the job pipeline promises, without how | (as a property) | |
| `JobControl` | job handlers, worker, client, agent, both processes | `MCJobControl` | `JobControlProofs` |
| `Identity` | bootstrap and identity administration | `MCIdentity` | `IdentityProofs` |
| `Sessions` | sessions, magic tokens, the gate | `MCSessions` | `SessionsProofs` |
| `Migrations` | `db.Open` by several processes and releases | `MCHost` | `MigrationsProofs` |
| `AgentSocket` | the agent's socket path: start, stop, crash, systemd, operator | `MCHost` | `AgentProofs` |
| `CommandRunner` | one bounded command: output, deadline, verdict | `MCHost` | `AgentProofs` |
| `RuntimeConfig` | file, defaults, flags and checks of both programs | `MCHost` | `RuntimeConfigProofs` |
| `HostProbe` | the CPU sample that requests share | `MCHost` | `ReportsProofs` |
| `ProcessList` | one request for the list of processes | `MCHost` | `ReportsProofs` |
| `Metrics` | counters, readiness checks, snapshots | `MCHost` | `ReportsProofs` |
| `JobsPage` | the jobs page of the browser | `MCHost` | `ReportsProofs` |
| `MCHost` | the composition of the eight modules before it | itself | `HostProofs` |

`MCHost` puts the eight parts that share no state with one another, nor with jobs,
users and sessions, into one run: a behaviour chooses a part at first and is one
of that part, so that nothing is spent on interleaving what does not interact. It
extends the parts, whose names therefore differ (`SocketInit`, `RunnerNext`, ...), so
that the properties its runs check are the definitions the theorems are about. Two
liveness properties are of some parts only, and `MCHost` says so
(`AgentReachableAgain`, `CommandReturns`); `PartsTypeOK` is the conjunction of the
parts' type invariants.

In every module about the database one SQL statement, or one explicit
transaction, is one action; in the others, one system call on the path, one read
of a file, one atomic addition, one line of the configuration, or one answer that
lands. Reading, deciding and writing in Go between two of these belongs to the
one it follows. Where a handler's next statement depends on what it read,
the position of the handler (`pc`) says which statement is next. Operators whose
comment begins with "Faulty variant" are not part of the specification: they are
plausible bugs, written down to show that the properties tell them from the code.

**JobLifecycle.** A job is created, decided once, claimed once, sent at most
once, and completed only after its effect was confirmed. `HostStops` loses what
is under way.

**JobControl.** The variables are the columns of `jobs` (`status`, `reason`,
`created`, `approvedBy`, `rejectedBy`), the set of rows of `audit_events`, per
request the handler's position and locals (`kind`, `about`, `service`, the row
`seen`, the `answer`), the process `kojid` with its worker (`wpc`, `wjob`,
`wres`), and the agent with what became of each job's command (`agent`, `cmd`,
`dispatched`).
`ArriveControl`, `ArriveDecision` and `ArriveDetail` take a request up to its
first statement: capability check, name and allow-list checks, body. `InsertJob`,
`DecideJob` (the conditional UPDATE), `RecheckJob` (what
`missingOrInvalidTransition` reads when no row was affected), `GetJob`, and one
action for each audit row follow. `StatementFails` is the error path of whichever
statement is next. The worker's actions are `WorkerClaim` (one UPDATE with its
sub-select), the audit of the start, `WorkerDial`, `WorkerReceive` or
`WorkerTimeout`, `WorkerFinish`, and the audit rows of the outcome; `WorkerFails`
is any error that makes `Worker.Start` return. The agent decides
(`AgentDecide`: mode, action, name, allow-list) and its command ends
(`AgentCommandEnds`), whether or not the caller is still there.
`KojidExitsOnWorkerError`, `KojidTerminated`, `KojidDrained`, `KojidCrashes` and
`KojidStarts` are `run()` of `cmd/kojid` and systemd.
`finishRunning`'s UPDATE and the SELECT after it are one action, because only the
worker touches a running job. Rows are told apart by their columns, so equal
audit rows are one member of the set; no property counts rows.
Creation times are in half seconds, so that `formatTime`'s order, in which the
text "…05Z" sorts after "…05.5Z", can be stated (`TextKey`).

**Identity.** The variables are the `users` rows (`state`, `super`), the
capabilities (`caps`), the bootstrap row (`claimed`), the identity rows of the
audit, and the handlers. Initially the database is new (`NewDatabase`), or an earlier
run of kojid has used it: there is a Super Admin, and any users and capabilities among
which somebody can administer (`UsedDatabase`). `overtaken` is history: the handlers
about to change something since whose last count another one changed who the managers
are. `Bootstrap` is one transaction. The five administration
operations go through `CheckCapability`, then the lockout checks in the order of
`identity/lockout.go` (`LookupTarget`, `CountSuperAdmins`, `CheckHoldsManage`,
`CountManagers`), then `Change`, then the audit row. The count and the statement
it guards are different actions, as they are in the code. The UPDATE by which
`DisableUser` revokes sessions is in `Sessions`.

**Sessions.** The variables are a clock in half seconds, `disabled_at`, the rows
of `sessions` and `magic_tokens`, and per client the next statement of its request
with the session it came with. `SelectSession`, `TouchSession` and `ValidateCSRF`
are the gate; `LogoutValidatesCSRF`, `LogoutSelects`, `TouchSession` and
`RevokeSession` are the logout handler, which is not behind the gate and checks
in another order; `Login` and `LoginCreates`, `LoginMagicToken` (one transaction),
`DisableUser` and `RevokeAll`, `EnableUser`, `LookupUser` and `InsertToken` are
the rest. What a request carries is chosen at the step that first reads it. A
request refused by its first statement is the stuttering step `Refused`. Who may
manage identities is fixed here and free in `Identity`; that the Super Admin is
never disabled, which this module assumes, is `SuperAdminKept`, a theorem of
`IdentityProofs`. `ended` and `stranded` are history variables: whose session
was told to be over, and whose disabling stopped before its second statement.

**Migrations.** The variables are the rows of `schema_migrations` (`history`),
whether that table exists, the SQL committed so far (`schema`), and for each
process its position in `db.Open`, its release and its place in the loop of
`RunMigrations`. A migration is a name and a text; a row has a name, which is the
primary key, and in place of the SHA-256 checksum, which covers name and SQL, the
text. So releases that give one name to different migrations, and releases that
give different names to the migration after the same one, are both possible.
`CheckCompatibility` is `CheckSchemaCompatibility`: every row is known by name with
its checksum, and none comes after one that is pending. `ReadMigration` is the SELECT
by name of `runMigration` with `verifyAppliedMigration`, and `ApplyMigration` its
transaction, which fails on the primary key or in the SQL. Which SQL fails on a schema
where which other was run is the constant `Clashing`; that none can be run twice is
so for each of the nine in `InitialMigrations()`. Initially the database is new, or
left by any release at any point of an upgrade, or has a history that no release
wrote. Refusals as "future" and as "corrupt" end the start alike and are one outcome.
`found` and `checked` are history: the rows there were at first, and those a process
under way saw in its check.

**AgentSocket.** The variables are the directory, what lies at the path (nothing,
a file, or the socket an instance bound), and per instance its next system call.
`StatParent`, `LstatPath`, `RemoveStale` and `BindSocket` are `listenUnixSocket`;
`LeaveServing`, `CloseListener`, `SweepLooks` and `SweepRemoves` are the end of
`Start`, in which `Close` runs twice (in the `select` and deferred), each time
with a sweep that looks and then removes. `Terminate` and `MainReturns` are
`run` of `cmd/koji-agent`: the signal ends `main` at once, wherever the goroutine
in `Start` is. `ProcessEnds` has what systemd then does: it removes the
`RuntimeDirectory` and, after an unclean end, starts the unit again.
`DialResult` is `classifyDialError` of the client. `disturbed` is history: which
instances another instance, the operator or the unit of `kojid` has interfered
with since they bound the path. An identity of an instance stands for a new
process each time it is used again. `OfUnit` are the instances systemd runs, one at a
time, and starts again while the unit is `wanted`; those `ByHand` nobody starts again.
The operator may put a file at the path at any moment, also between a look and a
removal; `placed` is history: which instances were running when that was last done.

**CommandRunner.** One call of `Run`. Output is counted, per stream, as bytes
written by the command, read by the copying goroutine and kept in the buffer;
`Write` is `limitedBuffer.Write` of a piece of any size, `Return` the three checks
of `Run` in their order, and `Reason` what `commandFailureReason` makes of it. The
command may take effect, write, succeed or fail at any time, and may leave a
child that keeps its output open.

**RuntimeConfig.** The scan of `parseConfig` line by line (`pending`, `seen`, the
fields of `Config`), then `FileEnds` (defaults and checks of `Load` or
`LoadAgent`), the flags in any order, and the checks once more (`StartProgram`).
`program` says which of the two programs it is. A line is a record of its kind,
whether its value parses, and the value. Scalars that only one of the checks
looks at are three fields whose value is whether they pass.

**HostProbe.** The kernel counts (`Tick`), and may take I/O wait back
(`IowaitFalls`, see proc(5)); a request takes the mutex, may fail on the memory,
reads a sample, subtracts the last one in unsigned arithmetic modulo `Wrap`, and
stores it. How many ticks there were in truth is kept beside as history.

**ProcessList.** A process is the number of its birth; `alive` says which one a pid
names. `ReadStat`, `ReadRSSPages`, `ReadProcessUID` and `ReadProcessCommandLine`
are the four opens of one row, `Disclosed` the files whose contents the policy
lets out, `RecordProcessList` the audit row and the answer.

**Metrics.** `CountRequest` and `CountFailure` are the two additions of the worker,
`StartCheck`, `RunCheck`, `CountCheck` and `AnswerCheck` the readiness handler,
`ReadCounter` and `AnswerSnapshot` a snapshot. Of the eighteen counters the six are
modelled that stand in a relation to another or to an answer.

**JobsPage.** A row is the number of changes its job has seen. `OpenPage`, `Poll` and
`LeavePage` are the effect of `usePolling` and its cleanup; `AnswerLands` and
`FailureLands` the two ends of a poll and of the list fetched after a decision;
`Decide`, `ServerDecides`, `DecisionLands` and `DecisionFails` are
`requestJobDecision`. `overlapped` is history: what was under way when another
list or the answer to a decision landed.

## 4. The runs

All passing runs explore their whole state space; states are distinct states.

| Run | Instance | States | Shows |
|---|---|---|---|
| `job_races` | 1 job, 3 requests of any kind and outcome of their checks, services that pass all, some or no lists, agent enabled or not, 1 fault | 1.2 M | authority, single dispatch, truthful outcomes, truthful and complete audit, statuses told when reached, inert refusals, and that `JobControl` implements `JobLifecycle` |
| `job_order` | 2 jobs, 4 requests; half a second apart, within one second or across two, with the agent refusing, or of one time with it enabled | 1.7 M | claims take the oldest job, to the second; outcomes stay with their job when commands overlap after a timeout |
| `job_liveness` | 1 job, 2 requests, 1 fault, fairness | 43 k | approved jobs get claimed, a living worker settles its job whatever the agent does |
| `doc_worker_audit` | as `job_liveness`, no fairness | violation | a worker transition without its audit row |
| `doc_restart` | as `job_liveness` | violation | a job left running for ever |
| `identity_races` | 2 users, a new or used database, 3 requests, all of them at once, 1 fault | 2.0 M | exactly one Super Admin, always active; the last manager goes only in a handler whose check another one made stale |
| `doc_last_manager` | the same, 2 requests, no fault | violation | no manager remains |
| `session_races` | 2 users, 3 sessions, 1 token, 2 clients, clock to 2, 1 fault | 1.8 M | ended sessions stay ended, a token opens one session, disabled users are signed out |
| `doc_disable` | 1 client, 2 sessions, 1 fault | violation | a half-done disable leaves sessions open |
| `host_parts` | the parts of `MCHost`, see below, fairness | 0.29 M | the properties of the eight modules from `Migrations` to `JobsPage` |
| `doc_production_list` | the configuration alone | violation | the development allow-list served in production |
| `doc_future_schema` | the migrations alone | violation | a release that serves on a schema its check would refuse |

The instances in `host_parts`:

| Part | Instance |
|---|---|
| `migrations` | 2 processes, 4 releases (one, an older one, a fork of the older one, one edited after it was released), 3 names, 4 texts, any set of their rows, 1 interrupted start |
| `agent` | 3 identities of instances, 2 for the unit's and 1 started by hand beside it, its socket elsewhere than by default, an operator with a file, 2 faults |
| `unit` | 3 identities for the unit's instances alone, in the directory of both units, beside the unit of `kojid`, 2 faults |
| `runner` | limit 2, up to 3 bytes per stream in any pieces, a child or none |
| `config` | files of up to 3 lines of 17 kinds, up to 2 flags of 8, both programs |
| `probe` | 2 requests, 3 ticks, 1 taken back, numbers modulo 8 |
| `list` | 3 pids, 1 more birth, policies of the three modes |
| `counters` | 2 dispatches, 2 readiness checks by two handlers, snapshots one at a time |
| `page` | 2 jobs with 2 changes, 2 polls, 1 decision at a time, 2 failures or visits |

Why the bounds are enough for the cases that matter. In `job_races` three requests
can create a job, approve it and compete with a second decision, while the worker
claims it, and one fault can fall on any statement, on `kojid` or on the agent;
two jobs, which only ordering and overlap need, are in `job_order`, whose
behaviours are those in which one of the two can be told. `AtMostOneDispatch`
and `WorkerHoldsItsJob` do not depend on the number of jobs and are proved for any. In the identity runs two
users are enough for a manager to be removed while another is; from a used database
two requests remove both, and a third can come between their checks and changes. Three sessions let a session be ended, a
second be in use and a third be opened; the idle timeout of one tick and the TTL
of two make every order of expiry happen. In the `migrations` part one release is
the beginning of another, a third goes on from the same beginning under another name,
and a fourth gives an old name to another text, so that lists are on one line, fork
after a common beginning, or are at odds from the first; two processes interleave in
every order; three names are enough for a gap, a changed row and a row a release
does not know. Two instances of the agent make every pair of a start, a stop and a crash
overlap, and the third identity is the socket that nobody owns any more. Three
bytes over a limit of two reach less, exactly and more than the limit, at once or
in pieces. Three lines are a list, its name and a field or comment between or
after them, or two spellings of one field. Three pids and one birth make a pid
change hands before, at and after its row is read. Two changes are the fewest by
which an older list, or the answer to a decision, can take a row back. Larger
instances have been checked once without a violation: 4 lines (0.5 M states), 4 pids
with 2 births (2.4 M), the page with 3 failures
(0.3 M in all).

Symmetry is used for requests, users, sessions, tokens and clients, which nothing
in the code orders, and never with liveness properties. Jobs are not symmetric:
`claimApprovedSQL` orders by id. The identity runs switch
deadlock checking off because a behaviour ends when its finitely many requests
have all been answered, and the runs of `MCHost` because an agent that was
stopped, a host whose bounded events have happened and a page that is left may
stay so. All other runs check for deadlock.

The properties, by what would have to go wrong:

- *Jobs.* `EffectsAreAuthorised`: something reaches the agent without a standing
  approval or an audited claim. `AtMostOneDispatch`: a restart or a retry sends a
  job again. `WorkerHoldsItsJob`: somebody else moves the worker's job.
  `OutcomesAreTruthful`: the row tells of something else than what the command
  did; nothing is promised for `command_timeout`. `AuditNeverLies`,
  `ToldStatusWasReached` (a status read too early, or of another job, is told),
  `SuccessIsAudited`, `RefusalsAreInert`: audit and answers against the rows.
  `ClaimsOldestSecond`: order of claims, an action property. `ClaimedJobSettles`,
  liveness: a worker waits for ever for an agent that does not answer.
- *Identity.* `SuperAdminSafe`, and the action property
  `LastManagerGoesOnlyByOverlap`: the last manager is removed by a handler whose
  check was not stale.
- *Sessions.* `EndedStaysEnded`, `TokensAreUsedOnce`, `DisabledAreSignedOut`,
  and, proved only, `CSRFExpiresWithinASecond`.
- *Migrations.* `HistoryIsTrue`: SQL is committed without its row, twice, or the other
  way round. `ServedSchemaIsCurrent`: a release serves without a migration of its own.
  `OnlyOverlapsMixHistories`, an action property: the history becomes a mixture of
  releases, though no start overlapped another of a different line.
  `StartsAreDecided`, liveness: an interrupted upgrade locks kojid out.
- *Agent socket.* `ServingIsReachable`: an agent serves a socket nobody can reach,
  with none of the listed disturbances to blame. `FilesFoundAreKept`, an action
  property: an agent removes a file that lay at the path when it was started, which it
  has looked at, whatever other agents and the operator do. `AgentReachableAgain`, liveness, of the
  unit: what an instance left behind keeps the next ones from starting.
- *Command.* `VerdictIsTrue`: output is cut where it fits, or kept short unnoticed
  (`CaptureIsExact`); a success is told before all output was there or for a
  command that did not succeed (`SuccessIsComplete`); a failure or truncation is
  told of a command that had neither, or one the deadline killed is not called a
  timeout (`FailureIsTold`). `CommandReturns`, liveness.
- *Configuration.* `ScanIsDeclared`: a list gets the other's names, or loses its
  own, or a file in order is refused; the reference is stated over the lines read
  so far and not by scanning. `MutationIsExplicit`: an agent would change units
  only the daemon was told of.
- *Probe.* `UsageIsAPercentage`: more idle ticks than ticks, or ticks that never were.
- *Process list.* `ListIsTrue`: exits during the walk hide others, the list goes out
  unaudited, or a summary row mixes two processes.
- *Counters.* `CountsFollowEvents`: a snapshot shows more agent failures than requests,
  or more degraded checks than checks, which are the pairs whose part is read first
  (`PartReadFirst`); a failure counted for a check that was not (`FailuresWereChecked`);
  an answer "degraded" or "fail" that no counter tells of (`AnswersAreCounted`).
- *Jobs page.* `GoesBackOnlyByOverlap` and `LeftIsLeft`, action properties, and
  `CatchesUp`: however answers overtook each other, a page left open ends up right.

## 5. Fairness

Assumed to go on are: goroutines that are ready run (the Go scheduler), time passes,
so that the deadline of the agent's client comes (`WorkerTimeout`, from `SetDeadline` in
`agent/client.go:113`) and in `CommandRunner` that of the command, after which the kernel
kills, systemd restarts what ended with an error (`Restart=on-failure`, `RestartSec=5` in both
units, below the default start limit), and in the browser intervals pass and what
was sent is answered or fails. All are weak
fairness on the step of one goroutine, timer or process. In `JobControl` nothing is
assumed of the agent: it may never decide, never answer and never start again, since a
child that keeps a command's pipes open keeps `Run` waiting
(`platform/command/runner.go:110`). In `AgentSocket` systemd starts the unit's
instances, never those started by hand. Nothing is assumed of requests, signals, faults or operators. What an operator stopped is not started
again, so the liveness properties except it: `ApprovedIsClaimed` while `kojid` is
not "off", `StartsAreDecided` unless "stopped",
`AgentReachableAgain` unless not wanted. The drain of a terminating `kojid`
ends because handlers end or its 15 seconds run out (`KojidDrained`). Faults are
bounded by `MaxFaults`: with faults for ever nothing would get done.

## 6. The proofs

The proofs hold for every value of the constants under the named assumptions in
the modules (disjoint ids, finite sets where sets are counted, positive times, at
least one migration per release). TLC evaluates the assumptions in each run.

**JobControlProofs.** All safety properties of `job_races` and `job_order` and the
refinement. The properties are not inductive: that a job is sent once rests on the worker never
meeting a job it sent before, which rests on claimed jobs staying claimed. `IInv`
adds `RowInv` (a row's columns fit its status), `HandlerInv` (what a handler knows
where it uses it), `DecisionInv` (decision columns and status agree), `WorkerInv`,
`DispatchInv` (a job is sent after its claim is audited, once; the worker has not
sent the job it is about to send), `OutcomeInv` (the result in the worker's hands
is true of the command), `AuditInv` and `AnswerInv` (what a handler is about to
record or answer is so). One lemma per part shows that a step keeps it.
`Refinement` maps the state of each command to an effect and shows every step to
be one of the lifecycle's or a stutter. `OldestSecondFirst` is `ClaimsOldestSecond`:
`OnlyClaimsRun` shows that an approved job starts running by `WorkerClaim` alone, which
takes the first in the order of the texts, and `TextOrder` that this order, though it
puts "…05Z" after "…05.5Z", is the order of the whole seconds.

**IdentityProofs.** `SuperAdminKept`, for any number of handlers, from: no
handler runs before bootstrap, only bootstrap makes a Super Admin, there is at
most one, and a disable that passed `CountSuperAdmins` is not about them.
`LastManagerNeedsOverlap`, for any number of handlers too: `FreshInv` says that a
handler about to remove a manager, and not overtaken since its last SELECT, leaves
another one. So the checks of `lockout.go` are right and their lack of a transaction,
which `doc_last_manager` shows to matter, is the only flaw.

**SessionsProofs.** `EndedSessions`, `SingleUseTokens`, `SignedOut`, from: a
handler holds a session that was inserted, what was told to be over is revoked, a
session opened by a token has its token consumed. `CSRFExpiry` bounds, for every
TTL, the error of comparing timestamps as text to less than a second.

**MigrationsProofs.** For any names, SQL, lists, releases and processes.
`CompatibilityIsExact` shows that the compatibility check lets a release through
exactly when the rows are a beginning of its list. The invariant says of a process past
its check (`Knows`) that the rows it saw there were such a beginning and are still
among the rows, and that each migration its loop has passed has its row, as its release
has it. From this, and the transaction, follow `TrueHistory` and `CurrentSchema`. For
`MixingTakesOverlap` a commit is looked at in two cases: where no row came since the
check but the loop's own, the rows are a beginning of the release's list after it too
(`CommitUndisturbed`); where other rows came and they are of one line with the release,
the longer of the two lists begins with all of them (`CommitOnOneLine`).

**AgentProofs**, of `AgentSocket`. `Reachable`, for any number of
instances. An undisturbed agent is reachable because it is alone: `ServesAlone` says
that beside an agent left undisturbed none runs and the path is its own, and
`SignalsReachProcesses` that what is told to stop is a process. `FoundFilesAreKept`, for
any number of instances and files, at any moment: `FilesCameLate` says that a file at the
path was put under every instance that is past its look at the path, so that one which
removes it was running before it came.

**AgentProofs**, of `CommandRunner`. `Captures`, `Successes` and `Failures`, together
`VerdictsAreTrue`, for any limit, amount of output and pieces. The invariant orders
the pipes (kept, read and written, and all read where a stream has ended) and the ends
(`EndsInOrder`: `cmd.Run` returned only after both streams), and says what each
verdict follows from.

**RuntimeConfigProofs.** `ScanIsTrue` and `MutationWasAskedFor`, for files and lists of
any length, any names and any flags. What the file declares is stated over the lines
(the nearest field above an item, the number of items between), while the scan keeps
one key and appends; `ScanInv` ties the two together at every line. `OpenList`: the
list that is open (`pending`) is the one that the last field names with an empty
value. `SeenIsRead`: the keys seen are those of the lines. And each list has the names
`IsDeclared` gives it. Appending an item adds one to the items of the last field and
changes those of no other (`ItemsCount`, `ItemsKept`), which is what induction over the
file comes to: every step reads one line. `RefusalInv` says that a refusal has its
reason in the file, and stays so, since nothing is read after it; `AgentListInv` that
from the end of the file on the agent's list is empty, declared or given by a flag.

**ReportsProofs**, of `HostProbe`. `UsageIsExact`, for any number of requests and any
width that the kernel's ticks stay below (`ProbeAssumption`): one request at most is
inside (`Exclusion`), its sample lies between the stored one and the kernel's counters
in ticks and idle ticks (`SamplesInOrder`), so the differences do not wrap.

**ReportsProofs**, of `ProcessList`. `ListsAreTrue`, for any number of pids, births and
any policies. `WalkGoesUp`: the rows are in the order of the pids, and all of them
before the entries still to be read. `NobodyIsLost`: whoever has lived since the walk
began is among those entries, is the process of the row under way, or has a row of its
own. So when the walk has ended and the first rows are let out, a process that is missing
comes after all of them (`ListComplete`). `AnswerIsAudited`: what is answered
is what the policy makes of the rows, after the audit row.

**ReportsProofs**, of `Metrics`. `CountsDoFollow`, for any number of readiness
requests and counts. That an outcome is counted no more often than its event is not
inductive: what matters is how many goroutines are between counting the one and the
other. The invariant has them as sets and counts their members: `MayFail`, the checks
that were counted and may yet count as failing in each of the three ways
(`FailuresAreOfChecks`), and the other way round `DegradedReports` and `FailedReports`,
the reports whose reason is counted already and whose answer is still to come.
`PartIsReadFirst` and `ShownIsCounted` follow a snapshot: what it has read is at most the
counter now, hence, for a pair whose part is read first, at most the whole when that is
read. For the two pairs read the other way round nothing more holds than that what is
shown was checked by now (section 7).

**ReportsProofs**, of `JobsPage`. `RowsGoBackOnlyByOverlap` and `LeavingIsFinal`, for any number of
polls and changes. `BehindServer`: nothing shown or answered is newer than the
server. `FreshUnlessOvertaken`: an answer under way that no other overtook is at least as
new as what is shown. A first form of the property, which excepted only
lists, was refuted by the proof attempt: the answer to a decision can land after
a newer list.

Each theorem about types (`TypeCorrect`, `SocketTypeCorrect` and so on) is the first
part of the inductive invariant of its module. Those of
`RuntimeConfig`, `ProcessList` and `Metrics` were checked by TLC on the instances of
`host_parts` before they were proved.

**HostProofs.** What was proved of the parts holds of their composition. A step of
`MCHost` is a step of one part and leaves the variables of the others (`StepsOfParts`), so
every behaviour of it is one of each part's own specification (`PartsBehave`), and of the
socket one of agents started by hand or of the agent under its unit (`SocketBehaves`). For
the latter the theorems of `AgentProofs` are instantiated with the unit's constants, whose
assumptions hold (`UnitAssumptions`). `PartsKeepTypes` is `PartsTypeOK`, and `HostIsSafe`
all other invariants and action properties of `host_parts`.

Every invariant and action property of the passing runs but `ToldStatusWasReached` is
thereby a theorem.

Model-checked only: `ToldStatusWasReached`, the liveness properties, since fairness and ENABLED are outside the
prover's reach (`ApprovedIsClaimed`, `ClaimedJobSettles`,
`StartsAreDecided`, `AgentReachableAgain`, `CommandReturns`, `CatchesUp`), and of
course the violations.

## 7. Where the documents and the code disagree

Found by runs ("findings" in `PROJECT.json`):

- `docs/INVARIANTS.md:99`, worker transitions are audited: the row is committed
  first, and a failure before the INSERT loses the audit row (`jobs/worker.go:76`).
- `docs/wiki/Home.md:31`, jobs survive a daemon restart: a job that was running
  stays so for ever (`jobs/worker.go:54`). It is also why a job is never sent twice.
- `docs/SECURITY.md:50`, the final identity manager cannot be removed: two
  handlers at once remove the last two (`identity/lockout.go:57`).
- `docs/api/generated/Endpoints.md:227`, disabling revokes sessions: the second
  statement may not run, a retry answers 404, and enabling the account gives the
  sessions back (`identity/store.go:100`).
- `docs/INVARIANTS.md:64`, production has an explicit allow-list: a file with
  `dev_mode: true` and no list gets the development list at `Load`, and `-dev=false`
  then leaves it to production (`config/config.go:201`).
- `docs/INVARIANTS.md:75` and `docs/SECURITY.md:114`, future schemas prevent startup: an
  older `kojid` that passed the compatibility check before a newer one migrated goes on
  to serve on the newer schema; the check and the migrations are not one transaction
  (`db/db.go:29`). Two releases of one line that fork can likewise both get past the check
  and mix their histories, which no later start of either accepts.

Read while modelling, not the subject of a run:

- `docs/wiki/Reference/Audit-Event-Reference.md:22` gives `job.approved` rows the
  status `approved`; `decide` reads the row again, and the worker may have moved it
  on (`jobs/jobs.go:234`).
- `docs/phases/PHASE-0009-agent-rpc-skeleton.md:29`, no removal of non-socket files: what
  lies at the path is looked at and removed in two calls (`agent/server.go:153` and `:170`),
  and Go's `UnixListener.Close` unlinks its path whatever lies there by then (`:58`).
- `docs/wiki/Reference/Metrics-Reference.md:25`, `readiness_db_failures_total` counts readiness
  checks: counters are read one by one in the order of their names, so that a snapshot can
  show more of these than of `readiness_checks_total` (`observability/metrics.go:94`), and
  of the migration failures too.
- Identity handlers ignore a failed audit INSERT (`http/handlers_admin.go:196`),
  job handlers answer 500 after a change that stays (`handlers_services.go:153`).
- `docs/phases/PHASE-0009-agent-rpc-skeleton.md:36`, only stale paths are removed: a
  starting agent takes a socket for stale without dialling it (`agent/server.go:142`).
- Both units declare `RuntimeDirectory=koji` (`packaging/systemd/kojid.service:29`):
  restarting `kojid` removes the directory of a running agent's socket, and nothing
  restarts the agent. `docs/wiki/Developer/Job-System.md:27` advises to restart the
  daemon. In the model this is `KojidUnitStops`, a disturbance.
- A command that succeeds but writes more than the limit, and one that succeeds as
  the deadline passes, are answered as `command_failed` and `command_timeout`,
  though the service was changed (`platform/command/runner.go:117`).
- `docs/INVARIANTS.md:61`, duplicate fields are rejected: `session_idle_timeout` and
  `session_idle_ttl` are one field and pass together (`config/config.go:385`).
- The documents put the agent's configuration in `/etc/koji/agent.yaml`; its default
  is `/etc/koji/koji.yaml` (`cmd/koji-agent/main.go:110`). `Load` checks the file before
  the flags, so a flag cannot complete a file that does not pass.
- `docs/phases/PHASE-0017-configurable-process-visibility-policy.md:38`, memory of processes is shown in "all" mode: `Fscanf` has no
  verb `*`, so that the pages are always 0 (`system/processes.go:177`).
- A decision that was made is shown as failed when the list fetched after it fails
  (`web/src/App.tsx:187`); polls share one error, and any good one clears it (`:324`).

## 8. What is not modelled

- Development mode, which bypasses the gate.
- Cookies, headers, encodings, the metadata filter and the listing of audit rows,
  job lists, and the other reads: they change no state.
- Branches the callers cannot reach: an action `agentRequestForJob` does not know,
  the executor's "not implemented", requests the client's own validation refuses.
- `CleanupExpiredAndRevokedSessions`, which only tests call.
- The truth of `command_timeout`: the command may have had its effect or not.
- `Identity` and `Sessions` are separate: capabilities are fixed in the second.
- What of a configuration is one scalar among many: its text, and the checks of one
  value each, are a field that passes or not.
- Meminfo, statfs, uptime and the output of `systemctl`: read, parsed and answered.
- The twelve counters that nothing is compared with, and the counts of jobs by status.
- Views of the page other than the jobs, and the list that is fetched after a service
  was controlled; they poll in the same way.
- HTTP plumbing: routing, encoding and file serving keep no state.
- The operator scripts: straight sequences of `sqlite3`, `tar` and `cp`, run by hand one
  at a time; what can go wrong is inside those tools.

## 9. What could be added

A composition of `Identity` and `Sessions`, so that a request acts with capabilities
and sessions that change under it; abstract specifications of `Migrations` (a history
that only grows along one release's list) and of `Sessions` (sessions that are open and
then over), with proofs that the detailed ones implement them, as `JobLifecycle` is for the
jobs.

Running it: `tlc -config <run's cfg> <run's module>` and `tlapm <module>` in this
directory; the pairs are in `PROJECT.json`.
