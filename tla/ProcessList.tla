---------------------------- MODULE ProcessList ----------------------------
(***************************************************************************)
(* One request for the list of processes: the capability, the walk over    *)
(* /proc, the audit row, and what the visibility policy lets out           *)
(* (http/handlers_processes.go, system/processes.go).                      *)
(*                                                                         *)
(* Of each process four files are opened by name, one after the other,     *)
(* while processes come and go and the kernel hands out their pids again.  *)
(* A process is the number of its birth; what a file says of it does not   *)
(* matter, only which process it speaks of, 0 when it could not be read.   *)
(***************************************************************************)
EXTENDS Naturals, Sequences

CONSTANTS
  MaxPid,      \* pids are numbered in the order in which os.ReadDir sorts their names
  Policies,    \* processVisibilityPolicy: mode, includeCommandLine, maxProcesses
  MaxBirths    \* bound on the processes of a behaviour

ASSUME ListAssumption ==
  /\ MaxPid \in Nat /\ MaxBirths \in Nat /\ MaxPid <= MaxBirths
  /\ Policies \subseteq [mode : {"summary", "owner", "all"},
                         includeCommandLine : BOOLEAN, maxProcesses : Nat]

VARIABLES
  policy,      \* the policy kojid was configured with
  alive,       \* per pid, the process it names: 0 when none
  births,      \* processes so far
  stayed,      \* history: processes that have lived since the walk began
  entries,     \* the pids of ReadDir still to be read
  listPc,      \* where the request is
  row,         \* the row being read
  rows,        \* the rows of ListProcesses
  audited,     \* a process.list row was written
  listAnswer,  \* the status answered, 0 before
  views        \* the rows answered

listVars ==
  <<policy, alive, births, stayed, entries, listPc, row, rows, audited, listAnswer, views>>

Pids == 1 .. MaxPid
Living == {alive[p] : p \in Pids} \ {0}

ListInit ==
  /\ policy \in Policies
  /\ alive = [p \in Pids |-> p]
  /\ births = MaxPid
  /\ stayed = {} /\ entries = {} /\ rows = << >> /\ views = << >>
  /\ listPc = "new"
  /\ row = [pid |-> 0]
  /\ audited = FALSE
  /\ listAnswer = 0

request == <<entries, listPc, row, rows, audited, listAnswer, views>>

ProcessExits(p) ==
  /\ alive[p] # 0
  /\ alive' = [alive EXCEPT ![p] = 0]
  /\ stayed' = stayed \ {alive[p]}
  /\ UNCHANGED <<policy, births, request>>

ProcessStarts(p) ==
  /\ alive[p] = 0 /\ births < MaxBirths
  /\ births' = births + 1
  /\ alive' = [alive EXCEPT ![p] = births']
  /\ UNCHANGED <<policy, stayed, request>>

host == <<policy, alive, births>>

Respond(status) == listPc' = "done" /\ listAnswer' = status

(* requireCapability, whose own audit row is that of a denial.             *)
CheckCapability ==
  /\ listPc = "new"
  /\ \/ listPc' = "walk" /\ UNCHANGED listAnswer
     \/ Respond(403)
  /\ UNCHANGED <<host, stayed, entries, row, rows, audited, views>>

(* os.ReadDir sorts by name; it may fail.                                  *)
ReadDir ==
  /\ listPc = "walk"
  /\ \/ /\ entries' = {p \in Pids : alive[p] # 0}
        /\ stayed' = Living
        /\ listPc' = "next" /\ UNCHANGED listAnswer
     \/ Respond(500) /\ UNCHANGED <<entries, stayed>>
  /\ UNCHANGED <<host, row, rows, audited, views>>

(* The entry the walk is at.                                               *)
IsNext(p) == p \in entries /\ \A q \in entries : p <= q

(* Faulty variant: the walk ends at the first process it cannot read.      *)
ReadStatOrStop ==
  /\ listPc = "next"
  /\ \E p \in Pids :
       /\ IsNext(p)
       /\ IF alive[p] = 0
          THEN entries' = {} /\ UNCHANGED <<listPc, row>>
          ELSE /\ entries' = entries \ {p}
               /\ row' = [pid |-> p, stat |-> alive[p]] /\ listPc' = "statm"
  /\ UNCHANGED <<host, stayed, rows, audited, listAnswer, views>>

(* The next process: name, state, parent and times come from its stat file. *)
(* One that has gone is left out.                                          *)
ReadStat ==
  /\ listPc = "next"
  /\ \E p \in Pids :
       /\ IsNext(p)
       /\ IF alive[p] = 0
          THEN UNCHANGED <<listPc, row>>
          ELSE row' = [pid |-> p, stat |-> alive[p]] /\ listPc' = "statm"
       /\ entries' = entries \ {p}
  /\ UNCHANGED <<host, stayed, rows, audited, listAnswer, views>>

(* readRSSPages scans for "%*d %d".  Go's Fscanf has no verb *: it fails,  *)
(* its error is dropped, and the pages are 0 whatever the process has.     *)
ReadRSSPages ==
  /\ listPc = "statm"
  /\ row' = [pid |-> row.pid, stat |-> row.stat, statm |-> 0]
  /\ listPc' = "status"
  /\ UNCHANGED <<host, stayed, entries, rows, audited, listAnswer, views>>

ReadProcessUID ==
  /\ listPc = "status"
  /\ row' = [pid |-> row.pid, stat |-> row.stat, statm |-> row.statm,
             status |-> alive[row.pid]]
  /\ listPc' = "cmdline"
  /\ UNCHANGED <<host, stayed, entries, rows, audited, listAnswer, views>>

ReadProcessCommandLine ==
  /\ listPc = "cmdline"
  /\ rows' = Append(rows, [pid |-> row.pid, stat |-> row.stat, statm |-> row.statm,
                           status |-> row.status, cmdline |-> alive[row.pid]])
  /\ row' = [pid |-> 0]
  /\ listPc' = "next"
  /\ UNCHANGED <<host, stayed, entries, audited, listAnswer, views>>

WalkEnds ==
  /\ listPc = "next" /\ entries = {}
  /\ listPc' = "audit"
  /\ UNCHANGED <<host, stayed, entries, row, rows, audited, listAnswer, views>>

(* The files whose contents a view has: in summary mode name and state, of *)
(* the stat file.                                                          *)
Disclosed ==
  {"pid", "stat"}
    \cup (IF policy.mode \in {"owner", "all"} THEN {"status"} ELSE {})
    \cup (IF policy.mode = "all" THEN {"statm"} ELSE {})
    \cup (IF policy.includeCommandLine THEN {"cmdline"} ELSE {})

View(r) == [file \in Disclosed |-> r[file]]

ProcessLimit ==
  IF policy.maxProcesses > Len(rows) THEN Len(rows) ELSE policy.maxProcesses

Apply == [i \in 1 .. ProcessLimit |-> View(rows[i])]

(* recordProcessList, and the answer only when the row was written.        *)
RecordProcessList ==
  /\ listPc = "audit"
  /\ \/ audited' = TRUE /\ Respond(200) /\ views' = Apply
     \/ Respond(500) /\ UNCHANGED <<audited, views>>
  /\ UNCHANGED <<host, stayed, entries, row, rows>>

Handle ==
  \/ CheckCapability \/ ReadDir
  \/ ReadStat \/ ReadRSSPages \/ ReadProcessUID \/ ReadProcessCommandLine
  \/ WalkEnds \/ RecordProcessList

ListNext == Handle \/ \E p \in Pids : ProcessExits(p) \/ ProcessStarts(p)

ListSpec == ListInit /\ [][ListNext]_listVars

Births == 0 .. MaxBirths
Row    == [pid : Pids, stat : Births, statm : Births, status : Births, cmdline : Births]

ListTypeOK ==
  /\ policy \in Policies
  /\ alive \in [Pids -> Births] /\ births \in Births
  /\ stayed \subseteq Births \ {0}
  /\ entries \subseteq Pids
  /\ listPc \in {"new", "walk", "next", "statm", "status", "cmdline", "audit", "done"}
  /\ rows \in Seq(Row) /\ Len(views) <= Len(rows)
  /\ audited \in BOOLEAN
  /\ listAnswer \in {0, 200, 403, 500}

---------------------------------------------------------------------------
(* Nobody is told of processes without a row that says who was.            *)
NothingUnaudited == views # << >> => audited

(* Exits and starts during the walk hide no other process: one that lived  *)
(* all the while is listed, unless as many come before it as are let out.  *)
LongLivedAreListed ==
  listAnswer = 200 =>
    \A p \in Pids : alive[p] \in stayed =>
      \/ \E i \in 1 .. Len(views) : views[i].pid = p /\ views[i].stat = alive[p]
      \/ Len(views) = policy.maxProcesses /\ \A i \in 1 .. Len(views) : views[i].pid < p

(* A list that is answered was audited and misses none that lived all the  *)
(* while.                                                                  *)
ListIsTrue == NothingUnaudited /\ LongLivedAreListed
=============================================================================
