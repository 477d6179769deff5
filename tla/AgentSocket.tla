---------------------------- MODULE AgentSocket ----------------------------
(***************************************************************************)
(* The Unix socket koji-agent listens on: how an instance clears the path, *)
(* binds it, and takes it down (agent/server.go, cmd/koji-agent/main.go),  *)
(* what systemd does to its directory (packaging/systemd), and what a      *)
(* client meets that dials it (agent/client.go).                           *)
(*                                                                         *)
(* A path is shared by name.  An instance checks and removes what lies     *)
(* there in separate system calls, and the instance that runs next, the    *)
(* operator, and systemd may act between them.  One system call on the     *)
(* path is one action.                                                     *)
(***************************************************************************)
EXTENDS Naturals

CONSTANTS
  Agents,            \* identities of instances; one is used again once nothing is left of it
  ByHand,            \* those started by hand; the others are of the unit, one at a time
  RuntimeDirectory,  \* the socket is in the RuntimeDirectory= of both units, as by default
  KojidStops,        \* the unit of kojid is stopped and started meanwhile
  Operator,          \* the operator puts a file where the socket belongs
  MaxAgentFaults     \* bound on crashes, failing accepts, files put and directories lost

(* systemd runs one instance of the unit; others may be started by hand.   *)
ASSUME SocketAssumption ==
  /\ Agents \cap {"none", "file"} = {}
  /\ MaxAgentFaults \in Nat
  /\ {RuntimeDirectory, KojidStops, Operator} \subseteq BOOLEAN

OfUnit == Agents \ ByHand

VARIABLES
  dir,          \* the socket's directory is there
  path,         \* what lies at the path: nothing, a file, or the socket an instance bound
  agentPc,      \* per instance, its next system call
  signaled,     \* instances told to terminate
  wanted,       \* systemd is to keep the unit running
  agentFaults,  \* faults so far
  disturbed,    \* history: instances that were not left alone since they bound the path
  placed        \* history: instances that were running when the last file was put at the path

socketVars == <<dir, path, agentPc, signaled, wanted, agentFaults, disturbed, placed>>

StartSteps == {"stat", "lstat", "remove", "bind"}
CloseSteps == {"unlink", "lstat1", "remove1", "lstat2", "remove2", "returned"}
Alive    == {a \in Agents : agentPc[a] # "off"}
Others(a) == Alive \ {a}
Bound    == {a \in Agents : agentPc[a] = "serving"}

SocketTypeOK ==
  /\ dir \in BOOLEAN /\ wanted \in BOOLEAN
  /\ path \in Agents \cup {"none", "file"}
  /\ agentPc \in [Agents -> {"off", "serving"} \cup StartSteps \cup CloseSteps]
  /\ signaled \subseteq Agents
  /\ agentFaults \in 0 .. MaxAgentFaults
  /\ disturbed \subseteq Agents /\ placed \subseteq Agents

(* The host after its boot, or left by an instance that ended anyhow.      *)
SocketInit ==
  /\ dir = TRUE
  /\ \/ path = "none"
     \/ path \in Agents /\ ~RuntimeDirectory
     \/ path = "file" /\ Operator
  /\ agentPc = [a \in Agents |-> "off"]
  /\ signaled = {} /\ disturbed = {} /\ placed = {}
  /\ wanted = TRUE
  /\ agentFaults = 0

AgentGoes(a, where) == agentPc' = [agentPc EXCEPT ![a] = where]

(***************************************************************************)
(* The end of a process.  The kernel closes its listener and leaves the    *)
(* name.  When it is the unit's, systemd removes the unit's directory, and *)
(* starts the unit again unless the exit was clean (Restart=on-failure);   *)
(* nobody starts again what was started by hand.                           *)
(***************************************************************************)
ProcessEnds(a, clean) ==
  /\ AgentGoes(a, "off")
  /\ signaled' = signaled \ {a}
  /\ wanted' = (wanted /\ ~(clean /\ a \in OfUnit))
  /\ dir' = (dir /\ ~(RuntimeDirectory /\ a \in OfUnit))
  /\ path' = IF RuntimeDirectory /\ a \in OfUnit THEN "none" ELSE path
  /\ placed' = placed \ {a}
  /\ UNCHANGED disturbed

(* main() reports the error of Start and exits 1; once a signal is pending *)
(* its select may as well take the signal and exit 0.                      *)
StartFails(a) ==
  /\ \E clean \in BOOLEAN : (clean => a \in signaled) /\ ProcessEnds(a, clean)
  /\ UNCHANGED agentFaults

(* systemd starts the unit, again or by an operator's systemctl start; or  *)
(* somebody starts an instance from a shell.                               *)
Launch(a) ==
  /\ agentPc[a] = "off" /\ path # a
  /\ a \in OfUnit => Alive \subseteq ByHand
  /\ AgentGoes(a, "stat")
  /\ wanted' = (wanted \/ a \in OfUnit)
  /\ dir' = (dir \/ (RuntimeDirectory /\ a \in OfUnit))
  /\ disturbed' = disturbed \cup Others(a)
  /\ UNCHANGED <<path, signaled, agentFaults, placed>>

(* validateSocketParent.                                                   *)
StatParent(a) ==
  /\ agentPc[a] = "stat"
  /\ \/ dir /\ AgentGoes(a, "lstat")
        /\ UNCHANGED <<dir, path, signaled, wanted, agentFaults, disturbed, placed>>
     \/ ~dir /\ StartFails(a)

(* Faulty variant: whatever is at the path makes the start fail.           *)
LstatPathRefuses(a) ==
  /\ agentPc[a] = "lstat"
  /\ \/ path = "none" /\ AgentGoes(a, "bind")
        /\ UNCHANGED <<dir, path, signaled, wanted, agentFaults, disturbed, placed>>
     \/ path # "none" /\ StartFails(a)

(* Faulty variant: whatever is at the path is taken for a stale socket.     *)
LstatPathAnyMode(a) ==
  /\ agentPc[a] = "lstat"
  /\ AgentGoes(a, IF path = "none" THEN "bind" ELSE "remove")
  /\ UNCHANGED <<dir, path, signaled, wanted, agentFaults, disturbed, placed>>

(* removeStaleSocket looks: nothing there, a socket, or something else.    *)
LstatPath(a) ==
  /\ agentPc[a] = "lstat"
  /\ \/ /\ path # "file"
        /\ AgentGoes(a, IF path = "none" THEN "bind" ELSE "remove")
        /\ UNCHANGED <<dir, path, signaled, wanted, agentFaults, disturbed, placed>>
     \/ path = "file" /\ StartFails(a)

(* removeStaleSocket removes, by name, or finds nothing and gives up.      *)
RemoveStale(a) ==
  /\ agentPc[a] = "remove"
  /\ \/ /\ path # "none"
        /\ path' = "none" /\ AgentGoes(a, "bind")
        /\ UNCHANGED <<dir, signaled, wanted, agentFaults, disturbed, placed>>
     \/ path = "none" /\ StartFails(a)

(* net.Listen: the bind fails when the name is taken or the directory gone. *)
BindSocket(a) ==
  /\ agentPc[a] = "bind"
  /\ \/ /\ dir /\ path = "none"
        /\ path' = a /\ AgentGoes(a, "serving")
        /\ disturbed' = IF Others(a) = {} THEN disturbed \ {a} ELSE disturbed \cup {a}
        /\ UNCHANGED <<dir, signaled, wanted, agentFaults, placed>>
     \/ ~(dir /\ path = "none") /\ StartFails(a)

(* SIGTERM or SIGINT, from systemctl stop, which ends the wish for the     *)
(* unit, or from somebody's kill: run() cancels the context and returns at *)
(* once.  The goroutine in Start goes on until the process is gone.        *)
Terminate(a) ==
  /\ agentPc[a] # "off" /\ a \notin signaled
  /\ signaled' = signaled \cup {a}
  /\ \/ wanted' = wanted
     \/ wanted' = FALSE /\ a \in OfUnit
  /\ UNCHANGED <<dir, path, agentPc, agentFaults, disturbed, placed>>

MainReturns(a) ==
  /\ a \in signaled
  /\ ProcessEnds(a, TRUE)
  /\ UNCHANGED agentFaults

(* Start leaves its select: the context is done, and Close is called here  *)
(* and again by the defer; or Accept failed, and only the defer calls it.  *)
LeaveServing(a) ==
  /\ agentPc[a] = "serving" /\ a \in signaled
  /\ AgentGoes(a, "unlink")
  /\ UNCHANGED <<dir, path, signaled, wanted, agentFaults, disturbed, placed>>

(* Faulty variant: serve goes on accepting after it closed its listener.   *)
AcceptRetried(a) ==
  /\ agentPc[a] = "serving" /\ agentFaults < MaxAgentFaults
  /\ agentFaults' = agentFaults + 1
  /\ path' = "none"
  /\ UNCHANGED <<dir, agentPc, signaled, wanted, disturbed, placed>>

AcceptFails(a) ==
  /\ agentPc[a] = "serving" /\ agentFaults < MaxAgentFaults
  /\ agentFaults' = agentFaults + 1
  /\ path' = "none" /\ AgentGoes(a, "lstat2")
  /\ UNCHANGED <<dir, signaled, wanted, disturbed, placed>>

(* UnixListener.Close unlinks the name, whatever it names by now.          *)
CloseListener(a) ==
  /\ agentPc[a] = "unlink"
  /\ path' = "none" /\ AgentGoes(a, "lstat1")
  /\ UNCHANGED <<dir, signaled, wanted, agentFaults, disturbed, placed>>

(* removeSocketFile, once in each call of Close: look, then remove.        *)
SweepLooks(a) ==
  /\ agentPc[a] \in {"lstat1", "lstat2"}
  /\ IF agentPc[a] = "lstat1"
     THEN AgentGoes(a, IF path \in Agents THEN "remove1" ELSE "lstat2")
     ELSE AgentGoes(a, IF path \in Agents THEN "remove2" ELSE "returned")
  /\ UNCHANGED <<dir, path, signaled, wanted, agentFaults, disturbed, placed>>

SweepRemoves(a) ==
  /\ agentPc[a] \in {"remove1", "remove2"}
  /\ path' = "none"
  /\ AgentGoes(a, IF agentPc[a] = "remove1" THEN "lstat2" ELSE "returned")
  /\ UNCHANGED <<dir, signaled, wanted, agentFaults, disturbed, placed>>

(* Start returned the error of Accept; main exits 1.                       *)
StartReturns(a) == agentPc[a] = "returned" /\ StartFails(a)

(* A panic in a connection's goroutine, SIGKILL.                           *)
Crash(a) ==
  /\ agentPc[a] # "off" /\ agentFaults < MaxAgentFaults
  /\ agentFaults' = agentFaults + 1
  /\ ProcessEnds(a, FALSE)

(* The unit of kojid stops, and with it goes the directory it declares as  *)
(* its own; when it starts the directory is made anew, empty.              *)
KojidUnitStops ==
  /\ KojidStops /\ RuntimeDirectory /\ dir
  /\ agentFaults < MaxAgentFaults
  /\ agentFaults' = agentFaults + 1
  /\ dir' = FALSE /\ path' = "none"
  /\ disturbed' = disturbed \cup Alive
  /\ UNCHANGED <<agentPc, signaled, wanted, placed>>

KojidUnitStarts ==
  /\ KojidStops /\ RuntimeDirectory /\ ~dir
  /\ dir' = TRUE
  /\ UNCHANGED <<path, agentPc, signaled, wanted, agentFaults, disturbed, placed>>

(* The operator replaces what lies at the path by a file, at any time, or  *)
(* takes a file away.                                                      *)
OperatorPutsFile ==
  /\ Operator /\ dir /\ path # "file"
  /\ agentFaults < MaxAgentFaults
  /\ agentFaults' = agentFaults + 1
  /\ path' = "file"
  /\ disturbed' = disturbed \cup Alive /\ placed' = Alive
  /\ UNCHANGED <<dir, agentPc, signaled, wanted>>

OperatorTakesFile ==
  /\ Operator /\ path = "file"
  /\ path' = "none"
  /\ UNCHANGED <<dir, agentPc, signaled, wanted, agentFaults, disturbed, placed>>

AgentStep(a) ==
  \/ StatParent(a) \/ LstatPath(a) \/ RemoveStale(a) \/ BindSocket(a)
  \/ MainReturns(a) \/ LeaveServing(a) \/ CloseListener(a)
  \/ SweepLooks(a) \/ SweepRemoves(a) \/ StartReturns(a)

Environment(a) == Launch(a) \/ Terminate(a) \/ AcceptFails(a) \/ Crash(a)

SocketNext ==
  \/ \E a \in Agents : AgentStep(a) \/ Environment(a)
  \/ KojidUnitStops \/ KojidUnitStarts
  \/ OperatorPutsFile \/ OperatorTakesFile

SocketSpec == SocketInit /\ [][SocketNext]_socketVars

(* Goroutines run, and systemd starts a unit that is to run and does not:  *)
(* RestartSec=5 keeps it from its limit of starts in a time.  Nobody has   *)
(* to start, stop or replace anything by hand.                             *)
SystemdStarts == wanted /\ \E a \in OfUnit : Launch(a)

SocketFairness ==
  /\ WF_socketVars(SystemdStarts)
  /\ \A a \in Agents : WF_socketVars(AgentStep(a))

FairSocketSpec == SocketSpec /\ SocketFairness

(***************************************************************************)
(* What a client's dial comes to (dial, classifyDialError), and the        *)
(* readiness check with it (CheckReachable).                               *)
(***************************************************************************)
Listening(a) == agentPc[a] \in {"serving", "unlink"}

DialResult ==
  IF ~dir \/ path = "none" THEN "unavailable"
  ELSE IF path \in Agents /\ Listening(path) THEN "connected"
  ELSE "refused"

---------------------------------------------------------------------------
(* Properties.                                                             *)

(* An agent that serves is reached by whoever dials the path, unless since *)
(* it bound the path another instance ran beside it, the operator changed  *)
(* the path, or the unit of kojid took the directory away.                 *)
ServingIsReachable ==
  \A a \in Agents :
    agentPc[a] = "serving" /\ a \notin disturbed => DialResult = "connected" /\ path = a

(* What is at the path is looked at in one call and removed in another,    *)
(* and a listener unlinks its name, so a file can vanish that was put      *)
(* there meanwhile.  One that was there when an agent was started is never *)
(* removed by that agent, at its start nor at its end, whatever other      *)
(* agents and the operator do.                                             *)
FilesFoundAreKept ==
  [][path = "file" /\ path' # "file" /\ dir' =>
       agentPc' = agentPc \/ \E a \in placed : agentPc'[a] # agentPc[a]]_socketVars

(* After a crash, a failed accept or a start that failed, the unit's agent *)
(* gets reachable again, however the socket was left, and whatever agents  *)
(* are started beside it: unless the unit was stopped, a file is in its    *)
(* way, or an agent serves that was disturbed as told above.               *)
ReachableAgain ==
  wanted ~> \/ DialResult = "connected"
            \/ ~wanted
            \/ path = "file"
            \/ Bound \cap disturbed # {}
=============================================================================
