---------------------------- MODULE AgentProofs ----------------------------
(***************************************************************************)
(* Proofs about what makes up the agent's host: its socket, for any        *)
(* instances, with or without systemd, an operator's files and the unit of *)
(* kojid; and one command, for any limit and any output.                   *)
(*                                                                         *)
(* An instance that serves undisturbed is alone: whoever else is started   *)
(* disturbs it, and it bound the path when nobody else was there.  So all  *)
(* that happens to the path until then is its own doing.                   *)
(*                                                                         *)
(* Of a command nothing is read of a stream that was not written, and      *)
(* nothing is written any more once its copy has ended; cmd.Run returns    *)
(* after both copies, so what the verdict was made from stays as it was.   *)
(***************************************************************************)
EXTENDS AgentSocket, CommandRunner, TLAPS

---------------------------------------------------------------------------
(* The socket.                                                             *)

(* Where an instance can be.                                               *)
AgentLabels == {"off", "serving"} \cup StartSteps \cup CloseSteps

(* Only a process that runs is told to terminate.                          *)
SignalsReachProcesses == \A a \in signaled : agentPc[a] # "off"

(* An instance that serves undisturbed has the path, and runs alone.       *)
ServesAlone ==
  \A a \in Agents :
    agentPc[a] = "serving" /\ a \notin disturbed => dir /\ path = a /\ Alive = {a}

(* Where an instance is that has looked at the path, and found no file.    *)
Past == {"remove", "bind", "serving"} \cup CloseSteps

(* A file lies at the path that was put under all of those.                *)
FilesCameLate ==
  path = "file" => \A a \in Agents : agentPc[a] \in Past => a \in placed

SocketInv == SocketTypeOK /\ SignalsReachProcesses /\ ServesAlone /\ FilesCameLate

(* The end of a process, in the terms of the invariant.                    *)
LEMMA EndPreserves ==
  ASSUME SocketInv, NEW a \in Agents, NEW clean \in BOOLEAN,
         ProcessEnds(a, clean), agentPc[a] # "off", agentFaults' \in 0 .. MaxAgentFaults
  PROVE  SocketInv'
<1>1. /\ agentPc' = [agentPc EXCEPT ![a] = "off"] /\ agentPc \in [Agents -> AgentLabels]
      /\ signaled' = signaled \ {a} /\ disturbed' = disturbed
      /\ path' \in {"none", path} /\ placed' = placed \ {a}
  BY DEF ProcessEnds, AgentGoes, SocketInv, SocketTypeOK, AgentLabels
<1>2. SocketTypeOK'
  <2>1. dir' \in BOOLEAN /\ wanted' \in BOOLEAN
    BY Zenon DEF SocketInv, SocketTypeOK, ProcessEnds
  <2>2. agentPc' \in [Agents -> AgentLabels]
    BY <1>1 DEF AgentLabels
  <2>3. path' \in Agents \cup {"none", "file"}
    BY <1>1 DEF SocketInv, SocketTypeOK
  <2>4. signaled' \subseteq Agents /\ disturbed' \subseteq Agents /\ placed' \subseteq Agents
    BY <1>1 DEF SocketInv, SocketTypeOK
  <2> QED BY <2>1, <2>2, <2>3, <2>4 DEF SocketTypeOK, AgentLabels
<1>3. SignalsReachProcesses'
  BY <1>1 DEF SocketInv, SocketTypeOK, SignalsReachProcesses
<1>4. ServesAlone'
  <2> SUFFICES ASSUME NEW b \in Agents, agentPc'[b] = "serving", b \notin disturbed'
               PROVE  FALSE
    BY DEF ServesAlone
  <2>1. agentPc[b] = "serving" /\ b # a /\ b \notin disturbed
    BY <1>1
  <2>2. Alive = {b}
    BY <2>1 DEF SocketInv, ServesAlone
  <2> QED BY <2>1, <2>2 DEF Alive
<1>5. FilesCameLate'
  BY <1>1 DEF SocketInv, SocketTypeOK, FilesCameLate, Past, CloseSteps
<1> QED BY <1>2, <1>3, <1>4, <1>5 DEF SocketInv

(* A start that fails ends its process.                                    *)
LEMMA FailedStartPreserves ==
  ASSUME SocketInv, NEW a \in Agents, StartFails(a), agentPc[a] # "off"
  PROVE  SocketInv'
<1>1. PICK clean \in BOOLEAN : ProcessEnds(a, clean) /\ agentFaults' = agentFaults
  BY DEF StartFails
<1> QED BY <1>1, EndPreserves DEF SocketInv, SocketTypeOK

(* A system call that leaves the path to an instance other than one that   *)
(* serves, and moves it on, concerns that instance only, which goes past   *)
(* the look where no file is, or one that was put under it.                *)
LEMMA CallPreserves ==
  ASSUME SocketInv, NEW a \in Agents, NEW where \in StartSteps \cup CloseSteps,
         AgentGoes(a, where), agentPc[a] # "off",
         path' \in {path, "none"}, path' = "file" /\ where \in Past => a \in placed,
         dir' = dir, signaled' = signaled, wanted' = wanted, disturbed' = disturbed,
         placed' = placed,
         agentFaults' \in 0 .. MaxAgentFaults
  PROVE  SocketInv'
<1>1. agentPc' = [agentPc EXCEPT ![a] = where] /\ agentPc \in [Agents -> AgentLabels] /\ where # "serving"
      /\ where # "off"
  BY DEF AgentGoes, SocketInv, SocketTypeOK, StartSteps, CloseSteps, AgentLabels
<1>2. SocketTypeOK'
  BY SocketAssumption DEF SocketInv, SocketTypeOK, AgentGoes
<1>3. SignalsReachProcesses'
  BY <1>1 DEF SocketInv, SocketTypeOK, SignalsReachProcesses
<1>4. ServesAlone'
  <2> SUFFICES ASSUME NEW b \in Agents, agentPc'[b] = "serving", b \notin disturbed'
               PROVE  FALSE
    BY DEF ServesAlone
  <2>1. agentPc[b] = "serving" /\ b # a /\ b \notin disturbed
    BY <1>1
  <2>2. Alive = {b}
    BY <2>1 DEF SocketInv, ServesAlone
  <2> QED BY <2>1, <2>2 DEF Alive
<1>5. FilesCameLate'
  BY <1>1, SocketAssumption DEF SocketInv, SocketTypeOK, FilesCameLate
<1> QED BY <1>2, <1>3, <1>4, <1>5 DEF SocketInv

(* The invariant holds at first.                                           *)
LEMMA SocketInitInv ==
  ASSUME SocketInit
  PROVE  SocketInv
<1>1. SocketTypeOK
  BY SocketAssumption DEF SocketInit, SocketTypeOK
<1>2. SignalsReachProcesses /\ ServesAlone /\ FilesCameLate
  BY DEF SocketInit, SignalsReachProcesses, ServesAlone, FilesCameLate, Past, CloseSteps
<1> QED BY <1>1, <1>2 DEF SocketInv

(* Every step of an instance, and all that is done to it, keeps it.        *)
LEMMA AgentStepInv ==
  ASSUME SocketInv, NEW a \in Agents, AgentStep(a)
  PROVE  SocketInv'
<1>0. SocketTypeOK /\ "none" \notin Agents /\ "file" \notin Agents
  BY SocketAssumption DEF SocketInv
<1>1. CASE StatParent(a)
  BY <1>0, <1>1, CallPreserves, FailedStartPreserves DEF StatParent, SocketTypeOK, StartSteps,
                                                      Past, CloseSteps
<1>2. CASE LstatPath(a)
  BY <1>0, <1>2, CallPreserves, FailedStartPreserves DEF LstatPath, SocketTypeOK, StartSteps
<1>3. CASE RemoveStale(a)
  BY <1>0, <1>3, CallPreserves, FailedStartPreserves DEF RemoveStale, SocketTypeOK, StartSteps
<1>4. CASE BindSocket(a)
  <2>1. CASE StartFails(a)
    BY <1>4, <2>1, FailedStartPreserves DEF BindSocket
  <2>2. CASE ~StartFails(a)
    <3>1. /\ agentPc[a] = "bind" /\ dir /\ path = "none" /\ path' = a
          /\ agentPc' = [agentPc EXCEPT ![a] = "serving"] /\ agentPc \in [Agents -> AgentLabels]
          /\ disturbed' = IF Others(a) = {} THEN disturbed \ {a} ELSE disturbed \cup {a}
          /\ dir' = dir /\ signaled' = signaled /\ placed' = placed
      BY <1>0, <1>4, <2>2 DEF BindSocket, AgentGoes, SocketTypeOK, StartSteps, CloseSteps, AgentLabels
    <3>2. SocketTypeOK'
      BY <1>0, <1>4, <2>2 DEF BindSocket, AgentGoes, SocketTypeOK
    <3>3. SignalsReachProcesses'
      BY <1>0, <3>1 DEF SocketInv, SocketTypeOK, SignalsReachProcesses
    <3>4. ServesAlone'
      <4> SUFFICES ASSUME NEW b \in Agents, agentPc'[b] = "serving", b \notin disturbed'
                   PROVE  dir' /\ path' = b /\ Alive' = {b}
        BY DEF ServesAlone
      <4>1. CASE b = a
        BY <3>1, <4>1 DEF Others, Alive
      <4>2. CASE b # a
        <5>1. agentPc[b] = "serving" /\ b \notin disturbed
          BY <3>1, <4>2
        <5>2. Alive = {b}
          BY <5>1 DEF SocketInv, ServesAlone
        <5> QED BY <3>1, <4>2, <5>2 DEF Alive
      <4> QED BY <4>1, <4>2
    <3>5. FilesCameLate'
      BY <1>0, <3>1 DEF FilesCameLate
    <3> QED BY <3>2, <3>3, <3>4, <3>5 DEF SocketInv
  <2> QED BY <2>1, <2>2
<1>5. CASE MainReturns(a)
  BY <1>0, <1>5, EndPreserves DEF MainReturns, SocketInv, SignalsReachProcesses, SocketTypeOK
<1>6. CASE LeaveServing(a)
  BY <1>0, <1>6, CallPreserves DEF LeaveServing, SocketTypeOK, CloseSteps, SocketInv, FilesCameLate,
                                   Past
<1>7. CASE CloseListener(a)
  BY <1>0, <1>7, CallPreserves DEF CloseListener, SocketTypeOK, CloseSteps
<1>8. CASE SweepLooks(a)
  BY <1>0, <1>8, CallPreserves DEF SweepLooks, SocketTypeOK, CloseSteps, SocketInv, FilesCameLate,
                                   Past
<1>9. CASE SweepRemoves(a)
  BY <1>0, <1>9, CallPreserves DEF SweepRemoves, SocketTypeOK, CloseSteps
<1>10. CASE StartReturns(a)
  BY <1>0, <1>10, FailedStartPreserves DEF StartReturns
<1> QED BY <1>1, <1>2, <1>3, <1>4, <1>5, <1>6, <1>7, <1>8, <1>9, <1>10 DEF AgentStep

LEMMA EnvironmentInv ==
  ASSUME SocketInv, NEW a \in Agents, Environment(a)
  PROVE  SocketInv'
<1>0. SocketTypeOK /\ "none" \notin Agents /\ "file" \notin Agents
  BY SocketAssumption DEF SocketInv
<1>1. CASE Launch(a)
  <2>1. /\ agentPc[a] = "off" /\ agentPc' = [agentPc EXCEPT ![a] = "stat"] /\ agentPc \in [Agents -> AgentLabels]
        /\ disturbed' = disturbed \cup Others(a) /\ path' = path /\ signaled' = signaled
        /\ placed' = placed
    BY <1>0, <1>1 DEF Launch, AgentGoes, SocketTypeOK, StartSteps, CloseSteps, AgentLabels
  <2>2. SocketTypeOK'
    BY SocketAssumption, <1>0, <1>1 DEF Launch, AgentGoes, SocketTypeOK, StartSteps, Others, Alive
  <2>3. SignalsReachProcesses'
    BY <1>0, <2>1 DEF SocketInv, SocketTypeOK, SignalsReachProcesses
  <2>4. ServesAlone'
    BY <2>1 DEF ServesAlone, Others, Alive
  <2>5. FilesCameLate'
    BY <2>1 DEF SocketInv, FilesCameLate, Past, CloseSteps
  <2> QED BY <2>2, <2>3, <2>4, <2>5 DEF SocketInv
<1>2. CASE Terminate(a)
  <2>1. wanted' \in BOOLEAN
    BY <1>0, <1>2, Zenon DEF Terminate, SocketTypeOK
  <2> QED BY <1>0, <1>2, <2>1 DEF Terminate, SocketInv, SocketTypeOK, SignalsReachProcesses,
                                  ServesAlone, Alive, FilesCameLate
<1>3. CASE AcceptFails(a)
  <2>1. agentFaults' \in 0 .. MaxAgentFaults
    BY SocketAssumption, <1>0, <1>3 DEF AcceptFails, SocketTypeOK
  <2> QED BY <1>0, <1>3, <2>1, CallPreserves DEF AcceptFails, CloseSteps
<1>4. CASE Crash(a)
  <2>1. agentFaults' \in 0 .. MaxAgentFaults /\ agentPc[a] # "off"
    BY SocketAssumption, <1>0, <1>4 DEF Crash, SocketTypeOK
  <2>2. PICK clean \in BOOLEAN : ProcessEnds(a, clean)
    BY <1>4, Zenon DEF Crash
  <2> QED BY <2>1, <2>2, EndPreserves
<1> QED BY <1>1, <1>2, <1>3, <1>4 DEF Environment

(* The unit of kojid and the operator disturb whoever runs.                *)
LEMMA HostInv ==
  ASSUME SocketInv,
         KojidUnitStops \/ KojidUnitStarts \/ OperatorPutsFile \/ OperatorTakesFile
  PROVE  SocketInv'
<1>0. SocketTypeOK /\ "none" \notin Agents /\ "file" \notin Agents
  BY SocketAssumption DEF SocketInv
<1>1. CASE KojidUnitStops
  <2>1. ServesAlone'
    BY <1>1 DEF KojidUnitStops, ServesAlone, Alive
  <2>2. agentFaults' \in 0 .. MaxAgentFaults
    BY SocketAssumption, <1>0, <1>1 DEF KojidUnitStops, SocketTypeOK
  <2>3. SocketTypeOK'
    BY <1>0, <1>1, <2>2 DEF KojidUnitStops, SocketTypeOK, Alive
  <2>4. SignalsReachProcesses'
    BY <1>1 DEF KojidUnitStops, SocketInv, SignalsReachProcesses
  <2>5. FilesCameLate'
    BY <1>1 DEF KojidUnitStops, FilesCameLate
  <2> QED BY <2>1, <2>3, <2>4, <2>5 DEF SocketInv
<1>2. CASE KojidUnitStarts
  BY <1>0, <1>2 DEF KojidUnitStarts, SocketInv, SocketTypeOK, SignalsReachProcesses, ServesAlone, Alive,
                    FilesCameLate
<1>3. CASE OperatorPutsFile
  <2>1. ServesAlone'
    BY <1>3 DEF OperatorPutsFile, ServesAlone, Alive
  <2>2. FilesCameLate'
    BY <1>3 DEF OperatorPutsFile, FilesCameLate, Past, CloseSteps, Alive
  <2> QED BY SocketAssumption, <1>0, <1>3, <2>1, <2>2 DEF OperatorPutsFile, SocketInv, SocketTypeOK,
                                  SignalsReachProcesses, Alive
<1>4. CASE OperatorTakesFile
  BY <1>0, <1>4 DEF OperatorTakesFile, SocketInv, SocketTypeOK, SignalsReachProcesses, ServesAlone,
                    Alive, FilesCameLate
<1> QED BY <1>1, <1>2, <1>3, <1>4

(* The invariant is one.                                                   *)
THEOREM SocketInvariance == SocketSpec => []SocketInv
<1>1. SocketInit => SocketInv
  BY SocketInitInv
<1>2. SocketInv /\ [SocketNext]_socketVars => SocketInv'
  <2> SUFFICES ASSUME SocketInv, [SocketNext]_socketVars PROVE SocketInv'
    OBVIOUS
  <2>1. CASE UNCHANGED socketVars
    BY <2>1 DEF socketVars, SocketInv, SocketTypeOK, SignalsReachProcesses, ServesAlone, Alive,
                FilesCameLate
  <2>2. CASE SocketNext
    BY <2>2, AgentStepInv, EnvironmentInv, HostInv DEF SocketNext
  <2> QED BY <2>1, <2>2
<1> QED BY <1>1, <1>2, PTL DEF SocketSpec

(* The types of AgentSocket, for any number of instances.                  *)
THEOREM SocketTypeCorrect == SocketSpec => []SocketTypeOK
<1>1. SocketInv => SocketTypeOK
  BY DEF SocketInv
<1> QED BY <1>1, SocketInvariance, PTL

(* An agent that serves undisturbed is reached by whoever dials the path,  *)
(* however many instances started, stopped and crashed before it.          *)
THEOREM Reachable == SocketSpec => []ServingIsReachable
<1>1. SocketInv => ServingIsReachable
  BY SocketAssumption DEF SocketInv, ServesAlone, ServingIsReachable, DialResult, Listening
<1> QED BY <1>1, SocketInvariance, PTL

(* Which step removes a file.                                              *)
LEMMA FileRemoved ==
  ASSUME SocketInv, SocketNext, path = "file", path' # "file", dir', agentPc' # agentPc
  PROVE  \E a \in placed : agentPc'[a] # agentPc[a]
<1>0. SocketTypeOK /\ FilesCameLate /\ "none" \notin Agents /\ "file" \notin Agents
  BY SocketAssumption DEF SocketInv
<1>1. ASSUME NEW a \in Agents, NEW clean, ProcessEnds(a, clean)
      PROVE  FALSE
  BY <1>1 DEF ProcessEnds
<1>2. ASSUME NEW a \in Agents, agentPc[a] \in Past, NEW where, where # agentPc[a], AgentGoes(a, where)
      PROVE  \E b \in placed : agentPc'[b] # agentPc[b]
  BY <1>0, <1>2 DEF FilesCameLate, AgentGoes, SocketTypeOK
<1>3. ASSUME NEW a \in Agents, AgentStep(a)
      PROVE  \E b \in placed : agentPc'[b] # agentPc[b]
  <2>1. ~StartFails(a) /\ ~MainReturns(a)
    BY <1>1 DEF StartFails, MainReturns
  <2>2. ~StatParent(a) /\ ~LstatPath(a) /\ ~StartReturns(a) /\ ~LeaveServing(a) /\ ~SweepLooks(a)
        /\ ~BindSocket(a)
    BY <2>1 DEF StatParent, LstatPath, StartReturns, LeaveServing, SweepLooks, BindSocket
  <2>3. CASE RemoveStale(a)
    BY <1>2, <2>1, <2>3 DEF RemoveStale, Past
  <2>4. CASE CloseListener(a)
    BY <1>2, <2>4 DEF CloseListener, Past, CloseSteps
  <2>5. CASE SweepRemoves(a)
    BY <1>2, <2>5 DEF SweepRemoves, Past, CloseSteps
  <2> QED BY <1>3, <2>1, <2>2, <2>3, <2>4, <2>5 DEF AgentStep
<1>4. ASSUME NEW a \in Agents, Environment(a)
      PROVE  \E b \in placed : agentPc'[b] # agentPc[b]
  <2>1. ~Launch(a) /\ ~Terminate(a) /\ ~Crash(a)
    BY <1>1 DEF Launch, Terminate, Crash
  <2>2. CASE AcceptFails(a)
    BY <1>2, <2>2 DEF AcceptFails, Past
  <2> QED BY <1>4, <2>1, <2>2 DEF Environment
<1>5. ~KojidUnitStops /\ ~KojidUnitStarts /\ ~OperatorPutsFile /\ ~OperatorTakesFile
  BY DEF KojidUnitStops, KojidUnitStarts, OperatorPutsFile, OperatorTakesFile
<1> QED BY <1>3, <1>4, <1>5 DEF SocketNext

(* A file that lay at the path when an agent was started is not removed by *)
(* it, with the operator free to put one there at any moment.              *)
THEOREM FoundFilesAreKept == SocketSpec => FilesFoundAreKept
<1>1. SocketInv /\ [SocketNext]_socketVars =>
        [path = "file" /\ path' # "file" /\ dir' =>
           agentPc' = agentPc \/ \E a \in placed : agentPc'[a] # agentPc[a]]_socketVars
  BY FileRemoved DEF socketVars
<1> QED BY <1>1, SocketInvariance, PTL DEF SocketSpec, FilesFoundAreKept

---------------------------------------------------------------------------
(* One command.                                                            *)

(* A pipe holds what was written and not read; its copy ends after the     *)
(* last writer and the last byte.                                          *)
PipesInOrder ==
  \A s \in Streams :
    /\ read[s] <= written[s]
    /\ process = "ready" => written[s] = 0
    /\ s \in eof => read[s] = written[s] /\ ~held /\ process # "running"
    /\ s \in eof /\ process = "ready" => waited # "no"

(* A command succeeds after its effect, is killed by a deadline or a       *)
(* caller, and cmd.Run returns what became of it, after both copies.       *)
EndsInOrder ==
  /\ process = "succeeded" => applied
  /\ process = "killed" => late \/ cancelled
  /\ waited # "no" => eof = Streams /\ process # "running"
  /\ waited = "nil" <=> waited # "no" /\ process = "succeeded"

(* What each verdict was made from.                                        *)
VerdictFollows ==
  /\ verdict = "not_allowed" => process = "ready"
  /\ verdict \in {"ok", "truncated", "failed", "timeout"} => waited # "no"
  /\ verdict = "ok" => waited = "nil" /\ \A s \in Streams : ~truncated[s]
  /\ verdict = "truncated" => waited = "nil" /\ \E s \in Streams : truncated[s]
  /\ verdict = "failed" => waited = "error" /\ (process = "killed" => cancelled)

RunnerInv == RunnerTypeOK /\ CaptureIsExact /\ PipesInOrder /\ EndsInOrder /\ VerdictFollows

(* The invariant holds at first.                                           *)
LEMMA RunnerInitInv ==
  ASSUME RunnerInit
  PROVE  RunnerInv
<1>1. RunnerTypeOK
  <2>1. {held, applied, late, cancelled} \subseteq BOOLEAN
    BY RunnerAssumption DEF RunnerInit
  <2>2. /\ written \in [Streams -> 0 .. MaxOutput] /\ read \in [Streams -> 0 .. MaxOutput]
        /\ kept \in [Streams -> 0 .. Limit] /\ truncated \in [Streams -> BOOLEAN]
    BY RunnerAssumption DEF RunnerInit
  <2> QED BY <2>1, <2>2 DEF RunnerInit, RunnerTypeOK
<1>2. CaptureIsExact /\ PipesInOrder
  BY RunnerAssumption DEF RunnerInit, CaptureIsExact, PipesInOrder
<1>3. EndsInOrder /\ VerdictFollows
  BY DEF RunnerInit, EndsInOrder, VerdictFollows
<1> QED BY <1>1, <1>2, <1>3 DEF RunnerInv

(* Steps that leave the output alone.                                      *)
LEMMA CommandInv ==
  ASSUME RunnerInv,
         \/ RefuseCommand \/ CommandNotStarted \/ StartCommand \/ TakesEffect \/ CommandExits
         \/ ChildExits \/ DeadlinePasses \/ CallerCancels \/ Kill \/ WaitReturns \/ Return
  PROVE  RunnerInv'
<1> USE DEF output, clock
<1>1. RunnerTypeOK'
  <2>1. UNCHANGED <<written, read, kept, truncated>>
    BY DEF RefuseCommand, CommandNotStarted, StartCommand, TakesEffect, CommandExits, ChildExits,
           DeadlinePasses, CallerCancels, Kill, WaitReturns, Return
  <2>2. eof' \subseteq Streams
    BY DEF RunnerInv, RunnerTypeOK, RefuseCommand, CommandNotStarted, StartCommand, TakesEffect, CommandExits,
           ChildExits, DeadlinePasses, CallerCancels, Kill, WaitReturns, Return
  <2>3. process' \in {"ready", "running", "succeeded", "failed", "killed"}
    BY DEF RunnerInv, RunnerTypeOK, RefuseCommand, CommandNotStarted, StartCommand, TakesEffect, CommandExits,
           ChildExits, DeadlinePasses, CallerCancels, Kill, WaitReturns, Return
  <2>4. {held, applied, late, cancelled}' \subseteq BOOLEAN
    BY DEF RunnerInv, RunnerTypeOK, RefuseCommand, CommandNotStarted, StartCommand, TakesEffect, CommandExits,
           ChildExits, DeadlinePasses, CallerCancels, Kill, WaitReturns, Return
  <2>5. waited' \in {"no", "nil", "error"} /\ verdict' \in Verdicts \cup {"none"}
    BY DEF RunnerInv, RunnerTypeOK, Verdicts, RefuseCommand, CommandNotStarted, StartCommand, TakesEffect,
           CommandExits, ChildExits, DeadlinePasses, CallerCancels, Kill, WaitReturns, Return
  <2> QED BY <2>1, <2>2, <2>3, <2>4, <2>5 DEF RunnerInv, RunnerTypeOK
<1>2. CaptureIsExact'
  BY DEF RunnerInv, CaptureIsExact, RefuseCommand, CommandNotStarted, StartCommand, TakesEffect, CommandExits,
         ChildExits, DeadlinePasses, CallerCancels, Kill, WaitReturns, Return
<1>3. PipesInOrder'
  <2>1. CASE CommandNotStarted
    BY <2>1 DEF RunnerInv, RunnerTypeOK, PipesInOrder, CommandNotStarted
  <2>2. CASE ~CommandNotStarted
    BY <2>2 DEF RunnerInv, RunnerTypeOK, PipesInOrder, EndsInOrder, RefuseCommand, StartCommand, TakesEffect,
         CommandExits, ChildExits, DeadlinePasses, CallerCancels, Kill, WaitReturns, Return
  <2> QED BY <2>1, <2>2
<1>4. EndsInOrder'
  BY DEF RunnerInv, RunnerTypeOK, EndsInOrder, RefuseCommand, CommandNotStarted, StartCommand, TakesEffect,
         CommandExits, ChildExits, DeadlinePasses, CallerCancels, Kill, WaitReturns, Return
<1>5. VerdictFollows'
  <2>1. CASE Return
    BY <2>1 DEF RunnerInv, RunnerTypeOK, VerdictFollows, EndsInOrder, Return
  <2>2. CASE ~Return
    BY <2>2 DEF RunnerInv, RunnerTypeOK, VerdictFollows, EndsInOrder, RefuseCommand, CommandNotStarted, StartCommand,
         TakesEffect, CommandExits, ChildExits, DeadlinePasses, CallerCancels, Kill, WaitReturns
  <2> QED BY <2>1, <2>2
<1> QED BY <1>1, <1>2, <1>3, <1>4, <1>5 DEF RunnerInv

(* limitedBuffer.Write keeps what fits, and says when something did not.   *)
LEMMA WriteInv ==
  ASSUME RunnerInv, NEW s \in Streams, NEW n \in Chunks, Write(s, n)
  PROVE  RunnerInv'
<1> USE DEF clock
<1>0. /\ n \in Nat /\ n > 0 /\ s \notin eof
      /\ Limit \in Nat /\ MaxOutput \in Nat
      /\ read[s] \in Nat /\ written[s] \in Nat /\ kept[s] \in 0 .. Limit
      /\ read[s] + n <= written[s] /\ written[s] <= MaxOutput
      /\ truncated[s] \in BOOLEAN
  BY RunnerAssumption DEF Chunks, Write, RunnerInv, RunnerTypeOK
<1>1. /\ read' = [read EXCEPT ![s] = read[s] + n]
      /\ kept' = [kept EXCEPT ![s] = IF n > Limit - kept[s] THEN Limit ELSE kept[s] + n]
      /\ truncated' = [truncated EXCEPT ![s] = IF n > Limit - kept[s] THEN TRUE ELSE truncated[s]]
      /\ UNCHANGED <<process, held, applied, written, eof, waited, verdict, late, cancelled>>
  <2>1. CASE n > Limit - kept[s]
    BY <2>1 DEF Write
  <2>2. CASE ~(n > Limit - kept[s])
    <3>1. truncated = [truncated EXCEPT ![s] = truncated[s]]
      BY DEF RunnerInv, RunnerTypeOK
    <3> QED BY <2>2, <3>1 DEF Write
  <2> QED BY <2>1, <2>2
<1>2. RunnerTypeOK'
  <2>1. read' \in [Streams -> 0 .. MaxOutput] /\ kept' \in [Streams -> 0 .. Limit]
    BY <1>0, <1>1 DEF RunnerInv, RunnerTypeOK
  <2>2. truncated' \in [Streams -> BOOLEAN]
    <3>1. truncated \in [Streams -> BOOLEAN]
      BY DEF RunnerInv, RunnerTypeOK
    <3>2. (IF n > Limit - kept[s] THEN TRUE ELSE truncated[s]) \in BOOLEAN
      BY <1>0
    <3> QED BY <1>1, <3>1, <3>2
  <2> QED BY <1>1, <2>1, <2>2 DEF RunnerInv, RunnerTypeOK
<1>3. CaptureIsExact'
  BY <1>0, <1>1 DEF RunnerInv, RunnerTypeOK, CaptureIsExact
<1>4. PipesInOrder'
  BY <1>0, <1>1 DEF RunnerInv, RunnerTypeOK, PipesInOrder
<1>5. EndsInOrder'
  BY <1>1 DEF RunnerInv, EndsInOrder
<1>6. VerdictFollows'
  <2>1. waited = "no"
    BY <1>0 DEF RunnerInv, RunnerTypeOK, EndsInOrder
  <2> QED BY <1>1, <2>1 DEF RunnerInv, VerdictFollows
<1> QED BY <1>2, <1>3, <1>4, <1>5, <1>6 DEF RunnerInv

(* The command writes only while a copy reads.                             *)
LEMMA StreamInv ==
  ASSUME RunnerInv, NEW s \in Streams,
         PipeEnds(s) \/ \E n \in Chunks : CommandWrites(s, n)
  PROVE  RunnerInv'
<1> USE DEF clock
<1>1. CASE PipeEnds(s)
  BY <1>1 DEF PipeEnds, RunnerInv, RunnerTypeOK, CaptureIsExact, PipesInOrder, EndsInOrder, VerdictFollows
<1>2. ASSUME NEW n \in Chunks, CommandWrites(s, n)
      PROVE  RunnerInv'
  <2>0. /\ n \in Nat /\ Limit \in Nat /\ MaxOutput \in Nat
        /\ read[s] \in Nat /\ written[s] \in Nat
        /\ written[s] + n <= MaxOutput /\ s \notin eof /\ process # "ready"
    BY RunnerAssumption, <1>2 DEF Chunks, CommandWrites, RunnerInv, RunnerTypeOK, PipesInOrder
  <2>1. RunnerTypeOK'
    BY <1>2, <2>0 DEF CommandWrites, RunnerInv, RunnerTypeOK
  <2>2. CaptureIsExact'
    BY <1>2 DEF CommandWrites, RunnerInv, CaptureIsExact
  <2>3. PipesInOrder'
    BY <1>2, <2>0 DEF CommandWrites, RunnerInv, RunnerTypeOK, PipesInOrder
  <2>4. EndsInOrder' /\ VerdictFollows'
    BY <1>2 DEF CommandWrites, RunnerInv, EndsInOrder, VerdictFollows
  <2> QED BY <2>1, <2>2, <2>3, <2>4 DEF RunnerInv
<1> QED BY <1>1, <1>2

(* The invariant is one.                                                   *)
THEOREM RunnerInvariance == RunnerSpec => []RunnerInv
<1>1. RunnerInit => RunnerInv
  BY RunnerInitInv
<1>2. RunnerInv /\ [RunnerNext]_runnerVars => RunnerInv'
  <2> SUFFICES ASSUME RunnerInv, [RunnerNext]_runnerVars PROVE RunnerInv'
    OBVIOUS
  <2>1. CASE UNCHANGED runnerVars
    BY <2>1 DEF runnerVars, RunnerInv, RunnerTypeOK, CaptureIsExact, PipesInOrder, EndsInOrder, VerdictFollows
  <2>2. CASE RunnerNext
    BY <2>1, <2>2, CommandInv, WriteInv, StreamInv DEF RunnerNext, Finished
  <2> QED BY <2>1, <2>2
<1> QED BY <1>1, <1>2, PTL DEF RunnerSpec

(* The types of CommandRunner, for any bounds.                             *)
THEOREM RunnerTypeCorrect == RunnerSpec => []RunnerTypeOK
<1>1. RunnerInv => RunnerTypeOK
  BY DEF RunnerInv
<1> QED BY <1>1, RunnerInvariance, PTL

(* A buffer holds the output up to the limit, and tells when it is not     *)
(* all, however the output is cut into pieces.                             *)
THEOREM Captures == RunnerSpec => []CaptureIsExact
<1>1. RunnerInv => CaptureIsExact
  BY DEF RunnerInv
<1> QED BY <1>1, RunnerInvariance, PTL

(* What is reported as a success is one, with all of its output.           *)
THEOREM Successes == RunnerSpec => []SuccessIsComplete
<1>1. ASSUME RunnerInv, Reason = "ok"
      PROVE  process = "succeeded" /\ applied /\ \A s \in Streams : kept[s] = written[s]
  <2>1. verdict = "ok"
    BY <1>1 DEF Reason, RunnerInv, RunnerTypeOK, Verdicts
  <2>2. waited = "nil" /\ \A s \in Streams : ~truncated[s]
    BY <1>1, <2>1 DEF RunnerInv, VerdictFollows
  <2>3. process = "succeeded" /\ applied /\ eof = Streams
    BY <1>1, <2>2 DEF RunnerInv, EndsInOrder
  <2>4. ASSUME NEW s \in Streams PROVE kept[s] = written[s]
    BY <1>1, <2>2, <2>3 DEF RunnerInv, CaptureIsExact, PipesInOrder
  <2> QED BY <2>3, <2>4
<1>2. RunnerInv => SuccessIsComplete
  BY <1>1 DEF SuccessIsComplete
<1> QED BY <1>2, RunnerInvariance, PTL

(* What is reported as a failure is one, and what the deadline cut off is  *)
(* told apart from it.                                                     *)
THEOREM Failures == RunnerSpec => []FailureIsTold
<1>1. ASSUME RunnerInv, verdict = "truncated"
      PROVE  process = "succeeded" /\ \E s \in Streams : written[s] > Limit
  <2>1. waited = "nil" /\ \E s \in Streams : truncated[s]
    BY <1>1 DEF RunnerInv, VerdictFollows
  <2>2. process = "succeeded" /\ eof = Streams
    BY <1>1, <2>1 DEF RunnerInv, EndsInOrder
  <2> QED BY <1>1, <2>1, <2>2 DEF RunnerInv, CaptureIsExact, PipesInOrder
<1>2. ASSUME RunnerInv, verdict = "failed"
      PROVE  process # "succeeded"
  BY <1>2 DEF RunnerInv, EndsInOrder, VerdictFollows
<1>3. ASSUME RunnerInv, verdict # "none", process = "killed"
      PROVE  verdict = "timeout" \/ cancelled
  BY <1>3 DEF RunnerInv, RunnerTypeOK, Verdicts, EndsInOrder, VerdictFollows
<1>4. RunnerInv => FailureIsTold
  BY <1>1, <1>2, <1>3 DEF FailureIsTold
<1> QED BY <1>4, RunnerInvariance, PTL

(* Whatever Run returns is so, for any limit, however the output arrives   *)
(* and whenever the deadline passes.                                       *)
THEOREM VerdictsAreTrue == RunnerSpec => []VerdictIsTrue
BY Captures, Successes, Failures, PTL DEF VerdictIsTrue
=============================================================================
