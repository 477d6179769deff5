----------------------------- MODULE HostProofs -----------------------------
(***************************************************************************)
(* The composition: every part of the host behaves as the specification of *)
(* its own module says, whichever part it is that moves, so that what was  *)
(* proved of the modules holds of MCHost for every value of the constants. *)
(***************************************************************************)
EXTENDS MCHost, AgentProofs, MigrationsProofs, RuntimeConfigProofs, ReportsProofs

\* The proofs about the agent's socket, for the agent under its unit.
Unit == INSTANCE AgentProofs WITH
    ByHand <- {}, RuntimeDirectory <- TRUE, KojidStops <- TRUE

\* What a step of the host is to each of its parts: a step of the part, or none.
LEMMA StepsOfParts ==
  ASSUME [HostNext]_hostVars
  PROVE  /\ [Next]_vars /\ [RunnerNext]_runnerVars /\ [ConfigNext]_configVars
         /\ [ProbeNext]_probeVars /\ [ListNext]_listVars /\ [MetricsNext]_metricsVars
         /\ [PageNext]_pageVars
         /\ part # "unit" => part' # "unit" /\ [SocketNext]_socketVars
         /\ part = "unit" => part' = "unit" /\ [AsUnit!SocketNext]_(AsUnit!socketVars)
<1>1. AsUnit!socketVars = socketVars
  BY DEF AsUnit!socketVars, socketVars
<1>2. CASE UNCHANGED hostVars
  BY <1>1, <1>2 DEF hostVars, AsUnit!socketVars, socketVars
<1>3. CASE HostNext
  BY <1>1, <1>3 DEF HostNext, Rest, AsUnit!socketVars, socketVars
<1> QED BY <1>2, <1>3

\* Each part but the socket behaves as its module says.
THEOREM PartsBehave ==
  HostSpec => /\ Spec /\ RunnerSpec /\ ConfigSpec /\ ProbeSpec /\ ListSpec /\ MetricsSpec
              /\ PageSpec
<1>1. HostInit => /\ Init /\ RunnerInit /\ ConfigInit /\ ProbeInit /\ ListInit /\ MetricsInit
                  /\ PageInit
  BY DEF HostInit
<1>2. [HostNext]_hostVars =>
        /\ [Next]_vars /\ [RunnerNext]_runnerVars /\ [ConfigNext]_configVars
        /\ [ProbeNext]_probeVars /\ [ListNext]_listVars /\ [MetricsNext]_metricsVars
        /\ [PageNext]_pageVars
  BY StepsOfParts
<1> QED BY <1>1, <1>2, PTL
     DEF HostSpec, Spec, RunnerSpec, ConfigSpec, ProbeSpec, ListSpec, MetricsSpec, PageSpec

\* The socket is that of the unit.
UnitMoves == part = "unit"

\* The socket behaves as that of agents started by hand, or as that of the unit.
THEOREM SocketBehaves == HostSpec => SocketSpec \/ AsUnit!SocketSpec
<1>1. HostInit => /\ UnitMoves => AsUnit!SocketInit
                  /\ ~UnitMoves => SocketInit
  BY DEF HostInit, UnitMoves
<1>2. [HostNext]_hostVars =>
        /\ UnitMoves => UnitMoves' /\ [AsUnit!SocketNext]_(AsUnit!socketVars)
        /\ ~UnitMoves => ~UnitMoves' /\ [SocketNext]_socketVars
  BY StepsOfParts DEF UnitMoves
<1> QED BY <1>1, <1>2, PTL DEF HostSpec, SocketSpec, AsUnit!SocketSpec
\* A step of an agent under its unit, in the one instance and in the other.
LEMMA SameAgentStep ==
  ASSUME NEW i \in Agents, AsUnit!AgentStep(i)
  PROVE  Unit!AgentStep(i)
<1>1. ASSUME AsUnit!StartFails(i) PROVE Unit!StartFails(i)
  BY <1>1 DEF AsUnit!StartFails, Unit!StartFails, AsUnit!ProcessEnds,
              Unit!ProcessEnds, AsUnit!AgentGoes, Unit!AgentGoes, AsUnit!OfUnit, Unit!OfUnit
<1>2. ASSUME AsUnit!StatParent(i) \/ AsUnit!LstatPath(i) \/ AsUnit!RemoveStale(i)
             \/ AsUnit!BindSocket(i)
      PROVE  Unit!StatParent(i) \/ Unit!LstatPath(i) \/ Unit!RemoveStale(i)
             \/ Unit!BindSocket(i)
  BY <1>1, <1>2 DEF AsUnit!StatParent, Unit!StatParent, AsUnit!LstatPath, Unit!LstatPath,
      AsUnit!RemoveStale, Unit!RemoveStale, AsUnit!BindSocket, Unit!BindSocket,
      AsUnit!AgentGoes, Unit!AgentGoes, AsUnit!Others, Unit!Others, AsUnit!Alive,
      Unit!Alive
<1>3. ASSUME AsUnit!MainReturns(i) PROVE Unit!MainReturns(i)
  BY <1>3 DEF AsUnit!MainReturns, Unit!MainReturns, AsUnit!ProcessEnds,
              Unit!ProcessEnds, AsUnit!AgentGoes, Unit!AgentGoes, AsUnit!OfUnit, Unit!OfUnit
<1>4. ASSUME AsUnit!LeaveServing(i) \/ AsUnit!CloseListener(i) \/ AsUnit!SweepLooks(i)
             \/ AsUnit!SweepRemoves(i) \/ AsUnit!StartReturns(i)
      PROVE  Unit!LeaveServing(i) \/ Unit!CloseListener(i) \/ Unit!SweepLooks(i)
             \/ Unit!SweepRemoves(i) \/ Unit!StartReturns(i)
  BY <1>1, <1>4 DEF AsUnit!LeaveServing, Unit!LeaveServing, AsUnit!CloseListener,
      Unit!CloseListener, AsUnit!SweepLooks, Unit!SweepLooks, AsUnit!SweepRemoves,
      Unit!SweepRemoves, AsUnit!StartReturns, Unit!StartReturns, AsUnit!AgentGoes,
      Unit!AgentGoes
<1> QED BY <1>2, <1>3, <1>4 DEF AsUnit!AgentStep, Unit!AgentStep

\* What happens to an agent, likewise.
LEMMA SameEnvironment ==
  ASSUME NEW i \in Agents, AsUnit!Environment(i)
  PROVE  Unit!Environment(i)
<1>1. ASSUME AsUnit!Launch(i) PROVE Unit!Launch(i)
  BY <1>1 DEF AsUnit!Launch, Unit!Launch, AsUnit!AgentGoes, Unit!AgentGoes,
              AsUnit!Others, Unit!Others, AsUnit!Alive, Unit!Alive, AsUnit!OfUnit,
              Unit!OfUnit
<1>2. ASSUME AsUnit!Terminate(i) \/ AsUnit!AcceptFails(i) \/ AsUnit!Crash(i)
      PROVE  Unit!Terminate(i) \/ Unit!AcceptFails(i) \/ Unit!Crash(i)
  BY <1>2 DEF AsUnit!Terminate, Unit!Terminate, AsUnit!AcceptFails, Unit!AcceptFails,
              AsUnit!Crash, Unit!Crash, AsUnit!ProcessEnds, Unit!ProcessEnds,
              AsUnit!AgentGoes, Unit!AgentGoes, AsUnit!OfUnit, Unit!OfUnit
<1> QED BY <1>1, <1>2 DEF AsUnit!Environment, Unit!Environment

\* The unit of the composition is the one the proofs are instantiated for.
LEMMA UnitIsUnit ==
  /\ AsUnit!SocketSpec => Unit!SocketSpec
  /\ Unit!SocketTypeOK => AsUnit!SocketTypeOK
<1>1. AsUnit!SocketInit => Unit!SocketInit
  BY DEF AsUnit!SocketInit, Unit!SocketInit
<1>2. ASSUME \/ AsUnit!KojidUnitStops \/ AsUnit!KojidUnitStarts
             \/ AsUnit!OperatorPutsFile \/ AsUnit!OperatorTakesFile
      PROVE  \/ Unit!KojidUnitStops \/ Unit!KojidUnitStarts
             \/ Unit!OperatorPutsFile \/ Unit!OperatorTakesFile
  BY <1>2 DEF AsUnit!KojidUnitStops, Unit!KojidUnitStops, AsUnit!KojidUnitStarts,
      Unit!KojidUnitStarts, AsUnit!OperatorPutsFile, Unit!OperatorPutsFile,
      AsUnit!OperatorTakesFile, Unit!OperatorTakesFile, AsUnit!Alive, Unit!Alive
<1>3. [AsUnit!SocketNext]_(AsUnit!socketVars) => [Unit!SocketNext]_(Unit!socketVars)
  BY <1>2, SameAgentStep, SameEnvironment
     DEF AsUnit!SocketNext, Unit!SocketNext, AsUnit!socketVars, Unit!socketVars
<1>4. AsUnit!SocketSpec => Unit!SocketSpec
  BY <1>1, <1>3, PTL DEF AsUnit!SocketSpec, Unit!SocketSpec
<1>5. Unit!SocketTypeOK => AsUnit!SocketTypeOK
  BY DEF Unit!SocketTypeOK, AsUnit!SocketTypeOK, Unit!StartSteps, AsUnit!StartSteps,
         Unit!CloseSteps, AsUnit!CloseSteps
<1> QED BY <1>4, <1>5

\* What the proofs about the socket assume holds of the unit.
LEMMA UnitAssumptions ==
  /\ Agents \cap {"none", "file"} = {}
  /\ MaxAgentFaults \in Nat
  /\ {TRUE, TRUE, Operator} \subseteq BOOLEAN
BY SocketAssumption

\* The theorems about the socket, of the unit.
LEMMA UnitIsSafe ==
  Unit!SocketSpec =>
    []Unit!SocketTypeOK /\ []Unit!ServingIsReachable /\ Unit!FilesFoundAreKept
<1>1. Unit!SocketSpec => []Unit!SocketTypeOK
  BY UnitAssumptions, RunnerAssumption, Unit!SocketTypeCorrect
<1>2. Unit!SocketSpec => []Unit!ServingIsReachable
  BY UnitAssumptions, RunnerAssumption, Unit!Reachable
<1>3. Unit!SocketSpec => Unit!FilesFoundAreKept
  BY UnitAssumptions, RunnerAssumption, Unit!FoundFilesAreKept
<1> QED BY <1>1, <1>2, <1>3

\* Whether by hand or as a unit, the agent's socket is safe.
LEMMA SocketIsSafe ==
  HostSpec => /\ [](SocketTypeOK /\ AsUnit!SocketTypeOK)
              /\ []ServingIsReachable /\ FilesFoundAreKept
<1>1. SocketTypeOK <=> Unit!SocketTypeOK
  BY DEF SocketTypeOK, StartSteps, CloseSteps, Unit!SocketTypeOK, Unit!StartSteps,
         Unit!CloseSteps
<1>2. Unit!ServingIsReachable => ServingIsReachable
  BY DEF ServingIsReachable, DialResult, Listening, Unit!ServingIsReachable,
         Unit!DialResult, Unit!Listening
<1>3. Unit!FilesFoundAreKept => FilesFoundAreKept
  BY DEF FilesFoundAreKept, Unit!FilesFoundAreKept, socketVars, Unit!socketVars
<1> QED
  BY <1>1, <1>2, <1>3, SocketBehaves, UnitIsUnit, UnitIsSafe, SocketTypeCorrect, Reachable,
     FoundFilesAreKept, PTL

\* Every part keeps its types, whichever part moves.
THEOREM PartsKeepTypes == HostSpec => []PartsTypeOK
BY PartsBehave, SocketIsSafe, RunnerTypeCorrect, ConfigTypeCorrect, ProbeTypeCorrect,
   ListTypeCorrect, MetricsTypeCorrect, PageTypeCorrect, PTL DEF PartsTypeOK

\* All that the run of the host checks of its states and steps holds of any host.
THEOREM HostIsSafe ==
  HostSpec =>
    /\ []TypeOK /\ []HistoryIsTrue /\ []ServedSchemaIsCurrent /\ OnlyOverlapsMixHistories
    /\ []ServingIsReachable /\ FilesFoundAreKept /\ []VerdictIsTrue
    /\ []ScanIsDeclared /\ []MutationIsExplicit
    /\ []UsageIsAPercentage /\ []ListIsTrue /\ []CountsFollowEvents
    /\ GoesBackOnlyByOverlap /\ LeftIsLeft
BY PartsBehave, SocketIsSafe, MigrationTypes, TrueHistory, CurrentSchema, MixingTakesOverlap,
   VerdictsAreTrue, ScanIsTrue, MutationWasAskedFor, UsageIsExact, ListsAreTrue,
   CountsDoFollow, RowsGoBackOnlyByOverlap, LeavingIsFinal, PTL
=============================================================================
