------------------------------- MODULE MCHost -------------------------------
(***************************************************************************)
(* The parts of koji that share no state with one another nor with jobs,   *)
(* users and sessions, for TLC: the database at start, the socket of the   *)
(* agent (with others started by hand, and alone), one command of the      *)
(* agent, the configuration, the host probe, the list of processes, the    *)
(* counters and the jobs page of the browser.                              *)
(*                                                                         *)
(* Nothing is gained from interleaving them.  A behaviour is one of the    *)
(* part it chose at first; the others stay in an initial state of theirs.  *)
(***************************************************************************)
EXTENDS Migrations, AgentSocket, CommandRunner, RuntimeConfig, HostProbe, ProcessList,
        Metrics, JobsPage

CONSTANTS Parts   \* the parts to check

VARIABLE part     \* the part that moves

hostVars ==
    <<part, vars, socketVars, runnerVars, configVars, probeVars, listVars, metricsVars,
      pageVars>>

-----------------------------------------------------------------------------
(* The instances.                                                            *)

CONSTANTS a, b, c, d, s, t, bad

\* A release and the one before it, which are on one line; one that another
\* branch made of the earlier; and one whose first migration was changed after it
\* was released, and creates what the first of the others creates.
HostMigrations ==
    LET M(n, x) == [name |-> n, text |-> x]
    IN  [r \in Releases |-> CASE r = "old" -> <<M(1, a)>>
                              [] r = "new" -> <<M(1, a), M(2, b)>>
                              [] r = "fork" -> <<M(1, a), M(3, c)>>
                              [] r = "edited" -> <<M(1, d)>>]

HostClashing == {<<x, x>> : x \in Texts} \cup {<<a, d>>, <<d, a>>}

\* The unit's agent with its socket elsewhere than by default, one started by hand
\* beside it, and an operator who puts files in their way, are the constants of the
\* cfg; this is the unit's agent alone with its socket where both units have theirs.
AsUnit == INSTANCE AgentSocket WITH
    ByHand <- {}, RuntimeDirectory <- TRUE, KojidStops <- TRUE

Field(key, values) == {[key |-> key, ok |-> TRUE, value |-> v] : v \in values}
Flag(key, values) == {[key |-> key, value |-> v] : v \in values}

\* Each kind of line, and of each check a value that passes or fails it.
ConfigLines ==
    {[key |-> "ignored", ok |-> TRUE], [key |-> "junk", ok |-> FALSE],
     [key |-> "session_ttl", ok |-> FALSE], [key |-> "item", ok |-> FALSE]}
    \cup Field("item", {s, bad})
    \cup Field("service_allowlist", {Blank, <<s>>})
    \cup Field("agent_service_allowlist", {Blank, << >>, <<s, t>>})
    \cup Field("dev_mode", {TRUE}) \cup Field("agent_mutation_enabled", {TRUE})
    \cup Field("session_ttl", {1}) \cup Field("session_idle_timeout", {2})
    \cup Field("session_idle_ttl", {1})
    \cup Field("agent_field", {FALSE})

ConfigFlags ==
    Flag("dev_mode", BOOLEAN) \cup Flag("agent_mutation_enabled", {TRUE})
    \cup Flag("service_allowlist", {Blank, <<s>>})
    \cup Flag("agent_service_allowlist", {Blank, <<t>>})
    \cup Flag("agent_socket_path", {FALSE})

OneService == <<t>>

Policy(mode, lines, max) ==
    [mode |-> mode, includeCommandLine |-> lines, maxProcesses |-> max]

ListPolicies ==
    {Policy("summary", FALSE, 1), Policy("summary", FALSE, 3), Policy("owner", FALSE, 2),
     Policy("all", TRUE, 3)}

-----------------------------------------------------------------------------
(* One part moves.                                                           *)

\* The states the parts stay in that do not move.
Rests ==
    /\ part # "migrations" => history = {} /\ release = [p \in Processes |-> "new"]
                             /\ schema = << >>
    /\ part \notin {"agent", "unit"} => path = "none"
    /\ part # "runner" => held = FALSE
    /\ part # "config" => program = "kojid"
    /\ part # "list" => policy = Policy("summary", FALSE, 1)

HostInit ==
    /\ part \in Parts
    /\ Init /\ RunnerInit /\ ConfigInit /\ ProbeInit /\ ListInit /\ MetricsInit /\ PageInit
    /\ IF part = "unit" THEN AsUnit!SocketInit ELSE SocketInit
    /\ Rests

\* All but the variables of the part that moves stay as they are.
Rest(p) ==
    /\ UNCHANGED part
    /\ IF p = "migrations" THEN TRUE ELSE UNCHANGED vars
    /\ IF p = "agent"      THEN TRUE ELSE UNCHANGED socketVars
    /\ IF p = "runner"     THEN TRUE ELSE UNCHANGED runnerVars
    /\ IF p = "config"     THEN TRUE ELSE UNCHANGED configVars
    /\ IF p = "probe"      THEN TRUE ELSE UNCHANGED probeVars
    /\ IF p = "list"       THEN TRUE ELSE UNCHANGED listVars
    /\ IF p = "counters"   THEN TRUE ELSE UNCHANGED metricsVars
    /\ IF p = "page"       THEN TRUE ELSE UNCHANGED pageVars

HostNext ==
    \/ part = "migrations" /\ Next              /\ Rest("migrations")
    \/ part = "agent"      /\ SocketNext        /\ Rest("agent")
    \/ part = "unit"       /\ AsUnit!SocketNext /\ Rest("agent")
    \/ part = "runner"     /\ RunnerNext        /\ Rest("runner")
    \/ part = "config"     /\ ConfigNext        /\ Rest("config")
    \/ part = "probe"      /\ ProbeNext         /\ Rest("probe")
    \/ part = "list"       /\ ListNext          /\ Rest("list")
    \/ part = "counters"   /\ MetricsNext       /\ Rest("counters")
    \/ part = "page"       /\ PageNext          /\ Rest("page")

HostSpec == HostInit /\ [][HostNext]_hostVars

\* The fairness of each part, for the behaviours that are of it.
HostFairness ==
    /\ \A p \in Processes :
         /\ WF_vars(part = "migrations" /\ Open(p))
         /\ WF_vars(part = "migrations" /\ pc[p] = "failed" /\ \E r \in Releases : Start(p, r))
    /\ WF_socketVars(part = "agent" /\ SystemdStarts)
    /\ WF_socketVars(part = "unit" /\ AsUnit!SystemdStarts)
    /\ \A i \in Agents :
         /\ WF_socketVars(part = "agent" /\ AgentStep(i))
         /\ WF_socketVars(part = "unit" /\ AsUnit!AgentStep(i))
    /\ WF_runnerVars(part = "runner" /\ RunStep)
    /\ WF_runnerVars(part = "runner" /\ TimePasses)
    /\ WF_runnerVars(part = "runner" /\ Kill)
    /\ \A o \in Streams : WF_runnerVars(part = "runner" /\ Copies(o))
    /\ WF_pageVars(part = "page" /\ PollDue)
    /\ WF_pageVars(part = "page" /\ Continues)
    /\ \A q \in ListRequests : WF_pageVars(part = "page" /\ Settles(q))

FairHostSpec == HostSpec /\ HostFairness

-----------------------------------------------------------------------------
(* The properties are those of the parts.  Three are said of all parts or of *)
(* some only.                                                                *)

\* The parts beside the database keep their types.
PartsTypeOK ==
    /\ SocketTypeOK /\ AsUnit!SocketTypeOK /\ RunnerTypeOK /\ ConfigTypeOK /\ ProbeTypeOK
    /\ ListTypeOK /\ MetricsTypeOK /\ PageTypeOK

\* A wanted agent gets reachable again (AgentSocket), where agents move.
AgentReachableAgain == part \in {"agent", "unit"} => ReachableAgain

\* A command's run ends (CommandRunner), where it moves.
CommandReturns == part = "runner" => RunReturns
=============================================================================
