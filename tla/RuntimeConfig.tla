--------------------------- MODULE RuntimeConfig ---------------------------
(***************************************************************************)
(* How kojid and koji-agent come to their configuration: the scan of the   *)
(* file, the defaults, the checks and the flags (internal/config,          *)
(* cmd/kojid, cmd/koji-agent).  Both read one file, /etc/koji/koji.yaml,   *)
(* unless told otherwise, each for the fields that are its own.            *)
(*                                                                         *)
(* A line of the file is a record: what it is (a key, "item", "ignored" or *)
(* "junk"), whether its value parses, and the value.  "daemon_field" and   *)
(* "agent_field" each stand for one of several scalars that only Validate, *)
(* or only ValidateAgent, looks at: their value is whether it passes.      *)
(***************************************************************************)
EXTENDS Naturals, Sequences, FiniteSets

CONSTANTS
    Services,           \* valid unit names
    BadNames,           \* names that ValidateServiceName refuses
    DevServices,        \* the development allow-list
    Blank,              \* the empty text, which opens a list on the lines below
    Lines, FlagValues,  \* the lines a file may have, the flags given: key, value
    DefaultTTL, DefaultIdle,
    MaxLines, MaxFlags  \* bounds on the lines of a file and the flags

ServiceNames == Services \cup BadNames
Lists == {"service_allowlist", "agent_service_allowlist"}
Modes == {"dev_mode", "agent_mutation_enabled"}
Durations == {"session_ttl", "session_idle_timeout", "session_idle_ttl"}
Checked == {"agent_socket_path", "daemon_field", "agent_field"}
Keys == Lists \cup Modes \cup Durations \cup Checked \cup {"static_asset_dir"}

\* The values of a field of Config, and of a key or flag as it parses.
ParsedValues(key) ==
    CASE key \in Lists     -> Seq(ServiceNames)
      [] key \in Durations -> Nat
      [] key = "static_asset_dir" -> {"absolute", "relative", "empty"}
      [] OTHER             -> BOOLEAN

ValuesOf(key) == ParsedValues(key) \cup (IF key \in Lists THEN {Blank} ELSE {})

ASSUME ConfigAssumption ==
    /\ Services \cap BadNames = {}
    /\ DevServices \in Seq(Services) /\ DevServices # << >>
    /\ \A key \in Keys : Blank \notin ParsedValues(key)
    /\ DefaultTTL \in Nat /\ DefaultIdle \in Nat
    /\ MaxLines \in Nat /\ MaxFlags \in Nat

\* Lines and flags have values of their keys.
ASSUME LinesAssumption ==
    /\ \A l \in Lines : /\ l.key \in Keys \cup {"item", "ignored", "junk"}
                        /\ l.ok \in BOOLEAN
                        /\ l.key \in Keys /\ l.ok => l.value \in ValuesOf(l.key)
                        /\ l.key = "item" /\ l.ok => l.value \in ServiceNames
    /\ \A f \in FlagValues : f.key \in Keys /\ f.value \in ValuesOf(f.key)

VARIABLES
    program,   \* "kojid" or "agent"
    configPc,  \* "scan", "flags", then "started" or "refused"
    text,      \* history: the lines read
    pending,   \* parseConfig's pendingListKey
    seen,      \* the keys it has seen
    cfg,       \* Config
    flags      \* history: the flags applied
configVars == <<program, configPc, text, pending, seen, cfg, flags>>

\* Both spellings set SessionIdleTTL.
FieldOf(key) == IF key = "session_idle_ttl" THEN "session_idle_timeout" ELSE key

NewDefaultConfig ==
    [service_allowlist |-> << >>, agent_service_allowlist |-> << >>,
     dev_mode |-> FALSE, agent_mutation_enabled |-> FALSE,
     session_ttl |-> DefaultTTL, session_idle_timeout |-> DefaultIdle,
     static_asset_dir |-> "absolute",
     agent_socket_path |-> TRUE, daemon_field |-> TRUE, agent_field |-> TRUE]

ConfigInit ==
    /\ program \in {"kojid", "agent"}
    /\ configPc = "scan"
    /\ text = << >> /\ flags = << >>
    /\ pending = "none" /\ seen = {}
    /\ cfg = NewDefaultConfig

-----------------------------------------------------------------------------
(* parseConfig, one line at a time.  Its first error ends the program. *)

RefuseFile == configPc' = "refused" /\ UNCHANGED <<pending, seen, cfg>>

\* Faulty variant: the text of an empty value is kept as the list's only name.
SetFieldUnsplit(config, key, value) ==
    [config EXCEPT ![FieldOf(key)] = IF value = Blank THEN <<Blank>> ELSE value]

\* applyConfigField, and what a flag does.
SetField(config, key, value) ==
    [config EXCEPT ![FieldOf(key)] = IF value = Blank THEN << >> ELSE value]

\* Blank lines and comments; a list goes on after them.
IgnoredLine(l) ==
    /\ l.key = "ignored"
    /\ UNCHANGED <<configPc, pending, seen, cfg>>

ListItem(l) ==
    /\ l.key = "item"
    /\ IF pending = "none" \/ ~l.ok
       THEN RefuseFile
       ELSE /\ cfg' = [cfg EXCEPT ![pending] = Append(@, l.value)]
            /\ UNCHANGED <<configPc, pending, seen>>

\* Faulty variant: a list stays open until another list begins.
FieldLineKeepsList(l) ==
    /\ l.key \notin {"ignored", "item"}
    /\ IF l.key = "junk" \/ l.key \in seen \/ ~l.ok
       THEN RefuseFile
       ELSE /\ pending' = IF l.key \in Lists /\ l.value = Blank THEN l.key ELSE pending
            /\ seen' = seen \cup {l.key}
            /\ cfg' = SetField(cfg, l.key, l.value)
            /\ UNCHANGED configPc

\* "junk" is a line that has no colon or no key, an unknown key, or a line the
\* scanner cannot read.
FieldLine(l) ==
    /\ l.key \notin {"ignored", "item"}
    /\ IF l.key = "junk" \/ l.key \in seen \/ ~l.ok
       THEN RefuseFile
       ELSE /\ pending' = IF l.key \in Lists /\ l.value = Blank THEN l.key ELSE "none"
            /\ seen' = seen \cup {l.key}
            /\ cfg' = SetField(cfg, l.key, l.value)
            /\ UNCHANGED configPc

ReadLine ==
    /\ configPc = "scan" /\ Len(text) < MaxLines
    /\ \E l \in Lines : /\ text' = Append(text, l)
                        /\ (IgnoredLine(l) \/ ListItem(l) \/ FieldLine(l))
    /\ UNCHANGED <<program, flags>>

-----------------------------------------------------------------------------
ApplyDefaults(config) ==
    IF config.dev_mode /\ config.service_allowlist = << >>
    THEN [config EXCEPT !.service_allowlist = DevServices]
    ELSE config

ValidNames(list) == \A i \in 1..Len(list) : list[i] \in Services

Validate(config) ==
    /\ config.daemon_field /\ config.agent_socket_path
    /\ config.static_asset_dir # "empty"
    /\ config.dev_mode \/ config.static_asset_dir = "absolute"
    /\ config.session_idle_timeout \in 1..config.session_ttl
    /\ config.dev_mode \/ config.service_allowlist # << >>
    /\ ValidNames(config.service_allowlist)

\* Faulty variant: the allow-list is not asked for.
ValidateAgentNamesOnly(config) ==
    /\ config.agent_field /\ config.agent_socket_path
    /\ ValidNames(config.agent_service_allowlist)

ValidateAgent(config) ==
    /\ config.agent_field /\ config.agent_socket_path
    /\ config.agent_mutation_enabled => config.agent_service_allowlist # << >>
    /\ ValidNames(config.agent_service_allowlist)

\* What each program fills in, and what it checks.
Completed(config) == IF program = "kojid" THEN ApplyDefaults(config) ELSE config
Accepted(config) == IF program = "kojid" THEN Validate(config) ELSE ValidateAgent(config)

\* The end of Load and of LoadAgent: a file must pass as it is, before the flags.
FileEnds ==
    /\ configPc = "scan"
    /\ IF Accepted(Completed(cfg))
       THEN cfg' = Completed(cfg) /\ configPc' = "flags"
       ELSE UNCHANGED cfg /\ configPc' = "refused"
    /\ UNCHANGED <<program, text, pending, seen, flags>>

\* There is no file.  The agent goes on with the defaults, unless -config named it.
FileMissing ==
    /\ configPc = "scan" /\ text = << >>
    /\ configPc' \in IF program = "agent" THEN {"flags", "refused"} ELSE {"refused"}
    /\ UNCHANGED <<program, text, pending, seen, cfg, flags>>

FlagsOf(p) ==
    IF p = "kojid"
    THEN {"dev_mode", "agent_socket_path", "static_asset_dir", "session_ttl",
          "session_idle_timeout", "service_allowlist", "daemon_field"}
    ELSE {"agent_socket_path", "agent_mutation_enabled", "agent_service_allowlist",
          "agent_field"}

\* applyFlagOverrides, applyAgentFlagOverrides: flag.Visit gives each flag once.
OverrideField ==
    /\ configPc = "flags" /\ Len(flags) < MaxFlags
    /\ \E f \in FlagValues :
         /\ f.key \in FlagsOf(program)
         /\ \A i \in 1..Len(flags) : flags[i].key # f.key
         /\ cfg' = SetField(cfg, f.key, f.value)
         /\ flags' = Append(flags, f)
    /\ UNCHANGED <<program, configPc, text, pending, seen>>

\* loadRuntimeConfig and loadAgentRuntimeConfig end with the checks once more.
StartProgram ==
    /\ configPc = "flags"
    /\ cfg' = Completed(cfg)
    /\ configPc' = IF Accepted(Completed(cfg)) THEN "started" ELSE "refused"
    /\ UNCHANGED <<program, text, pending, seen, flags>>

Decided == configPc \in {"started", "refused"} /\ UNCHANGED configVars

ConfigNext == ReadLine \/ FileEnds \/ FileMissing \/ OverrideField \/ StartProgram \/ Decided

ConfigSpec == ConfigInit /\ [][ConfigNext]_configVars

-----------------------------------------------------------------------------
ConfigTypeOK ==
    /\ program \in {"kojid", "agent"}
    /\ configPc \in {"scan", "flags", "started", "refused"}
    /\ text \in Seq(Lines) /\ flags \in Seq(FlagValues)
    /\ pending \in Lists \cup {"none"}
    /\ seen \subseteq Keys
    /\ DOMAIN cfg = DOMAIN NewDefaultConfig
    /\ \A key \in DOMAIN cfg : cfg[key] \in ParsedValues(key)

\* The line that an item at line i belongs to: the nearest field above it.
Heads(i) == {h \in 1..(i - 1) :
                /\ text[h].key \in Keys
                /\ \A k \in (h + 1)..(i - 1) : text[k].key \in {"item", "ignored"}}

\* A file is in order: its values parse, no key comes twice, and items follow
\* the empty value of a list.
InOrder ==
    \A i \in 1..Len(text) :
        /\ text[i].key # "junk"
        /\ text[i].key # "ignored" => text[i].ok
        /\ text[i].key \in Keys => \A h \in 1..(i - 1) : text[h].key # text[i].key
        /\ text[i].key = "item" =>
             \E h \in Heads(i) : text[h].key \in Lists /\ text[h].value = Blank

\* The items that belong to line h, and whether names are theirs, in order.
ItemsOf(h) == {k \in 1..Len(text) : text[k].key = "item" /\ h \in Heads(k)}

AreItemsOf(names, h) ==
    /\ Len(names) = Cardinality(ItemsOf(h))
    /\ \A k \in ItemsOf(h) :
         names[Cardinality({j \in ItemsOf(h) : j <= k})] = text[k].value

\* What the file says of a list: the names beside its key, or the items below.
IsDeclared(list, names) ==
    IF \E h \in 1..Len(text) : text[h].key = list
    THEN \E h \in 1..Len(text) :
           /\ text[h].key = list
           /\ IF text[h].value # Blank THEN names = text[h].value ELSE AreItemsOf(names, h)
    ELSE names = << >>

\* The scan takes a file for what it says.  It goes on while the file is in order
\* and refuses it only when it is not; and each list has its own names and no
\* other's, wherever comments, other fields and the other list come in between.
ScanIsDeclared ==
    /\ configPc = "scan" => InOrder /\ \A list \in Lists : IsDeclared(list, cfg[list])
    /\ configPc = "refused" /\ text # << >> /\ flags = << >> =>
         ~InOrder \/ ~Accepted(Completed(cfg))

Given(key) == {text[i].value : i \in {h \in 1..Len(text) : text[h].key = key}}
                \cup {flags[i].value : i \in {h \in 1..Len(flags) : flags[h].key = key}}

\* An agent that starts with mutation enabled was told so, and so was every unit
\* it will change, in the agent's own list or flag: never in the list of kojid,
\* though both stand in one file, and never by a default.
MutationIsExplicit ==
    configPc = "started" /\ program = "agent" /\ cfg.agent_mutation_enabled =>
        /\ TRUE \in Given("agent_mutation_enabled")
        /\ cfg.agent_service_allowlist # << >>
        /\ \/ IsDeclared("agent_service_allowlist", cfg.agent_service_allowlist)
           \/ cfg.agent_service_allowlist \in Given("agent_service_allowlist")

\* The claim of docs/INVARIANTS.md:64, "Production service APIs require explicit
\* service allowlist."
ProductionListIsExplicit ==
    configPc = "started" /\ program = "kojid" /\ ~cfg.dev_mode =>
        Given("service_allowlist") # {}
=============================================================================
