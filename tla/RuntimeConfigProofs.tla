------------------------ MODULE RuntimeConfigProofs ------------------------
(***************************************************************************)
(* Proofs about how kojid and koji-agent come to their configuration, for  *)
(* files of any length, any names and any values.                          *)
(*                                                                         *)
(* While a file is scanned it is in order, and a list is open exactly when *)
(* the field that came last is an empty list; so an item goes to the list  *)
(* it stands below, and a line is refused only when it is out of order.    *)
(* After the scan the agent's own list is what the file says or a flag, or *)
(* it is empty, and the last checks let no empty one through.              *)
(***************************************************************************)
EXTENDS RuntimeConfig, FiniteSetTheorems, TLAPS

\* Where items that come next belong.
LastFields ==
    {h \in 1..Len(text) :
        /\ text[h].key \in Keys
        /\ \A k \in (h + 1)..Len(text) : text[k].key \in {"item", "ignored"}}

\* The list that is open is the empty one that the last field is.
OpenList ==
    /\ pending # "none" =>
         \E h \in LastFields : text[h].key = pending /\ text[h].value = Blank
    /\ pending = "none" =>
         \A h \in LastFields : ~(text[h].key \in Lists /\ text[h].value = Blank)

SeenIsRead == seen = {text[h].key : h \in 1..Len(text)} \cap Keys

ScanInv ==
    /\ InOrder /\ OpenList /\ SeenIsRead
    /\ \A list \in Lists : IsDeclared(list, cfg[list])

\* A program refuses a file that it has reason to.
RefusalInv == text # << >> /\ flags = << >> => ~InOrder \/ ~Accepted(Completed(cfg))

\* What the agent goes by was given to it.
AgentListInv ==
    \/ cfg["agent_service_allowlist"] = << >>
    \/ IsDeclared("agent_service_allowlist", cfg["agent_service_allowlist"])
    \/ cfg["agent_service_allowlist"] \in Given("agent_service_allowlist")

ConfigInv ==
    /\ ConfigTypeOK
    /\ configPc = "scan" => ScanInv /\ flags = << >>
    /\ configPc = "refused" => RefusalInv
    /\ configPc \in {"flags", "started"} => AgentListInv
    /\ cfg["agent_mutation_enabled"] => TRUE \in Given("agent_mutation_enabled")
    /\ configPc = "started" => Accepted(cfg)

-----------------------------------------------------------------------------
\* The keys, and the fields they set.
Fields == Keys \ {"session_idle_ttl"}

LEMMA KeysAre ==
  Keys = {"service_allowlist", "agent_service_allowlist", "dev_mode",
          "agent_mutation_enabled", "session_ttl", "session_idle_timeout",
          "session_idle_ttl", "agent_socket_path", "daemon_field", "agent_field",
          "static_asset_dir"}
BY DEF Keys, Lists, Modes, Durations, Checked

\* What a key parses to is what its field holds, and a list has one key.
LEMMA FieldValues ==
  ASSUME NEW key \in Keys
  PROVE  /\ FieldOf(key) \in Fields
         /\ ParsedValues(FieldOf(key)) = ParsedValues(key)
         /\ \A list \in Lists : FieldOf(key) = list <=> key = list
         /\ FieldOf(key) = "agent_mutation_enabled" <=> key = "agent_mutation_enabled"
         /\ Blank \in ValuesOf(key) => key \in Lists
         /\ \A value \in ValuesOf(key) : value = Blank \/ value \in ParsedValues(key)
<1>1. FieldOf(key) \in Fields
  BY KeysAre DEF FieldOf, Fields
<1>2. ParsedValues(FieldOf(key)) = ParsedValues(key)
  BY DEF FieldOf, ParsedValues, Lists, Durations
<1>3. /\ \A list \in Lists : FieldOf(key) = list <=> key = list
      /\ FieldOf(key) = "agent_mutation_enabled" <=> key = "agent_mutation_enabled"
  BY DEF FieldOf, Lists
<1>4. Blank \in ValuesOf(key) => key \in Lists
  BY ConfigAssumption DEF ValuesOf
<1>5. \A value \in ValuesOf(key) : value = Blank \/ value \in ParsedValues(key)
  BY DEF ValuesOf
<1> QED BY <1>1, <1>2, <1>3, <1>4, <1>5

\* What the fields hold.
LEMMA FieldTypes ==
  /\ \A list \in Lists : ParsedValues(list) = Seq(ServiceNames) /\ list \in Fields
  /\ ParsedValues("dev_mode") = BOOLEAN /\ "dev_mode" \in Fields
  /\ ParsedValues("agent_mutation_enabled") = BOOLEAN /\ "agent_mutation_enabled" \in Fields
  /\ Lists = {"service_allowlist", "agent_service_allowlist"}
BY KeysAre DEF ParsedValues, Lists, Durations, Fields

\* A configuration has the fields, with values of theirs.
IsConfig(config) ==
    DOMAIN config = Fields /\ \A key \in Fields : config[key] \in ParsedValues(key)

LEMMA ConfigFields == DOMAIN NewDefaultConfig = Fields
BY KeysAre DEF NewDefaultConfig, Fields

LEMMA DefaultIsConfig == IsConfig(NewDefaultConfig)
<1>1. \A key \in Fields : NewDefaultConfig[key] \in ParsedValues(key)
  <2>1. /\ NewDefaultConfig["service_allowlist"] = << >>
        /\ NewDefaultConfig["agent_service_allowlist"] = << >>
        /\ NewDefaultConfig["dev_mode"] = FALSE
        /\ NewDefaultConfig["agent_mutation_enabled"] = FALSE
        /\ NewDefaultConfig["session_ttl"] = DefaultTTL
        /\ NewDefaultConfig["session_idle_timeout"] = DefaultIdle
        /\ NewDefaultConfig["static_asset_dir"] = "absolute"
        /\ NewDefaultConfig["agent_socket_path"] = TRUE
        /\ NewDefaultConfig["daemon_field"] = TRUE
        /\ NewDefaultConfig["agent_field"] = TRUE
    BY DEF NewDefaultConfig
  <2>2. << >> \in Seq(ServiceNames) /\ DefaultTTL \in Nat /\ DefaultIdle \in Nat
    BY ConfigAssumption
  <2>3. /\ ParsedValues("session_ttl") = Nat /\ ParsedValues("session_idle_timeout") = Nat
        /\ "absolute" \in ParsedValues("static_asset_dir")
        /\ ParsedValues("agent_socket_path") = BOOLEAN
        /\ ParsedValues("daemon_field") = BOOLEAN /\ ParsedValues("agent_field") = BOOLEAN
    BY DEF ParsedValues, Lists, Durations
  <2> QED BY <2>1, <2>2, <2>3, FieldTypes, KeysAre DEF Fields
<1> QED BY <1>1, ConfigFields DEF IsConfig

\* A field is set, and no other.
LEMMA SetFieldSets ==
  ASSUME NEW config, IsConfig(config), NEW key \in Keys, NEW value \in ValuesOf(key)
  PROVE  /\ IsConfig(SetField(config, key, value))
         /\ SetField(config, key, value)[FieldOf(key)]
              = IF value = Blank THEN << >> ELSE value
         /\ \A f \in Fields \ {FieldOf(key)} : SetField(config, key, value)[f] = config[f]
<1> DEFINE new == IF value = Blank THEN << >> ELSE value
           set == SetField(config, key, value)
<1>1. new \in ParsedValues(FieldOf(key))
  <2>1. CASE value = Blank
    <3>1. key \in Lists /\ << >> \in Seq(ServiceNames)
      BY <2>1, FieldValues
    <3> QED BY <2>1, <3>1, FieldTypes, FieldValues
  <2>2. CASE value # Blank
    BY <2>2, FieldValues
  <2> QED BY <2>1, <2>2
<1>2. set = [config EXCEPT ![FieldOf(key)] = new]
  BY DEF SetField
<1>3. DOMAIN config = Fields /\ FieldOf(key) \in Fields
  BY FieldValues DEF IsConfig
<1> HIDE DEF new, set
<1>4. /\ DOMAIN set = Fields /\ set[FieldOf(key)] = new
      /\ \A f \in Fields \ {FieldOf(key)} : set[f] = config[f]
  BY <1>2, <1>3
<1>5. \A f \in Fields : set[f] \in ParsedValues(f)
  BY <1>1, <1>4 DEF IsConfig
<1> QED BY <1>4, <1>5 DEF IsConfig, set, new

\* What a program fills in does not concern the agent, and is filled in once.
LEMMA CompletedIs ==
  ASSUME NEW config, IsConfig(config)
  PROVE  /\ IsConfig(Completed(config))
         /\ Completed(config)["agent_service_allowlist"] = config["agent_service_allowlist"]
         /\ Completed(config)["agent_mutation_enabled"] = config["agent_mutation_enabled"]
         /\ Completed(Completed(config)) = Completed(config)
<1> DEFINE filled == [config EXCEPT !["service_allowlist"] = DevServices]
<1>1. /\ DOMAIN filled = Fields /\ filled["service_allowlist"] = DevServices
      /\ \A f \in Fields \ {"service_allowlist"} : filled[f] = config[f]
  BY FieldTypes DEF IsConfig
<1>2. IsConfig(filled)
  <2>1. DevServices \in Seq(ServiceNames)
    BY ConfigAssumption DEF ServiceNames
  <2> QED BY <1>1, <2>1, FieldTypes DEF IsConfig
<1>3. Completed(config) = config \/ Completed(config) = filled
  BY DEF Completed, ApplyDefaults
<1>4. Completed(Completed(config)) = Completed(config)
  <2>1. filled["service_allowlist"] # << >>
    BY <1>1, ConfigAssumption
  <2>2. CASE Completed(config) = config
    BY <2>2
  <2>3. CASE Completed(config) = filled
    BY <2>1, <2>3 DEF Completed, ApplyDefaults
  <2> QED BY <1>3, <2>2, <2>3
<1> HIDE DEF filled
<1> QED BY <1>1, <1>2, <1>3, <1>4, FieldTypes

-----------------------------------------------------------------------------
\* What the variables of the scan are.
LEMMA ConfigTypes ==
  ASSUME ConfigInv
  PROVE  /\ text \in Seq(Lines) /\ Len(text) \in Nat
         /\ \A i \in 1..Len(text) : text[i] \in Lines
         /\ flags \in Seq(FlagValues) /\ Len(flags) \in Nat
         /\ IsConfig(cfg)
         /\ pending \in Lists \cup {"none"}
         /\ seen \subseteq Keys
<1>1. text \in Seq(Lines) /\ flags \in Seq(FlagValues)
  BY DEF ConfigInv, ConfigTypeOK
<1>2. IsConfig(cfg)
  BY ConfigFields DEF ConfigInv, ConfigTypeOK, IsConfig
<1>3. pending \in Lists \cup {"none"} /\ seen \subseteq Keys
  BY DEF ConfigInv, ConfigTypeOK
<1> QED BY <1>1, <1>2, <1>3

\* Of the lines no two are the last field.
LEMMA LastFieldIsOne == \A g, h \in LastFields : g = h
<1> SUFFICES ASSUME NEW g \in LastFields, NEW h \in LastFields, g # h PROVE FALSE
  OBVIOUS
<1>1. /\ g \in 1..Len(text) /\ h \in 1..Len(text)
      /\ text[g].key \in Keys /\ text[h].key \in Keys
      /\ \A k \in (g + 1)..Len(text) : text[k].key \in {"item", "ignored"}
      /\ \A k \in (h + 1)..Len(text) : text[k].key \in {"item", "ignored"}
  BY DEF LastFields
<1>2. h \in (g + 1)..Len(text) \/ g \in (h + 1)..Len(text)
  BY <1>1
<1> QED BY <1>1, <1>2, KeysAre

\* A key comes once in a file that is in order.
LEMMA KeyComesOnce ==
  ASSUME InOrder, NEW g \in 1..Len(text), NEW h \in 1..Len(text),
         text[g].key \in Keys, text[g].key = text[h].key
  PROVE  g = h
<1> SUFFICES ASSUME g # h PROVE FALSE
  OBVIOUS
<1>1. g \in 1..(h - 1) \/ h \in 1..(g - 1)
  OBVIOUS
<1> QED BY <1>1 DEF InOrder

\* A line more: which fields come last, and which items belong to which line.
LEMMA LineAppended ==
  ASSUME text \in Seq(Lines), NEW l \in Lines, text' = Append(text, l), NEW n, n = Len(text)
  PROVE  /\ n \in Nat /\ Len(text') = n + 1 /\ text'[n + 1] = l
         /\ \A i \in 1..n : text'[i] = text[i]
         /\ \A i \in 1..n : Heads(i)' = Heads(i)
         /\ Heads(n + 1)' = LastFields
         /\ l.key \in {"item", "ignored"} => LastFields' = LastFields
         /\ l.key \in Keys => LastFields' = {n + 1}
         /\ ItemsOf(n + 1)' = {}
         /\ \A h \in 1..n :
              ItemsOf(h)' = IF l.key = "item" /\ h \in LastFields
                            THEN ItemsOf(h) \cup {n + 1} ELSE ItemsOf(h)
<1>1. /\ n \in Nat /\ Len(text') = n + 1 /\ text'[n + 1] = l
      /\ \A i \in 1..n : text'[i] = text[i]
  OBVIOUS
<1>2. ASSUME NEW i \in 1..n PROVE Heads(i)' = Heads(i)
  <2>1. \A h \in 1..(i - 1) : text'[h] = text[h]
    BY <1>1
  <2>2. ASSUME NEW h \in 1..(i - 1) PROVE \A k \in (h + 1)..(i - 1) : text'[k] = text[k]
    BY <1>1
  <2> QED BY <2>1, <2>2 DEF Heads
<1>3. Heads(n + 1)' = LastFields
  <2>1. (n + 1) - 1 = n
    BY <1>1
  <2>2. ASSUME NEW h \in 1..n PROVE \A k \in (h + 1)..n : text'[k] = text[k]
    BY <1>1
  <2> QED BY <1>1, <2>1, <2>2 DEF Heads, LastFields
<1>4. ASSUME l.key \in {"item", "ignored"} PROVE LastFields' = LastFields
  <2>1. l.key \notin Keys
    BY <1>4, KeysAre
  <2>2. ASSUME NEW h \in LastFields' PROVE h \in LastFields
    <3>1. /\ h \in 1..(n + 1) /\ text'[h].key \in Keys
          /\ \A k \in (h + 1)..(n + 1) : text'[k].key \in {"item", "ignored"}
      BY <1>1 DEF LastFields
    <3>2. h \in 1..n
      BY <1>1, <2>1, <3>1
    <3>3. \A k \in (h + 1)..n : text[k].key \in {"item", "ignored"}
      BY <1>1, <3>1, <3>2
    <3> QED BY <1>1, <3>1, <3>2, <3>3 DEF LastFields
  <2>3. ASSUME NEW h \in LastFields PROVE h \in LastFields'
    <3>1. /\ h \in 1..n /\ text[h].key \in Keys
          /\ \A k \in (h + 1)..n : text[k].key \in {"item", "ignored"}
      BY DEF LastFields
    <3>2. h \in 1..(n + 1) /\ text'[h].key \in Keys
      BY <1>1, <3>1
    <3>3. \A k \in (h + 1)..(n + 1) : k \in (h + 1)..n \/ k = n + 1
      BY <1>1, <3>1
    <3>4. \A k \in (h + 1)..n : k \in 1..n
      BY <1>1, <3>1
    <3>5. \A k \in (h + 1)..(n + 1) : text'[k].key \in {"item", "ignored"}
      BY <1>1, <1>4, <3>1, <3>3, <3>4
    <3> QED BY <1>1, <3>2, <3>5 DEF LastFields
  <2> QED BY <2>2, <2>3
<1>5. ASSUME l.key \in Keys PROVE LastFields' = {n + 1}
  <2>1. l.key \notin {"item", "ignored"}
    BY <1>5, KeysAre
  <2>2. ASSUME NEW h \in LastFields' PROVE h = n + 1
    <3>1. h \in 1..(n + 1) /\ \A k \in (h + 1)..(n + 1) : text'[k].key \in {"item", "ignored"}
      BY <1>1 DEF LastFields
    <3>2. n + 1 \notin (h + 1)..(n + 1)
      BY <1>1, <2>1, <3>1
    <3> QED BY <1>1, <3>1, <3>2
  <2>3. n + 1 \in LastFields'
    <3>1. n + 1 \in 1..(n + 1) /\ ((n + 1) + 1)..(n + 1) = {}
      BY <1>1
    <3> QED BY <1>1, <1>5, <3>1 DEF LastFields
  <2> QED BY <2>2, <2>3
<1>6. ItemsOf(n + 1)' = {}
  <2>1. \A k \in 1..(n + 1) : n + 1 \notin 1..(k - 1)
    BY <1>1
  <2> QED BY <1>1, <2>1 DEF ItemsOf, Heads
<1>7. ASSUME NEW h \in 1..n
      PROVE  ItemsOf(h)' = IF l.key = "item" /\ h \in LastFields
                           THEN ItemsOf(h) \cup {n + 1} ELSE ItemsOf(h)
  <2>1. ItemsOf(h)' = {k \in 1..(n + 1) : text'[k].key = "item" /\ h \in Heads(k)'}
    BY <1>1 DEF ItemsOf
  <2>2. ItemsOf(h) = {k \in 1..n : text[k].key = "item" /\ h \in Heads(k)}
    BY DEF ItemsOf
  <2>3. 1..(n + 1) = 1..n \cup {n + 1} /\ n + 1 \notin 1..n
    BY <1>1
  <2> QED BY <1>1, <1>2, <1>3, <2>1, <2>2, <2>3
<1> QED BY <1>1, <1>2, <1>3, <1>4, <1>5, <1>6, <1>7

\* The items of a line can be counted, from the first to any of them.
LEMMA ItemsCount ==
  ASSUME NEW h, NEW k \in ItemsOf(h), Len(text) \in Nat
  PROVE  /\ IsFiniteSet(ItemsOf(h)) /\ Cardinality(ItemsOf(h)) \in Nat
         /\ Cardinality({j \in ItemsOf(h) : j <= k}) \in 1..Cardinality(ItemsOf(h))
<1>1. IsFiniteSet(1..Len(text)) /\ ItemsOf(h) \in SUBSET (1..Len(text))
  BY FS_Interval DEF ItemsOf
<1>2. IsFiniteSet(ItemsOf(h)) /\ Cardinality(ItemsOf(h)) \in Nat
  BY <1>1, FS_Subset, FS_CardinalityType
<1> DEFINE upto == {j \in ItemsOf(h) : j <= k}
<1>3. upto \in SUBSET ItemsOf(h) /\ k \in upto
  BY <1>1
<1> HIDE DEF upto
<1>4. /\ IsFiniteSet(upto) /\ Cardinality(upto) <= Cardinality(ItemsOf(h))
      /\ Cardinality(upto) \in Nat
  BY <1>2, <1>3, FS_Subset, FS_CardinalityType
<1>5. Cardinality(upto) # 0
  BY <1>3, <1>4, FS_EmptySet
<1> QED BY <1>2, <1>4, <1>5 DEF upto

\* Names that are the items of a line stay so, and an item more is a name more.
LEMMA ItemsKept ==
  ASSUME text \in Seq(Lines), NEW l \in Lines, text' = Append(text, l),
         NEW h \in 1..Len(text), NEW names \in Seq(ServiceNames), AreItemsOf(names, h)
  PROVE  /\ ~(l.key = "item" /\ h \in LastFields) => AreItemsOf(names, h)'
         /\ l.key = "item" /\ h \in LastFields /\ l.value \in ServiceNames =>
              AreItemsOf(Append(names, l.value), h)'
<1> DEFINE n == Len(text)
           I == ItemsOf(h)
<1>1. /\ n \in Nat /\ \A k \in 1..n : text'[k] = text[k]
      /\ text'[n + 1] = l
      /\ ItemsOf(h)' = IF l.key = "item" /\ h \in LastFields THEN I \cup {n + 1} ELSE I
  BY LineAppended
<1>2. I \subseteq 1..n
  BY DEF ItemsOf
<1>3. /\ Len(names) = Cardinality(I)
      /\ \A k \in I : names[Cardinality({j \in I : j <= k})] = text[k].value
  BY DEF AreItemsOf
<1>4. ASSUME ~(l.key = "item" /\ h \in LastFields) PROVE AreItemsOf(names, h)'
  <2>1. ItemsOf(h)' = I /\ \A k \in I : text'[k] = text[k]
    BY <1>1, <1>2, <1>4
  <2> HIDE DEF I
  <2> QED BY <1>3, <2>1 DEF AreItemsOf
<1>5. ASSUME l.key = "item", h \in LastFields, l.value \in ServiceNames
      PROVE  AreItemsOf(Append(names, l.value), h)'
  <2> DEFINE more == Append(names, l.value)
             J == I \cup {n + 1}
  <2>1. ItemsOf(h)' = J
    BY <1>1, <1>5
  <2>2. /\ Len(more) = Len(names) + 1 /\ more[Len(names) + 1] = l.value
        /\ \A i \in 1..Len(names) : more[i] = names[i]
    BY <1>5
  <2>3. IsFiniteSet(I)
    <3>1. IsFiniteSet(1..n) /\ I \in SUBSET (1..n)
      BY <1>1, <1>2, FS_Interval
    <3> QED BY <3>1, FS_Subset
  <2>4. n + 1 \notin I /\ Cardinality(J) = Cardinality(I) + 1
    <3>1. n + 1 \notin I
      BY <1>1, <1>2
    <3> HIDE DEF I
    <3> QED BY <2>3, <3>1, FS_AddElement
  <2>5. ASSUME NEW k \in I
        PROVE  more[Cardinality({j \in J : j <= k})] = text'[k].value
    <3>1. {j \in J : j <= k} = {j \in I : j <= k}
      BY <1>1, <1>2
    <3>2. Cardinality({j \in I : j <= k}) \in 1..Len(names)
      BY <1>1, <1>3, ItemsCount
    <3>3. text'[k] = text[k]
      BY <1>1, <1>2
    <3> HIDE DEF J, more
    <3> QED BY <1>3, <2>2, <3>1, <3>2, <3>3
  <2>6. more[Cardinality({j \in J : j <= n + 1})] = text'[n + 1].value
    <3>1. {j \in J : j <= n + 1} = J
      BY <1>1, <1>2
    <3>2. Cardinality(J) = Len(names) + 1
      BY <1>3, <2>4
    <3> HIDE DEF J, more
    <3> QED BY <1>1, <2>2, <3>1, <3>2
  <2>7. Len(more) = Cardinality(J)
    BY <1>3, <2>2, <2>4
  <2>8. \A k \in J : more[Cardinality({j \in J : j <= k})] = text'[k].value
    BY <2>5, <2>6
  <2> HIDE DEF J, more
  <2>9. \A names1 : /\ Len(names1) = Cardinality(J)
                    /\ \A k \in J :
                         names1[Cardinality({j \in J : j <= k})] = text'[k].value
                    => AreItemsOf(names1, h)'
    BY <2>1 DEF AreItemsOf
  <2> QED BY <2>7, <2>8, <2>9 DEF more
<1> QED BY <1>4, <1>5

\* What is declared of a list, told by the line of its key.
LEMMA DeclaredAt ==
  ASSUME InOrder, NEW list \in Lists, NEW h \in 1..Len(text), text[h].key = list, NEW names
  PROVE  IsDeclared(list, names) <=>
           IF text[h].value # Blank THEN names = text[h].value ELSE AreItemsOf(names, h)
<1>1. \A g \in 1..Len(text) : text[g].key = list => g = h
  BY KeyComesOnce DEF Keys
<1> QED BY <1>1 DEF IsDeclared

\* The same of the file with one line more.
LEMMA DeclaredAtNext ==
  ASSUME InOrder', NEW list \in Lists, NEW h \in 1..Len(text'), text'[h].key = list,
         IF text'[h].value # Blank THEN cfg'[list] = text'[h].value
                                   ELSE \A names : names = cfg'[list] => AreItemsOf(names, h)'
  PROVE  IsDeclared(list, cfg[list])'
<1>1. CASE text'[h].value # Blank
  BY <1>1 DEF IsDeclared
<1>2. CASE text'[h].value = Blank
  <2>1. PICK names : names = cfg'[list]
    OBVIOUS
  <2>2. AreItemsOf(names, h)'
    BY <1>2, <2>1
  <2>3. AreItemsOf(cfg[list], h)'
    BY <2>1, <2>2 DEF AreItemsOf
  <2> QED BY <1>2, <2>3 DEF IsDeclared
<1> QED BY <1>1, <1>2

LEMMA UndeclaredNext ==
  ASSUME NEW list \in Lists, \A h \in 1..Len(text') : text'[h].key # list, cfg'[list] = << >>
  PROVE  IsDeclared(list, cfg[list])'
BY DEF IsDeclared

\* A file stays in order when its next line has a value, is of a new key, or an
\* item below an open list.
LEMMA InOrderNext ==
  ASSUME text \in Seq(Lines), InOrder, NEW l \in Lines, text' = Append(text, l)
  PROVE  InOrder' <=>
           /\ l.key # "junk"
           /\ l.key # "ignored" => l.ok
           /\ l.key \in Keys => \A h \in 1..Len(text) : text[h].key # l.key
           /\ l.key = "item" =>
                \E h \in LastFields : text[h].key \in Lists /\ text[h].value = Blank
<1>0. PICK n \in Nat : n = Len(text)
  OBVIOUS
<1> DEFINE Good(i) ==
             /\ text[i].key # "junk"
             /\ text[i].key # "ignored" => text[i].ok
             /\ text[i].key \in Keys => \A h \in 1..(i - 1) : text[h].key # text[i].key
             /\ text[i].key = "item" =>
                  \E h \in Heads(i) : text[h].key \in Lists /\ text[h].value = Blank
<1>1. /\ n \in Nat /\ Len(text') = n + 1 /\ text'[n + 1] = l
      /\ \A i \in 1..n : text'[i] = text[i] /\ Heads(i)' = Heads(i)
      /\ Heads(n + 1)' = LastFields
  BY <1>0, LineAppended
<1>2. LastFields \subseteq 1..n /\ \A i \in 1..n : Heads(i) \subseteq 1..(i - 1)
  BY <1>0 DEF LastFields, Heads
<1>3. \A i \in 1..n : Good(i)'
  <2> TAKE i \in 1..n
  <2>1. Good(i) /\ text'[i] = text[i] /\ Heads(i)' = Heads(i)
    BY <1>0, <1>1 DEF InOrder
  <2>2. \A h \in 1..(i - 1) : text'[h] = text[h]
    BY <1>1
  <2>3. \A h \in Heads(i) : text'[h] = text[h]
    BY <1>2, <2>2
  <2> QED BY <2>1, <2>2, <2>3
<1>4. Good(n + 1)' <=>
        /\ l.key # "junk"
        /\ l.key # "ignored" => l.ok
        /\ l.key \in Keys => \A h \in 1..n : text[h].key # l.key
        /\ l.key = "item" =>
             \E h \in LastFields : text[h].key \in Lists /\ text[h].value = Blank
  <2>1. (n + 1) - 1 = n /\ \A h \in LastFields : text'[h] = text[h]
    BY <1>1, <1>2
  <2>2. \A h \in 1..n : text'[h] = text[h]
    BY <1>1
  <2> QED BY <1>1, <2>1, <2>2
<1>5. InOrder' <=> \A i \in 1..(n + 1) : Good(i)'
  BY <1>1 DEF InOrder
<1>6. \A i \in 1..(n + 1) : i \in 1..n \/ i = n + 1
  BY <1>1
<1>7. n + 1 \in 1..(n + 1)
  BY <1>1
<1> HIDE DEF Good
<1>8. InOrder' <=> Good(n + 1)'
  BY <1>3, <1>5, <1>6, <1>7
<1> QED BY <1>0, <1>4, <1>8

\* What was given stays given.
LEMMA GivenNext ==
  ASSUME text \in Seq(Lines), NEW l \in Lines, text' = Append(text, l), flags' = flags, NEW key
  PROVE  /\ Given(key) \subseteq Given(key)'
         /\ l.key = key => l.value \in Given(key)'
<1>1. /\ Len(text) \in Nat /\ Len(text') = Len(text) + 1 /\ text'[Len(text) + 1] = l
      /\ \A i \in 1..Len(text) : text'[i] = text[i]
  OBVIOUS
<1>2. \A i \in 1..Len(text) : i \in 1..Len(text')
  BY <1>1
<1>3. Len(text) + 1 \in 1..Len(text')
  BY <1>1
<1>4. Given(key) \subseteq Given(key)'
  BY <1>1, <1>2 DEF Given
<1>5. l.key = key => l.value \in Given(key)'
  BY <1>1, <1>3 DEF Given
<1> QED BY <1>4, <1>5

\* The invariant holds at first.
LEMMA ConfigInitInv == ConfigInit => ConfigInv
<1> SUFFICES ASSUME ConfigInit PROVE ConfigInv
  OBVIOUS
<1>1. /\ program \in {"kojid", "agent"} /\ configPc = "scan" /\ text = << >>
      /\ flags = << >> /\ pending = "none" /\ seen = {} /\ cfg = NewDefaultConfig
  BY DEF ConfigInit
<1>2. IsConfig(cfg)
  BY <1>1, DefaultIsConfig
<1>3. ConfigTypeOK
  <2>1. DOMAIN cfg = DOMAIN NewDefaultConfig /\ \A key \in DOMAIN cfg : cfg[key] \in ParsedValues(key)
    BY <1>2, ConfigFields DEF IsConfig
  <2> QED BY <1>1, <2>1 DEF ConfigTypeOK
<1>4. cfg["agent_mutation_enabled"] = FALSE /\ \A list \in Lists : cfg[list] = << >>
  BY <1>1, FieldTypes DEF NewDefaultConfig
<1>5. Len(text) = 0
  BY <1>1
<1>6. ScanInv
  <2>1. InOrder /\ OpenList
    BY <1>1, <1>5 DEF InOrder, OpenList, LastFields
  <2>2. SeenIsRead
    BY <1>1, <1>5 DEF SeenIsRead
  <2>3. \A list \in Lists : IsDeclared(list, cfg[list])
    BY <1>4, <1>5 DEF IsDeclared
  <2> QED BY <2>1, <2>2, <2>3 DEF ScanInv
<1> QED BY <1>1, <1>3, <1>4, <1>6 DEF ConfigInv

\* A line that is passed over.
LEMMA IgnoredLineInv ==
  ASSUME ConfigInv, configPc = "scan", NEW l \in Lines, text' = Append(text, l),
         IgnoredLine(l), UNCHANGED <<program, flags>>
  PROVE  ConfigInv'
<1>0. /\ l.key = "ignored" /\ UNCHANGED <<configPc, pending, seen, cfg>>
      /\ l.key \notin Keys
  BY KeysAre DEF IgnoredLine
<1>1. ScanInv /\ flags = << >> /\ text \in Seq(Lines)
  BY ConfigTypes DEF ConfigInv
<1>2. ConfigTypeOK'
  <2>1. text' \in Seq(Lines)
    BY <1>1
  <2> QED BY <1>0, <2>1 DEF ConfigInv, ConfigTypeOK
<1>3. /\ LastFields' = LastFields
      /\ \A h \in 1..Len(text) : text'[h] = text[h]
      /\ Len(text) \in Nat /\ Len(text') = Len(text) + 1 /\ text'[Len(text) + 1] = l
  BY <1>0, <1>1, LineAppended
<1>4. InOrder'
  BY <1>0, <1>1, InOrderNext DEF ScanInv
<1>5. OpenList'
  <2>1. LastFields \subseteq 1..Len(text)
    BY DEF LastFields
  <2> QED BY <1>0, <1>1, <1>3, <2>1 DEF ScanInv, OpenList
<1>6. SeenIsRead'
  <2>1. 1..Len(text') = 1..Len(text) \cup {Len(text) + 1}
    BY <1>3
  <2>2. {text'[h].key : h \in 1..Len(text')} = {text[h].key : h \in 1..Len(text)} \cup {l.key}
    BY <1>3, <2>1
  <2> QED BY <1>0, <1>1, <2>2 DEF ScanInv, SeenIsRead
<1>7. ASSUME NEW list \in Lists PROVE IsDeclared(list, cfg[list])'
  <2>1. cfg[list] \in Seq(ServiceNames) /\ cfg'[list] = cfg[list]
    BY <1>0, ConfigTypes, FieldTypes DEF IsConfig
  <2>2. list \in Keys /\ l.key # list
    BY <1>0, FieldTypes DEF Fields
  <2>3. IsDeclared(list, cfg[list])
    BY <1>1 DEF ScanInv
  <2>4. CASE \E h \in 1..Len(text) : text[h].key = list
    <3>1. PICK h \in 1..Len(text) : text[h].key = list
      BY <2>4
    <3>2. IF text[h].value # Blank THEN cfg[list] = text[h].value ELSE AreItemsOf(cfg[list], h)
      BY <1>1, <2>3, <3>1, DeclaredAt DEF ScanInv
    <3>3. h \in 1..Len(text') /\ text'[h].key = list /\ text'[h].value = text[h].value
      BY <1>3, <3>1
    <3>4. CASE text[h].value # Blank
      BY <1>4, <2>1, <3>2, <3>3, <3>4, DeclaredAtNext
    <3>5. CASE text[h].value = Blank
      <4>1. ASSUME NEW names, names = cfg'[list] PROVE AreItemsOf(names, h)'
        <5>1. names \in Seq(ServiceNames) /\ AreItemsOf(names, h)
          BY <2>1, <3>2, <3>5, <4>1
        <5> QED BY <1>0, <1>1, <5>1, ItemsKept
      <4> QED BY <1>4, <3>3, <3>5, <4>1, DeclaredAtNext
    <3> QED BY <3>4, <3>5
  <2>5. CASE \A h \in 1..Len(text) : text[h].key # list
    <3>1. cfg'[list] = << >>
      BY <2>1, <2>3, <2>5 DEF IsDeclared
    <3>2. \A h \in 1..Len(text') : text'[h].key # list
      BY <1>3, <2>2, <2>5
    <3> QED BY <3>1, <3>2, UndeclaredNext
  <2> QED BY <2>4, <2>5
<1>8. cfg'["agent_mutation_enabled"] => TRUE \in Given("agent_mutation_enabled")'
  BY <1>0, <1>1, GivenNext DEF ConfigInv
<1>9. ScanInv'
  BY <1>4, <1>5, <1>6, <1>7 DEF ScanInv
<1> QED BY <1>0, <1>1, <1>2, <1>8, <1>9 DEF ConfigInv

\* A line that is refused is one that the file is out of order with.
LEMMA RefusedLineInv ==
  ASSUME ConfigInv, configPc = "scan", NEW l \in Lines, text' = Append(text, l),
         UNCHANGED <<program, flags>>, configPc' = "refused", ListItem(l) \/ FieldLine(l)
  PROVE  ConfigInv'
<1>0. UNCHANGED <<pending, seen, cfg>>
  BY DEF ListItem, FieldLine, RefuseFile
<1>1. ScanInv /\ flags = << >> /\ text \in Seq(Lines)
  BY ConfigTypes DEF ConfigInv
<1>2. ConfigTypeOK'
  <2>1. text' \in Seq(Lines)
    BY <1>1
  <2> QED BY <1>0, <2>1 DEF ConfigInv, ConfigTypeOK
<1>3. ~InOrder'
  <2>1. CASE ListItem(l)
    <3>1. l.key = "item" /\ (pending = "none" \/ ~l.ok)
      BY <2>1 DEF ListItem
    <3>2. pending = "none" =>
            ~\E h \in LastFields : text[h].key \in Lists /\ text[h].value = Blank
      BY <1>1 DEF ScanInv, OpenList
    <3> QED BY <1>1, <3>1, <3>2, InOrderNext DEF ScanInv
  <2>2. CASE FieldLine(l)
    <3>1. l.key \notin {"ignored", "item"} /\ (l.key = "junk" \/ l.key \in seen \/ ~l.ok)
      BY <2>2 DEF FieldLine
    <3>2. CASE l.key \in seen
      <4>1. l.key \in Keys /\ \E h \in 1..Len(text) : text[h].key = l.key
        BY <1>1, <3>2 DEF ScanInv, SeenIsRead
      <4> QED BY <1>1, <4>1, InOrderNext DEF ScanInv
    <3>3. CASE l.key = "junk" \/ ~l.ok
      BY <1>1, <3>1, <3>3, InOrderNext DEF ScanInv
    <3> QED BY <3>1, <3>2, <3>3
  <2> QED BY <2>1, <2>2
<1>4. cfg'["agent_mutation_enabled"] => TRUE \in Given("agent_mutation_enabled")'
  BY <1>0, <1>1, GivenNext DEF ConfigInv
<1> QED BY <1>2, <1>3, <1>4 DEF ConfigInv, RefusalInv

\* An item is a name more of the list that is open, and of no other.
LEMMA ListItemInv ==
  ASSUME ConfigInv, configPc = "scan", NEW l \in Lines, text' = Append(text, l),
         UNCHANGED <<program, flags>>, configPc' = "scan", ListItem(l)
  PROVE  ConfigInv'
<1>0. /\ l.key = "item" /\ l.ok /\ pending # "none" /\ pending' = pending /\ seen' = seen
      /\ cfg' = [cfg EXCEPT ![pending] = Append(cfg[pending], l.value)]
      /\ l.key \notin Keys
  BY KeysAre DEF ListItem, RefuseFile
<1>1. ScanInv /\ flags = << >> /\ text \in Seq(Lines) /\ pending \in Lists
  BY <1>0, ConfigTypes DEF ConfigInv
<1>2. l.value \in ServiceNames
  BY <1>0, LinesAssumption
<1>3. PICK o \in LastFields : text[o].key = pending /\ text[o].value = Blank
  BY <1>0, <1>1 DEF ScanInv, OpenList
<1>4. /\ IsConfig(cfg')
      /\ cfg'[pending] = Append(cfg[pending], l.value)
      /\ \A f \in Fields \ {pending} : cfg'[f] = cfg[f]
      /\ \A list \in Lists : cfg[list] \in Seq(ServiceNames)
  <2>1. /\ DOMAIN cfg = Fields /\ \A key \in Fields : cfg[key] \in ParsedValues(key)
        /\ pending \in Fields
    BY <1>1, ConfigTypes, FieldTypes DEF IsConfig
  <2>2. \A list \in Lists : cfg[list] \in Seq(ServiceNames)
    BY <2>1, FieldTypes
  <2>3. Append(cfg[pending], l.value) \in ParsedValues(pending)
    <3>1. cfg[pending] \in Seq(ServiceNames) /\ ParsedValues(pending) = Seq(ServiceNames)
      BY <1>1, <2>2, FieldTypes
    <3>2. Append(cfg[pending], l.value) \in Seq(ServiceNames)
      BY <1>2, <3>1
    <3> QED BY <3>1, <3>2
  <2>4. /\ DOMAIN cfg' = Fields /\ cfg'[pending] = Append(cfg[pending], l.value)
        /\ \A f \in Fields \ {pending} : cfg'[f] = cfg[f]
    BY <1>0, <2>1
  <2>5. \A key \in Fields : cfg'[key] \in ParsedValues(key)
    BY <2>1, <2>3, <2>4
  <2> QED BY <2>2, <2>4, <2>5 DEF IsConfig
<1>5. ConfigTypeOK'
  <2>1. text' \in Seq(Lines)
    BY <1>1
  <2>2. /\ DOMAIN cfg' = DOMAIN NewDefaultConfig
        /\ \A key \in DOMAIN cfg' : cfg'[key] \in ParsedValues(key)
    BY <1>4, ConfigFields DEF IsConfig
  <2> QED BY <1>0, <2>1, <2>2 DEF ConfigInv, ConfigTypeOK
<1>6. /\ LastFields' = LastFields /\ LastFields \subseteq 1..Len(text)
      /\ \A h \in 1..Len(text) : text'[h] = text[h]
      /\ Len(text) \in Nat /\ Len(text') = Len(text) + 1 /\ text'[Len(text) + 1] = l
  <2>1. LastFields \subseteq 1..Len(text)
    BY DEF LastFields
  <2> QED BY <1>0, <1>1, <2>1, LineAppended
<1>7. InOrder'
  <2>1. \E h \in LastFields : text[h].key \in Lists /\ text[h].value = Blank
    BY <1>1, <1>3
  <2> QED BY <1>0, <1>1, <2>1, InOrderNext DEF ScanInv
<1>8. OpenList'
  BY <1>0, <1>3, <1>6 DEF OpenList
<1>9. SeenIsRead'
  <2>1. 1..Len(text') = 1..Len(text) \cup {Len(text) + 1}
    BY <1>6
  <2>2. {text'[h].key : h \in 1..Len(text')} = {text[h].key : h \in 1..Len(text)} \cup {l.key}
    BY <1>6, <2>1
  <2> QED BY <1>0, <1>1, <2>2 DEF ScanInv, SeenIsRead
<1>10. ASSUME NEW list \in Lists PROVE IsDeclared(list, cfg[list])'
  <2>1. list \in Keys /\ list \in Fields /\ l.key # list
    BY <1>0, FieldTypes DEF Fields
  <2>2. IsDeclared(list, cfg[list])
    BY <1>1 DEF ScanInv
  <2>3. CASE \E h \in 1..Len(text) : text[h].key = list
    <3>1. PICK h \in 1..Len(text) : text[h].key = list
      BY <2>3
    <3>2. IF text[h].value # Blank THEN cfg[list] = text[h].value ELSE AreItemsOf(cfg[list], h)
      BY <1>1, <2>2, <3>1, DeclaredAt DEF ScanInv
    <3>3. h \in 1..Len(text') /\ text'[h].key = list /\ text'[h].value = text[h].value
      BY <1>6, <3>1
    <3>4. h \in LastFields <=> list = pending
      <4>1. o \in 1..Len(text) /\ text[o].key \in Keys
        BY <1>3 DEF LastFields
      <4>2. list = pending => h = o
        BY <1>1, <1>3, <3>1, <4>1, KeyComesOnce DEF ScanInv
      <4>3. h \in LastFields => h = o
        BY <1>3, LastFieldIsOne
      <4> QED BY <1>3, <3>1, <4>2, <4>3
    <3>5. CASE text[h].value # Blank
      <4>1. list # pending
        BY <1>3, <3>4, <3>5, LastFieldIsOne
      <4>2. cfg'[list] = text'[h].value
        BY <1>4, <2>1, <3>2, <3>3, <3>5, <4>1
      <4> QED BY <1>7, <3>3, <3>5, <4>2, DeclaredAtNext
    <3>6. CASE text[h].value = Blank
      <4>1. ASSUME NEW names, names = cfg'[list] PROVE AreItemsOf(names, h)'
        <5>1. CASE list = pending
          <6>1. PICK before : before = cfg[list]
            OBVIOUS
          <6>2. before \in Seq(ServiceNames) /\ AreItemsOf(before, h)
            BY <1>4, <3>2, <3>6, <6>1
          <6>3. AreItemsOf(Append(before, l.value), h)'
            BY <1>0, <1>1, <1>2, <3>4, <5>1, <6>2, ItemsKept
          <6>4. names = Append(before, l.value)
            BY <1>4, <4>1, <5>1, <6>1
          <6> QED BY <6>3, <6>4
        <5>2. CASE list # pending
          <6>1. names \in Seq(ServiceNames) /\ AreItemsOf(names, h)
            BY <1>4, <2>1, <3>2, <3>6, <4>1, <5>2
          <6> QED BY <1>1, <3>4, <5>2, <6>1, ItemsKept
        <5> QED BY <5>1, <5>2
      <4> QED BY <1>7, <3>3, <3>6, <4>1, DeclaredAtNext
    <3> QED BY <3>5, <3>6
  <2>4. CASE \A h \in 1..Len(text) : text[h].key # list
    <3>1. list # pending
      BY <1>3, <1>6, <2>4
    <3>2. cfg'[list] = << >>
      BY <1>4, <2>1, <2>2, <2>4, <3>1 DEF IsDeclared
    <3>3. \A h \in 1..Len(text') : text'[h].key # list
      BY <1>6, <2>1, <2>4
    <3> QED BY <3>2, <3>3, UndeclaredNext
  <2> QED BY <2>3, <2>4
<1>11. cfg'["agent_mutation_enabled"] => TRUE \in Given("agent_mutation_enabled")'
  <2>1. cfg'["agent_mutation_enabled"] = cfg["agent_mutation_enabled"]
    BY <1>1, <1>4, FieldTypes
  <2> QED BY <1>1, <2>1, GivenNext DEF ConfigInv
<1>12. ScanInv'
  BY <1>7, <1>8, <1>9, <1>10 DEF ScanInv
<1> QED BY <1>1, <1>5, <1>11, <1>12 DEF ConfigInv

\* A field has the value beside its key, and opens a list when that is empty.
LEMMA FieldLineInv ==
  ASSUME ConfigInv, configPc = "scan", NEW l \in Lines, text' = Append(text, l),
         UNCHANGED <<program, flags>>, configPc' = "scan", FieldLine(l)
  PROVE  ConfigInv'
<1>0. /\ l.key \in Keys /\ l.key \notin seen /\ l.ok /\ l.value \in ValuesOf(l.key)
      /\ pending' = IF l.key \in Lists /\ l.value = Blank THEN l.key ELSE "none"
      /\ seen' = seen \cup {l.key}
      /\ cfg' = SetField(cfg, l.key, l.value)
      /\ l.key \notin {"item", "ignored", "junk"}
  <2>1. /\ l.key \notin {"ignored", "item"} /\ l.key # "junk" /\ l.key \notin seen /\ l.ok
        /\ pending' = IF l.key \in Lists /\ l.value = Blank THEN l.key ELSE "none"
        /\ seen' = seen \cup {l.key}
        /\ cfg' = SetField(cfg, l.key, l.value)
    BY DEF FieldLine, RefuseFile
  <2>2. l.key \in Keys
    BY <2>1, LinesAssumption
  <2> QED BY <2>1, <2>2, LinesAssumption
<1>1. ScanInv /\ flags = << >> /\ text \in Seq(Lines)
  BY ConfigTypes DEF ConfigInv
<1>2. /\ IsConfig(cfg')
      /\ cfg'[FieldOf(l.key)] = IF l.value = Blank THEN << >> ELSE l.value
      /\ \A f \in Fields \ {FieldOf(l.key)} : cfg'[f] = cfg[f]
  BY <1>0, ConfigTypes, SetFieldSets
<1>3. ConfigTypeOK'
  <2>1. text' \in Seq(Lines)
    BY <1>1
  <2>2. /\ DOMAIN cfg' = DOMAIN NewDefaultConfig
        /\ \A key \in DOMAIN cfg' : cfg'[key] \in ParsedValues(key)
    BY <1>2, ConfigFields DEF IsConfig
  <2>3. pending' \in Lists \cup {"none"} /\ seen' \subseteq Keys
    BY <1>0, ConfigTypes
  <2> QED BY <2>1, <2>2, <2>3 DEF ConfigInv, ConfigTypeOK
<1>4. /\ LastFields' = {Len(text) + 1}
      /\ \A h \in 1..Len(text) : text'[h] = text[h]
      /\ Len(text) \in Nat /\ Len(text') = Len(text) + 1 /\ text'[Len(text) + 1] = l
  BY <1>0, <1>1, LineAppended
<1>5. \A h \in 1..Len(text) : text[h].key # l.key
  BY <1>0, <1>1 DEF ScanInv, SeenIsRead
<1>6. InOrder'
  BY <1>0, <1>1, <1>5, InOrderNext DEF ScanInv
<1>7. OpenList'
  <2>1. Len(text) + 1 \in LastFields' /\ \A h \in LastFields' : text'[h] = l
    BY <1>4
  <2>2. pending' # "none" => pending' = l.key /\ l.value = Blank
    BY <1>0
  <2>3. pending' = "none" => ~(l.key \in Lists /\ l.value = Blank)
    BY <1>0, KeysAre
  <2> QED BY <1>4, <2>1, <2>2, <2>3 DEF OpenList
<1>8. SeenIsRead'
  <2>1. 1..Len(text') = 1..Len(text) \cup {Len(text) + 1}
    BY <1>4
  <2>2. {text'[h].key : h \in 1..Len(text')} = {text[h].key : h \in 1..Len(text)} \cup {l.key}
    BY <1>4, <2>1
  <2> QED BY <1>0, <1>1, <2>2 DEF ScanInv, SeenIsRead
<1>9. ASSUME NEW list \in Lists PROVE IsDeclared(list, cfg[list])'
  <2>1. list \in Keys /\ list \in Fields
    BY FieldTypes DEF Fields
  <2>2. IsDeclared(list, cfg[list])
    BY <1>1 DEF ScanInv
  <2>3. CASE l.key = list
    <3>1. cfg'[list] = IF l.value = Blank THEN << >> ELSE l.value
      BY <1>0, <1>2, <2>3, FieldValues
    <3>2. PICK h : h = Len(text) + 1
      OBVIOUS
    <3>3. h \in 1..Len(text') /\ text'[h] = l
      BY <1>4, <3>2
    <3>4. CASE l.value # Blank
      BY <1>6, <2>3, <3>1, <3>3, <3>4, DeclaredAtNext
    <3>5. CASE l.value = Blank
      <4>1. ItemsOf(h)' = {}
        BY <1>1, <3>2, LineAppended
      <4>2. AreItemsOf(<< >>, h)'
        BY <4>1, FS_EmptySet DEF AreItemsOf
      <4>3. ASSUME NEW names, names = cfg'[list] PROVE AreItemsOf(names, h)'
        BY <3>1, <3>5, <4>2, <4>3
      <4> QED BY <1>6, <2>3, <3>3, <3>5, <4>3, DeclaredAtNext
    <3> QED BY <3>4, <3>5
  <2>4. CASE l.key # list
    <3>1. cfg'[list] = cfg[list] /\ cfg[list] \in Seq(ServiceNames)
      <4>1. list \in Fields \ {FieldOf(l.key)}
        BY <1>0, <2>1, <2>4, FieldValues
      <4>2. cfg[list] \in Seq(ServiceNames)
        BY ConfigTypes, FieldTypes DEF IsConfig
      <4> QED BY <1>2, <4>1, <4>2
    <3>2. CASE \E h \in 1..Len(text) : text[h].key = list
      <4>1. PICK h \in 1..Len(text) : text[h].key = list
        BY <3>2
      <4>2. IF text[h].value # Blank THEN cfg[list] = text[h].value
                                     ELSE AreItemsOf(cfg[list], h)
        BY <1>1, <2>2, <4>1, DeclaredAt DEF ScanInv
      <4>3. h \in 1..Len(text') /\ text'[h].key = list /\ text'[h].value = text[h].value
        BY <1>4, <4>1
      <4>4. CASE text[h].value # Blank
        BY <1>6, <3>1, <4>2, <4>3, <4>4, DeclaredAtNext
      <4>5. CASE text[h].value = Blank
        <5>1. ASSUME NEW names, names = cfg'[list] PROVE AreItemsOf(names, h)'
          <6>1. names \in Seq(ServiceNames) /\ AreItemsOf(names, h)
            BY <3>1, <4>2, <4>5, <5>1
          <6> QED BY <1>0, <1>1, <6>1, ItemsKept
        <5> QED BY <1>6, <4>3, <4>5, <5>1, DeclaredAtNext
      <4> QED BY <4>4, <4>5
    <3>3. CASE \A h \in 1..Len(text) : text[h].key # list
      <4>1. cfg'[list] = << >>
        BY <2>2, <3>1, <3>3 DEF IsDeclared
      <4>2. \A h \in 1..Len(text') : text'[h].key # list
        BY <1>4, <2>4, <3>3
      <4> QED BY <4>1, <4>2, UndeclaredNext
    <3> QED BY <3>2, <3>3
  <2> QED BY <2>3, <2>4
<1>10. cfg'["agent_mutation_enabled"] => TRUE \in Given("agent_mutation_enabled")'
  <2>1. CASE l.key = "agent_mutation_enabled"
    <3>1. l.value # Blank
      BY <1>0, <2>1, FieldValues DEF Lists
    <3>2. cfg'["agent_mutation_enabled"] = l.value /\ l.value \in BOOLEAN
      BY <1>0, <1>2, <2>1, <3>1, FieldTypes, FieldValues
    <3>3. l.value \in Given("agent_mutation_enabled")'
      BY <1>1, <2>1, GivenNext
    <3> QED BY <3>2, <3>3
  <2>2. CASE l.key # "agent_mutation_enabled"
    <3>1. cfg'["agent_mutation_enabled"] = cfg["agent_mutation_enabled"]
      BY <1>0, <1>2, <2>2, FieldTypes, FieldValues
    <3> QED BY <1>1, <3>1, GivenNext DEF ConfigInv
  <2> QED BY <2>1, <2>2
<1>11. ScanInv'
  BY <1>6, <1>7, <1>8, <1>9 DEF ScanInv
<1> QED BY <1>1, <1>3, <1>10, <1>11 DEF ConfigInv

\* The scan goes on, or ends at its first error.
LEMMA ReadLineInv ==
  ASSUME ConfigInv, ReadLine
  PROVE  ConfigInv'
<1>1. PICK l \in Lines : /\ text' = Append(text, l)
                         /\ (IgnoredLine(l) \/ ListItem(l) \/ FieldLine(l))
  BY DEF ReadLine
<1>2. configPc = "scan" /\ UNCHANGED <<program, flags>>
  BY DEF ReadLine
<1>3. configPc' = "scan" \/ configPc' = "refused"
  BY <1>1, <1>2 DEF IgnoredLine, ListItem, FieldLine, RefuseFile
<1>4. CASE IgnoredLine(l)
  BY <1>1, <1>2, <1>4, IgnoredLineInv
<1>5. CASE ListItem(l)
  BY <1>1, <1>2, <1>3, <1>5, ListItemInv, RefusedLineInv
<1>6. CASE FieldLine(l)
  BY <1>1, <1>2, <1>3, <1>6, FieldLineInv, RefusedLineInv
<1> QED BY <1>1, <1>4, <1>5, <1>6

-----------------------------------------------------------------------------
\* What the file says, and what it gave, does not change after the scan.
LEMMA FileStays ==
  ASSUME UNCHANGED text, \A key : Given(key) \subseteq Given(key)',
         cfg'["agent_service_allowlist"] = cfg["agent_service_allowlist"]
  PROVE  AgentListInv => AgentListInv'
<1>1. IsDeclared("agent_service_allowlist", cfg["agent_service_allowlist"]) =>
        IsDeclared("agent_service_allowlist", cfg["agent_service_allowlist"])'
  <2>1. \A h : ItemsOf(h)' = ItemsOf(h)
    BY DEF ItemsOf, Heads
  <2>2. ASSUME NEW names, names = cfg["agent_service_allowlist"], NEW h
        PROVE  AreItemsOf(names, h) <=> AreItemsOf(names, h)'
    BY <2>1 DEF AreItemsOf
  <2>3. ASSUME NEW names, names = cfg["agent_service_allowlist"]
        PROVE  IsDeclared("agent_service_allowlist", names) <=>
                 IsDeclared("agent_service_allowlist", names)'
    BY <2>2, <2>3 DEF IsDeclared
  <2>4. PICK names : names = cfg["agent_service_allowlist"]
    OBVIOUS
  <2>5. ASSUME NEW h
        PROVE  AreItemsOf(names, h)' => AreItemsOf(cfg["agent_service_allowlist"], h)'
    BY <2>4 DEF AreItemsOf
  <2>6. IsDeclared("agent_service_allowlist", names)' =>
          IsDeclared("agent_service_allowlist", cfg["agent_service_allowlist"])'
    BY <2>4, <2>5 DEF IsDeclared
  <2> QED BY <2>3, <2>4, <2>6
<1> QED BY <1>1 DEF AgentListInv

LEMMA GivenStays == UNCHANGED <<text, flags>> => \A key : Given(key)' = Given(key)
BY DEF Given

\* The file has been read, or there is none: it passes or it is refused.
LEMMA FileEndsInv ==
  ASSUME ConfigInv, FileEnds \/ FileMissing
  PROVE  ConfigInv'
<1>0. /\ UNCHANGED <<program, text, pending, seen, flags>> /\ configPc = "scan"
      /\ configPc' \in {"flags", "refused"}
      /\ cfg' = cfg \/ cfg' = Completed(cfg)
  BY DEF FileEnds, FileMissing
<1>1. ScanInv /\ flags = << >> /\ IsConfig(cfg)
  BY <1>0, ConfigTypes DEF ConfigInv
<1>2. /\ IsConfig(cfg')
      /\ cfg'["agent_service_allowlist"] = cfg["agent_service_allowlist"]
      /\ cfg'["agent_mutation_enabled"] = cfg["agent_mutation_enabled"]
  BY <1>0, <1>1, CompletedIs
<1>3. ConfigTypeOK'
  <2>1. /\ DOMAIN cfg' = DOMAIN NewDefaultConfig
        /\ \A key \in DOMAIN cfg' : cfg'[key] \in ParsedValues(key)
    BY <1>2, ConfigFields DEF IsConfig
  <2> QED BY <1>0, <2>1 DEF ConfigInv, ConfigTypeOK
<1>4. AgentListInv'
  <2>1. AgentListInv
    BY <1>1, FieldTypes DEF ScanInv, AgentListInv
  <2> QED BY <1>0, <1>2, <2>1, FileStays, GivenStays
<1>5. cfg'["agent_mutation_enabled"] => TRUE \in Given("agent_mutation_enabled")'
  BY <1>0, <1>2, GivenStays DEF ConfigInv
<1>6. configPc' = "refused" => RefusalInv'
  <2>1. CASE FileMissing
    BY <2>1 DEF FileMissing, RefusalInv
  <2>2. CASE FileEnds
    <3>1. configPc' = "refused" => ~Accepted(Completed(cfg)) /\ cfg' = cfg
      BY <2>2 DEF FileEnds
    <3>2. cfg' = cfg => (Accepted(Completed(cfg))' <=> Accepted(Completed(cfg)))
      BY <1>0 DEF Accepted, Completed, ApplyDefaults, Validate, ValidateAgent, ValidNames
    <3> QED BY <3>1, <3>2 DEF RefusalInv
  <2> QED BY <2>1, <2>2
<1> QED BY <1>0, <1>3, <1>4, <1>5, <1>6 DEF ConfigInv

\* A flag sets its field.
LEMMA OverrideFieldInv ==
  ASSUME ConfigInv, OverrideField
  PROVE  ConfigInv'
<1>0. /\ UNCHANGED <<program, configPc, text, pending, seen>> /\ configPc = "flags"
  BY DEF OverrideField
<1>1. PICK f \in FlagValues : /\ cfg' = SetField(cfg, f.key, f.value)
                              /\ flags' = Append(flags, f)
  BY DEF OverrideField
<1>2. f.key \in Keys /\ f.value \in ValuesOf(f.key)
  BY LinesAssumption
<1>3. /\ IsConfig(cfg')
      /\ cfg'[FieldOf(f.key)] = IF f.value = Blank THEN << >> ELSE f.value
      /\ \A g \in Fields \ {FieldOf(f.key)} : cfg'[g] = cfg[g]
  BY <1>1, <1>2, ConfigTypes, SetFieldSets
<1>4. /\ flags' \in Seq(FlagValues)
      /\ \A key : Given(key) \subseteq Given(key)'
      /\ f.value \in Given(f.key)'
  <2>1. /\ flags \in Seq(FlagValues) /\ Len(flags) \in Nat
        /\ Len(flags') = Len(flags) + 1 /\ flags'[Len(flags) + 1] = f
        /\ \A i \in 1..Len(flags) : flags'[i] = flags[i]
        /\ flags' \in Seq(FlagValues)
    BY <1>1, ConfigTypes
  <2>2. \A i \in 1..Len(flags) : i \in 1..Len(flags')
    BY <2>1
  <2>3. Len(flags) + 1 \in 1..Len(flags')
    BY <2>1
  <2>4. \A key : Given(key) \subseteq Given(key)'
    BY <1>0, <2>1, <2>2 DEF Given
  <2>5. f.value \in Given(f.key)'
    BY <2>1, <2>3 DEF Given
  <2> QED BY <2>1, <2>4, <2>5
<1>5. ConfigTypeOK'
  <2>1. /\ DOMAIN cfg' = DOMAIN NewDefaultConfig
        /\ \A key \in DOMAIN cfg' : cfg'[key] \in ParsedValues(key)
    BY <1>3, ConfigFields DEF IsConfig
  <2> QED BY <1>0, <1>4, <2>1 DEF ConfigInv, ConfigTypeOK
<1>6. AgentListInv'
  <2>1. CASE f.key = "agent_service_allowlist"
    <3>1. cfg'["agent_service_allowlist"] = IF f.value = Blank THEN << >> ELSE f.value
      BY <1>2, <1>3, <2>1, FieldTypes, FieldValues
    <3>2. f.value \in Given("agent_service_allowlist")'
      BY <1>4, <2>1
    <3> QED BY <3>1, <3>2 DEF AgentListInv
  <2>2. CASE f.key # "agent_service_allowlist"
    <3>1. cfg'["agent_service_allowlist"] = cfg["agent_service_allowlist"]
      BY <1>2, <1>3, <2>2, FieldTypes, FieldValues
    <3>2. AgentListInv
      BY <1>0 DEF ConfigInv
    <3> QED BY <1>0, <1>4, <3>1, <3>2, FileStays
  <2> QED BY <2>1, <2>2
<1>7. cfg'["agent_mutation_enabled"] => TRUE \in Given("agent_mutation_enabled")'
  <2>1. CASE f.key = "agent_mutation_enabled"
    <3>1. f.value # Blank
      BY <1>2, <2>1, FieldValues DEF Lists
    <3>2. cfg'["agent_mutation_enabled"] = f.value /\ f.value \in BOOLEAN
      BY <1>2, <1>3, <2>1, <3>1, FieldTypes, FieldValues
    <3>3. f.value \in Given("agent_mutation_enabled")'
      BY <1>4, <2>1
    <3> QED BY <3>2, <3>3
  <2>2. CASE f.key # "agent_mutation_enabled"
    <3>1. cfg'["agent_mutation_enabled"] = cfg["agent_mutation_enabled"]
      BY <1>2, <1>3, <2>2, FieldTypes, FieldValues
    <3>2. Given("agent_mutation_enabled") \subseteq Given("agent_mutation_enabled")'
      BY <1>4
    <3> QED BY <3>1, <3>2 DEF ConfigInv
  <2> QED BY <2>1, <2>2
<1> QED BY <1>0, <1>5, <1>6, <1>7 DEF ConfigInv

\* The checks once more: the program starts or it is refused.
LEMMA StartProgramInv ==
  ASSUME ConfigInv, StartProgram
  PROVE  ConfigInv'
<1>0. /\ UNCHANGED <<program, text, pending, seen, flags>> /\ configPc = "flags"
      /\ cfg' = Completed(cfg) /\ configPc' \in {"started", "refused"}
      /\ configPc' = "started" <=> Accepted(Completed(cfg))
  BY DEF StartProgram
<1>1. /\ IsConfig(cfg')
      /\ cfg'["agent_service_allowlist"] = cfg["agent_service_allowlist"]
      /\ cfg'["agent_mutation_enabled"] = cfg["agent_mutation_enabled"]
      /\ Completed(cfg') = cfg'
  BY <1>0, ConfigTypes, CompletedIs
<1>2. ConfigTypeOK'
  <2>1. /\ DOMAIN cfg' = DOMAIN NewDefaultConfig
        /\ \A key \in DOMAIN cfg' : cfg'[key] \in ParsedValues(key)
    BY <1>1, ConfigFields DEF IsConfig
  <2> QED BY <1>0, <2>1 DEF ConfigInv, ConfigTypeOK
<1>3. AgentListInv'
  BY <1>0, <1>1, FileStays, GivenStays DEF ConfigInv
<1>4. cfg'["agent_mutation_enabled"] => TRUE \in Given("agent_mutation_enabled")'
  BY <1>0, <1>1, GivenStays DEF ConfigInv
<1>5. Accepted(cfg)' <=> Accepted(Completed(cfg))
  BY <1>0 DEF Accepted, Validate, ValidateAgent, ValidNames
<1>6. Completed(cfg)' = cfg'
  BY <1>0, <1>1 DEF Completed, ApplyDefaults
<1>7. configPc' = "refused" => RefusalInv'
  <2>1. Accepted(Completed(cfg))' <=> Accepted(cfg)'
    BY <1>6 DEF Accepted, Validate, ValidateAgent, ValidNames
  <2> QED BY <1>0, <1>5, <2>1 DEF RefusalInv
<1> QED BY <1>0, <1>2, <1>3, <1>4, <1>5, <1>7 DEF ConfigInv

\* Every step keeps the invariant.
LEMMA ConfigNextInv == ConfigInv /\ [ConfigNext]_configVars => ConfigInv'
<1> SUFFICES ASSUME ConfigInv, [ConfigNext]_configVars PROVE ConfigInv'
  OBVIOUS
<1>1. CASE ReadLine \/ FileEnds \/ FileMissing \/ OverrideField \/ StartProgram
  BY <1>1, ReadLineInv, FileEndsInv, OverrideFieldInv, StartProgramInv
<1>2. CASE UNCHANGED configVars
  <2>0. UNCHANGED <<program, configPc, text, pending, seen, cfg, flags>>
    BY <1>2 DEF configVars
  <2>1. ConfigTypeOK'
    BY <2>0 DEF ConfigInv, ConfigTypeOK
  <2>2. LastFields' = LastFields /\ (InOrder' <=> InOrder)
    BY <2>0 DEF LastFields, InOrder, Heads
  <2>3. OpenList <=> OpenList'
    BY <2>0, <2>2 DEF OpenList
  <2>4. SeenIsRead <=> SeenIsRead'
    BY <2>0 DEF SeenIsRead
  <2>5. \A list \in Lists : IsDeclared(list, cfg[list]) <=> IsDeclared(list, cfg[list])'
    BY <2>0 DEF IsDeclared, AreItemsOf, ItemsOf, Heads
  <2>6. ScanInv => ScanInv'
    BY <2>2, <2>3, <2>4, <2>5 DEF ScanInv
  <2>7. /\ Accepted(Completed(cfg)) <=> Accepted(Completed(cfg))'
        /\ Accepted(cfg) <=> Accepted(cfg)'
    BY <2>0 DEF Accepted, Completed, ApplyDefaults, Validate, ValidateAgent, ValidNames
  <2>8. RefusalInv => RefusalInv'
    BY <2>0, <2>2, <2>7 DEF RefusalInv
  <2>9. /\ AgentListInv => AgentListInv'
        /\ Given("agent_mutation_enabled")' = Given("agent_mutation_enabled")
    BY <2>0, FileStays, GivenStays
  <2> QED BY <2>0, <2>1, <2>6, <2>7, <2>8, <2>9 DEF ConfigInv
<1> QED BY <1>1, <1>2 DEF ConfigNext, Decided

-----------------------------------------------------------------------------
\* The invariant of a program that comes to its configuration.
THEOREM ConfigInvariance == ConfigSpec => []ConfigInv
<1>1. ConfigInit => ConfigInv
  BY ConfigInitInv
<1>2. ConfigInv /\ [ConfigNext]_configVars => ConfigInv'
  BY ConfigNextInv
<1> QED BY <1>1, <1>2, PTL DEF ConfigSpec

\* The configuration always has values of its fields.
THEOREM ConfigTypeCorrect == ConfigSpec => []ConfigTypeOK
<1>1. ConfigInv => ConfigTypeOK
  BY DEF ConfigInv
<1> QED BY <1>1, ConfigInvariance, PTL

\* The scan takes every file, of any length and with any names, for what it says.
THEOREM ScanIsTrue == ConfigSpec => []ScanIsDeclared
<1>1. ConfigInv => ScanIsDeclared
  BY DEF ConfigInv, ScanInv, RefusalInv, ScanIsDeclared
<1> QED BY <1>1, ConfigInvariance, PTL

\* No agent starts with mutation enabled that was not told so, nor with units to
\* change that it was not given as its own.
THEOREM MutationWasAskedFor == ConfigSpec => []MutationIsExplicit
<1>1. ConfigInv => MutationIsExplicit
  <2> SUFFICES ASSUME ConfigInv, configPc = "started", program = "agent",
                      cfg["agent_mutation_enabled"]
               PROVE  /\ TRUE \in Given("agent_mutation_enabled")
                      /\ cfg["agent_service_allowlist"] # << >>
                      /\ \/ IsDeclared("agent_service_allowlist", cfg["agent_service_allowlist"])
                         \/ cfg["agent_service_allowlist"] \in Given("agent_service_allowlist")
    BY DEF MutationIsExplicit
  <2>1. ValidateAgent(cfg)
    BY DEF ConfigInv, Accepted
  <2>2. cfg["agent_service_allowlist"] # << >>
    BY <2>1 DEF ValidateAgent
  <2> QED BY <2>2 DEF ConfigInv, AgentListInv
<1> QED BY <1>1, ConfigInvariance, PTL
=============================================================================
