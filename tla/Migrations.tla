----------------------------- MODULE Migrations -----------------------------
(***************************************************************************)
(* How kojid opens its database: the compatibility check, then the         *)
(* migrations, one transaction each (internal/db).                         *)
(*                                                                         *)
(* Any number of kojid processes, of any releases, may start against one   *)
(* file, and each may die between any two statements: nothing but SQLite's *)
(* own locking keeps them apart.                                           *)
(*                                                                         *)
(* A migration is a name and a text.  In a row of schema_migrations the    *)
(* text stands for the checksum, which is of the name and the SQL; in the  *)
(* schema it stands for the SQL that was run.                              *)
(***************************************************************************)
EXTENDS Naturals, Sequences

CONSTANTS
    Processes,          \* kojid processes
    Releases,           \* the builds an operator may install
    Names, Texts,
    InitialMigrations,  \* the list embedded in each release
    Clashing,           \* <<s, t>>: the SQL t fails on a schema where s was run
    MaxFaults           \* bound on interrupted starts

Migration == [name : Names, text : Texts]

\* A release has at least one migration, their names differ, and they can be
\* applied in their order.  No SQL of koji's can be applied twice.
ASSUME MigrationsAssumption ==
    /\ MaxFaults \in Nat
    /\ InitialMigrations \in [Releases -> Seq(Migration) \ {<< >>}]
    /\ \A r \in Releases : \A i, j \in 1..Len(InitialMigrations[r]) :
         i < j => /\ InitialMigrations[r][i].name # InitialMigrations[r][j].name
                  /\ <<InitialMigrations[r][i].text, InitialMigrations[r][j].text>> \notin Clashing
    /\ \A t \in Texts : <<t, t>> \in Clashing

VARIABLES
    history,   \* the rows of schema_migrations
    tracked,   \* the table schema_migrations exists
    schema,    \* the texts whose SQL was committed, in order
    found,     \* history variable: the rows there were at first
    checked,   \* history variable: the rows a process under way saw in its check
    pc,        \* where each process is in db.Open
    release,   \* the release each process runs
    next,      \* the migration its loop is at
    faults

db == <<history, tracked, schema, found>>
vars == <<db, checked, pc, release, next, faults>>

\* The name is the primary key.
Histories == {rows \in SUBSET Migration : \A m, n \in rows : m.name = n.name => m = n}
Starting == {"check", "ensure", "read", "apply"}

Size(r) == Len(InitialMigrations[r])
Known(r) == {InitialMigrations[r][i] : i \in 1..Size(r)}

Applied(rows, name) == \E m \in rows : m.name = name

-----------------------------------------------------------------------------
(* What a release makes of the rows.                                         *)

\* Faulty variant: only the rows of names the release knows are looked at.
InvalidKnownMigration(rows, r) ==
    \E m \in rows : \E k \in Known(r) : m.name = k.name /\ m # k

\* A row the release does not know, or knows with another checksum.
InvalidAppliedMigration(rows, r) == \E m \in rows : m \notin Known(r)

\* A migration of the release is pending and a later one is not.
NonContiguousHistory(rows, r) ==
    \E i, j \in 1..Size(r) :
        /\ i < j
        /\ ~Applied(rows, InitialMigrations[r][i].name)
        /\ Applied(rows, InitialMigrations[r][j].name)

\* future_schema_detected and corrupt_migration_history both end the start.
Incompatible(rows, r) == InvalidAppliedMigration(rows, r) \/ NonContiguousHistory(rows, r)

\* The rows are the beginning of a release's list.
Begins(rows, r) ==
    /\ rows \subseteq Known(r)
    /\ \A i, j \in 1..Size(r) :
         i < j /\ InitialMigrations[r][j] \in rows => InitialMigrations[r][i] \in rows

OneRelease(rows) == \E r \in Releases : Begins(rows, r)

\* What /readyz asks: every migration of the release, with its checksum.
MigrationsCurrent(r) == Known(r) \subseteq history

-----------------------------------------------------------------------------
(* The database may be new, left by any release at any point of an upgrade,  *)
(* or have rows that are no release's: edited, or of several.                *)

Init ==
    /\ history \in Histories
    /\ history \subseteq UNION {Known(r) : r \in Releases}
    /\ \E r \in Releases : \E n \in 0..Size(r) :
         /\ OneRelease(history) => history = {InitialMigrations[r][i] : i \in 1..n}
         /\ schema = [i \in 1..n |-> InitialMigrations[r][i].text]
    /\ tracked = (history # {})
    /\ found = history
    /\ checked = [p \in Processes |-> {}]
    /\ pc = [p \in Processes |-> "stopped"]
    /\ \E r \in Releases : release = [p \in Processes |-> r]
    /\ next = [p \in Processes |-> 1]
    /\ faults = 0

\* "ensure" is where the check lets a process through.
GoTo(p, label) ==
    /\ pc' = [pc EXCEPT ![p] = label]
    /\ checked' = [checked EXCEPT ![p] = CASE label = "ensure" -> history
                                           [] label \in {"read", "apply"} -> @
                                           [] OTHER -> {}]

\* The operator installs any release and starts it, or systemd starts it again.
Start(p, r) ==
    /\ pc[p] \in {"stopped", "failed"}
    /\ GoTo(p, "check")
    /\ release' = [release EXCEPT ![p] = r]
    /\ UNCHANGED <<db, next, faults>>

\* CheckSchemaCompatibility.  Its two SELECTs are one step: a table that was
\* not there makes the history empty as of the first, rows are as of the second.
CheckCompatibility(p) ==
    /\ pc[p] = "check"
    /\ GoTo(p, IF Incompatible(history, release[p]) THEN "refused" ELSE "ensure")
    /\ UNCHANGED <<db, release, next, faults>>

EnsureMigrationTable(p) ==
    /\ pc[p] = "ensure"
    /\ tracked' = TRUE
    /\ next' = [next EXCEPT ![p] = 1]
    /\ GoTo(p, "read")
    /\ UNCHANGED <<history, schema, found, release, faults>>

\* Faulty variant: the loop runs one migration past the end.
AdvancePastEnd(p) ==
    IF next[p] > Size(release[p])
    THEN GoTo(p, "serving") /\ UNCHANGED next
    ELSE GoTo(p, "read") /\ next' = [next EXCEPT ![p] = @ + 1]

\* Faulty variant: the loop ends one migration early.
AdvanceShort(p) ==
    IF next[p] + 1 >= Size(release[p])
    THEN GoTo(p, "serving") /\ UNCHANGED next
    ELSE GoTo(p, "read") /\ next' = [next EXCEPT ![p] = @ + 1]

\* The loop of RunMigrations goes on, or ends and kojid serves.
Advance(p) ==
    IF next[p] = Size(release[p])
    THEN GoTo(p, "serving") /\ UNCHANGED next
    ELSE GoTo(p, "read") /\ next' = [next EXCEPT ![p] = @ + 1]

\* The migration the loop is at.
Current(p) == InitialMigrations[release[p]][next[p]]

\* SELECT checksum by name: what was applied must be what the release would
\* apply.
ReadMigration(p) ==
    /\ pc[p] = "read"
    /\ IF ~Applied(history, Current(p).name)
       THEN GoTo(p, "apply") /\ UNCHANGED next
       ELSE IF Current(p) \in history
       THEN Advance(p)
       ELSE GoTo(p, "failed") /\ UNCHANGED next
    /\ UNCHANGED <<db, release, faults>>

\* The SQL fails on this schema, as that of every migration does that was
\* applied already, under whatever name.
SQLFails(text) == \E i \in 1..Len(schema) : <<schema[i], text>> \in Clashing

\* Faulty variant: the SQL and the row are committed apart.
ApplyMigrationSplit(p) ==
    LET m == Current(p)
    IN  /\ pc[p] = "apply"
        /\ IF Applied(history, m.name) \/ SQLFails(m.text)
           THEN GoTo(p, "failed") /\ UNCHANGED <<db, next, faults>>
           ELSE /\ schema' = Append(schema, m.text)
                /\ UNCHANGED <<tracked, found>>
                /\ \/ /\ history' = history \cup {m}
                      /\ Advance(p)
                      /\ UNCHANGED faults
                   \/ /\ faults < MaxFaults /\ faults' = faults + 1
                      /\ GoTo(p, "failed")
                      /\ UNCHANGED <<history, next>>
        /\ UNCHANGED release

\* The transaction: the SQL and the row together.  It fails when another
\* process applied the migration since the SELECT, for the row violates the
\* primary key, or when the SQL fails.
ApplyMigration(p) ==
    LET m == Current(p)
    IN  /\ pc[p] = "apply"
        /\ IF Applied(history, m.name) \/ SQLFails(m.text)
           THEN GoTo(p, "failed") /\ UNCHANGED <<db, next>>
           ELSE /\ history' = history \cup {m}
                /\ schema' = Append(schema, m.text)
                /\ Advance(p)
                /\ UNCHANGED <<tracked, found>>
        /\ UNCHANGED <<release, faults>>

\* A statement fails (SQLITE_BUSY after five seconds, a full disk) or the
\* process is killed: a transaction under way is rolled back.
StartInterrupted(p) ==
    /\ pc[p] \in Starting
    /\ faults < MaxFaults
    /\ faults' = faults + 1
    /\ GoTo(p, "failed")
    /\ UNCHANGED <<db, release, next>>

\* A refused kojid exits with an error, a serving one may crash.
Exit(p) ==
    /\ pc[p] \in {"serving", "refused"}
    /\ GoTo(p, "failed")
    /\ UNCHANGED <<db, release, next, faults>>

\* The operator stops it: nothing in db.Open waits for the signal.
Stop(p) ==
    /\ pc[p] # "stopped"
    /\ GoTo(p, "stopped")
    /\ UNCHANGED <<db, release, next, faults>>

Open(p) ==
    \/ CheckCompatibility(p)
    \/ EnsureMigrationTable(p)
    \/ ReadMigration(p)
    \/ ApplyMigration(p)

Next == \E p \in Processes :
    \/ \E r \in Releases : Start(p, r)
    \/ Open(p)
    \/ StartInterrupted(p) \/ Exit(p) \/ Stop(p)

Spec == Init /\ [][Next]_vars

\* A start under way goes on, and systemd restarts what failed (Restart=
\* on-failure); what the operator stopped stays stopped.
FairSpec ==
    /\ Spec
    /\ \A p \in Processes :
         /\ WF_vars(Open(p))
         /\ WF_vars(pc[p] = "failed" /\ \E r \in Releases : Start(p, r))

-----------------------------------------------------------------------------
TypeOK ==
    /\ history \in Histories /\ found \in Histories
    /\ checked \in [Processes -> Histories]
    /\ tracked \in BOOLEAN
    /\ schema \in Seq(Texts)
    /\ pc \in [Processes -> Starting \cup {"stopped", "failed", "refused", "serving"}]
    /\ release \in [Processes -> Releases]
    /\ next \in [Processes -> Nat \ {0}]
    /\ \A p \in Processes : pc[p] \in {"read", "apply"} => next[p] \in 1..Size(release[p])
    /\ faults \in 0..MaxFaults

\* The table says what was done: on a database no hand has edited, the SQL that
\* was committed is that of the rows, once each, through crashes and processes
\* of any releases that migrate it at the same time.
HistoryIsTrue ==
    OneRelease(found) =>
        /\ \A m \in history : \E i \in 1..Len(schema) : schema[i] = m.text
        /\ \A i \in 1..Len(schema) : \E m \in history : schema[i] = m.text
        /\ \A i, j \in 1..Len(schema) : schema[i] = schema[j] => i = j
        /\ \A m, n \in history : m.text = n.text => m = n

\* A kojid that serves has every migration it was built with, as it was built
\* with it, whatever other releases do to the database meanwhile; and none
\* serves, or adds a row, on a database found corrupt.
ServedSchemaIsCurrent ==
    /\ \A p \in Processes : pc[p] = "serving" =>
         OneRelease(found) /\ MigrationsCurrent(release[p])
    /\ ~OneRelease(found) => history = found

\* One list is the beginning of the other.
OneLine(q, r) ==
    \A i \in 1..Size(q) : i \in 1..Size(r) => InitialMigrations[q][i] = InitialMigrations[r][i]

\* The rows that came since a process made its check, but for those its loop
\* has been through.
CameSince(p) == {m \in history \ checked[p] :
                   \A i \in 1..(next[p] - 1) : m # InitialMigrations[release[p]][i]}

\* Rows are never changed nor removed, and one release's history becomes a
\* mixture of several only when two starts overlap whose releases are not on
\* one line: rows came to the one that commits since it made its check, and its
\* release is of another line than each that the rows were the beginning of.
\* Starts one after another never mix, and upgrades along one line never do.
OnlyOverlapsMixHistories ==
    [][ history' # history =>
          /\ history \subseteq history'
          /\ \/ OneRelease(history')
             \/ \E p \in Processes :
                  /\ pc[p] = "apply" /\ pc'[p] # "apply"
                  /\ CameSince(p) # {}
                  /\ \A q \in Releases :
                       Begins(history, q) => ~OneLine(q, release[p]) ]_vars

\* Against docs/INVARIANTS.md:75, "Future schemas prevent startup": no start
\* ends in service on rows that its own check would refuse.  The check and the
\* migrations are not one transaction, and this fails.
FutureSchemasPreventStartup ==
    [][ \A p \in Processes : pc[p] # "serving" /\ pc'[p] = "serving" =>
          Begins(history', release[p]) ]_vars

\* An interrupted upgrade does not lock kojid out: a start that failed, repeated
\* by systemd, ends in service or in a refusal, unless the operator ends it.
StartsAreDecided ==
    \A p \in Processes : pc[p] = "failed" ~> pc[p] \in {"serving", "refused", "stopped"}

=============================================================================
