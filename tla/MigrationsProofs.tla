-------------------------- MODULE MigrationsProofs --------------------------
(***************************************************************************)
(* Proofs about Migrations, for any processes, releases and lists.         *)
(*                                                                         *)
(* The inductive invariant says what a start in progress knows: what it    *)
(* saw in its check was the beginning of its own list and is still there,  *)
(* every migration its loop has passed is a row with the release's own     *)
(* text, and the rows found at first were one release's, or are as they    *)
(* were found.                                                             *)
(***************************************************************************)
EXTENDS Migrations, TLAPS

Under == {"ensure", "read", "apply"}

Knows(p) ==
    /\ pc[p] \in Under \cup {"serving"} => OneRelease(found)
    /\ pc[p] \in Under => Begins(checked[p], release[p]) /\ checked[p] \subseteq history
    /\ pc[p] \in {"read", "apply"} =>
         \A i \in 1..(next[p] - 1) : InitialMigrations[release[p]][i] \in history
    /\ pc[p] = "serving" => MigrationsCurrent(release[p])

CorruptIsLeft == ~OneRelease(found) => history = found

IInv == TypeOK /\ HistoryIsTrue /\ CorruptIsLeft /\ \A p \in Processes : Knows(p)

-----------------------------------------------------------------------------
(* The migrations of a release, each once. *)
LEMMA ListTypes ==
    ASSUME NEW r \in Releases
    PROVE  /\ Size(r) \in Nat \ {0}
           /\ \A i \in 1..Size(r) :
                /\ InitialMigrations[r][i] \in Migration
                /\ InitialMigrations[r][i] \in Known(r)
           /\ \A i, j \in 1..Size(r) :
                InitialMigrations[r][i].name = InitialMigrations[r][j].name => i = j
<1>1. InitialMigrations[r] \in Seq(Migration) /\ InitialMigrations[r] # << >>
  BY MigrationsAssumption
<1>2. Size(r) \in Nat \ {0} /\ \A i \in 1..Size(r) : InitialMigrations[r][i] \in Migration
  BY <1>1 DEF Size
<1>3. ASSUME NEW i \in 1..Size(r), NEW j \in 1..Size(r),
             InitialMigrations[r][i].name = InitialMigrations[r][j].name
      PROVE  i = j
  <2>1. ~(i < j) /\ ~(j < i)
    BY <1>3, MigrationsAssumption DEF Size
  <2> QED BY <1>2, <2>1
<1> QED BY <1>2, <1>3 DEF Known

(* On rows a release knows, its name tells whether a migration is there. *)
LEMMA AppliedByName ==
    ASSUME NEW r \in Releases, NEW rows, rows \subseteq Known(r), NEW i \in 1..Size(r)
    PROVE  Applied(rows, InitialMigrations[r][i].name) <=> InitialMigrations[r][i] \in rows
<1>1. ASSUME NEW m \in rows, m.name = InitialMigrations[r][i].name
      PROVE  m = InitialMigrations[r][i]
  <2>1. PICK j \in 1..Size(r) : m = InitialMigrations[r][j]
    BY DEF Known
  <2> QED BY <1>1, <2>1, ListTypes
<1> QED BY <1>1 DEF Applied

(* CheckSchemaCompatibility is exact: it lets a release through just when the
   rows are the beginning of its list. *)
LEMMA CompatibilityIsExact ==
    ASSUME NEW r \in Releases, NEW rows
    PROVE  ~Incompatible(rows, r) <=> Begins(rows, r)
<1>1. CASE rows \subseteq Known(r)
  BY <1>1, AppliedByName DEF Incompatible, InvalidAppliedMigration, NonContiguousHistory, Begins
<1>2. CASE ~(rows \subseteq Known(r))
  BY <1>2 DEF Incompatible, InvalidAppliedMigration, Begins
<1> QED BY <1>1, <1>2

(* What a longer list on the same line makes of the rows. *)
LEMMA LongerBegins ==
    ASSUME NEW q \in Releases, NEW r \in Releases, NEW rows,
           Begins(rows, q), OneLine(q, r), Size(q) <= Size(r)
    PROVE  Begins(rows, r)
<1>1. Size(q) \in Nat /\ Size(r) \in Nat
  BY ListTypes
<1>2. \A i \in 1..Size(q) : i \in 1..Size(r) /\ InitialMigrations[q][i] = InitialMigrations[r][i]
  BY <1>1 DEF OneLine
<1>3. rows \subseteq Known(r)
  BY <1>2 DEF Begins, Known
<1>4. ASSUME NEW i \in 1..Size(r), NEW j \in 1..Size(r), i < j, InitialMigrations[r][j] \in rows
      PROVE  InitialMigrations[r][i] \in rows
  <2>1. PICK k \in 1..Size(q) : InitialMigrations[r][j] = InitialMigrations[q][k]
    BY <1>4 DEF Begins, Known
  <2>2. k = j
    BY <1>2, <2>1, ListTypes
  <2>3. i \in 1..Size(q)
    BY <1>1, <1>4, <2>2
  <2> QED BY <1>2, <1>4, <2>1, <2>2, <2>3 DEF Begins
<1> QED BY <1>3, <1>4 DEF Begins

(* The one effect on the database: a migration whose name was not there and
   whose SQL was not run. *)
LEMMA ApplyEffect ==
    ASSUME TypeOK, NEW p \in Processes, ApplyMigration(p),
           <<history, schema>>' # <<history, schema>>
    PROVE  /\ pc[p] = "apply"
           /\ release[p] \in Releases /\ next[p] \in 1..Size(release[p])
           /\ Current(p) \in Migration
           /\ history' = history \cup {Current(p)} /\ Current(p) \notin history
           /\ schema' = Append(schema, Current(p).text)
           /\ \A i \in 1..Len(schema) : schema[i] # Current(p).text
           /\ history' \in Histories
           /\ Advance(p)
           /\ found' = found /\ release' = release
<1>1. /\ pc[p] = "apply" /\ ~Applied(history, Current(p).name) /\ ~SQLFails(Current(p).text)
      /\ history' = history \cup {Current(p)} /\ schema' = Append(schema, Current(p).text)
      /\ Advance(p) /\ found' = found /\ release' = release
  BY DEF ApplyMigration, db
<1>2. release[p] \in Releases /\ next[p] \in 1..Size(release[p]) /\ Current(p) \in Migration
  BY <1>1, ListTypes DEF TypeOK, Current
<1>3. \A i \in 1..Len(schema) : schema[i] # Current(p).text
  BY <1>1, <1>2, MigrationsAssumption DEF SQLFails, Migration
<1>4. history' \in Histories
  BY <1>1, <1>2 DEF TypeOK, Histories, Applied
<1> QED BY <1>1, <1>2, <1>3, <1>4 DEF Applied

(* Nothing else changes the rows. *)
LEMMA HistoryChange ==
    ASSUME Next
    PROVE  /\ found' = found
           /\ \/ <<history, schema>>' = <<history, schema>>
              \/ \E p \in Processes : ApplyMigration(p)
BY DEF Next, Open, Start, CheckCompatibility, EnsureMigrationTable, ReadMigration,
       ApplyMigration, StartInterrupted, Exit, Stop, db

(* No row is ever taken away. *)
LEMMA RowsStay ==
    ASSUME TypeOK, Next
    PROVE  history \subseteq history' /\ history' \in Histories
<1>1. CASE <<history, schema>>' = <<history, schema>>
  BY <1>1 DEF TypeOK
<1>2. CASE <<history, schema>>' # <<history, schema>>
  BY <1>2, HistoryChange, ApplyEffect
<1> QED BY <1>1, <1>2

-----------------------------------------------------------------------------
(* The invariant holds at the start and every step keeps it. *)
LEMMA InitIInv == ASSUME Init PROVE IInv
<1>1. PICK r \in Releases : \E n \in 0..Size(r) :
          /\ OneRelease(history) => history = {InitialMigrations[r][i] : i \in 1..n}
          /\ schema = [i \in 1..n |-> InitialMigrations[r][i].text]
  BY DEF Init
<1>2. PICK n \in 0..Size(r) :
          /\ OneRelease(history) => history = {InitialMigrations[r][i] : i \in 1..n}
          /\ schema = [i \in 1..n |-> InitialMigrations[r][i].text]
  BY <1>1
<1>3. n \in Nat /\ 1..n \subseteq 1..Size(r)
  BY <1>2, ListTypes
<1>4. \A i \in 1..n : InitialMigrations[r][i].text \in Texts
  BY <1>3, ListTypes DEF Migration
<1>5. schema \in Seq(Texts) /\ Len(schema) = n
  BY <1>2, <1>3, <1>4
<1>6. TypeOK
  BY <1>5, MigrationsAssumption DEF Init, TypeOK, Starting, Histories
<1>7. ASSUME NEW i \in 1..n, NEW j \in 1..n,
             InitialMigrations[r][i].text = InitialMigrations[r][j].text
      PROVE  i = j
  <2>1. i \in 1..Size(r) /\ j \in 1..Size(r)
    BY <1>3
  <2>2. ~(i < j) /\ ~(j < i)
    BY <1>4, <1>7, <2>1, MigrationsAssumption DEF Size
  <2> QED BY <1>3, <2>2
<1>8. HistoryIsTrue
  <2> SUFFICES ASSUME OneRelease(history) PROVE HistoryIsTrue
    BY DEF HistoryIsTrue, Init
  <2>1. history = {InitialMigrations[r][i] : i \in 1..n}
    BY <1>2
  <2>2. \A i \in 1..Len(schema) : schema[i] = InitialMigrations[r][i].text
    BY <1>2, <1>5
  <2> QED BY <1>5, <1>7, <2>1, <2>2 DEF HistoryIsTrue
<1> QED BY <1>6, <1>8 DEF Init, IInv, CorruptIsLeft, Knows, Under

LEMMA TypeStep == ASSUME TypeOK, Next PROVE TypeOK'
<1>1. history' \in Histories /\ found' \in Histories
  BY RowsStay, HistoryChange DEF TypeOK
<1>2. PICK p \in Processes : (\E r \in Releases : Start(p, r)) \/ Open(p) \/ StartInterrupted(p)
                             \/ Exit(p) \/ Stop(p)
  BY DEF Next
<1>3. release[p] \in Releases /\ next[p] \in Nat \ {0}
  BY DEF TypeOK
<1>4. Size(release[p]) \in Nat \ {0}
  BY <1>3, ListTypes
<1>5. tracked' \in BOOLEAN
  BY <1>2 DEF Open, Start, CheckCompatibility, EnsureMigrationTable, ReadMigration,
              ApplyMigration, StartInterrupted, Exit, Stop, TypeOK, db
<1>6. schema' \in Seq(Texts)
  <2>1. CASE <<history, schema>>' = <<history, schema>>
    BY <2>1 DEF TypeOK
  <2>2. CASE <<history, schema>>' # <<history, schema>>
    <3>1. PICK q \in Processes : ApplyMigration(q)
      BY <2>2, HistoryChange
    <3>2. schema' = Append(schema, Current(q).text) /\ Current(q) \in Migration
      BY <2>2, <3>1, ApplyEffect
    <3>3. Current(q).text \in Texts /\ schema \in Seq(Texts)
      BY <3>2 DEF Migration, TypeOK
    <3> QED BY <3>2, <3>3
  <2> QED BY <2>1, <2>2
<1>7. release' \in [Processes -> Releases]
  BY <1>2 DEF Open, Start, CheckCompatibility, EnsureMigrationTable, ReadMigration,
              ApplyMigration, StartInterrupted, Exit, Stop, TypeOK
<1>8. PICK label \in Starting \cup {"stopped", "failed", "refused", "serving"} : GoTo(p, label)
  BY <1>2 DEF Open, Start, CheckCompatibility, EnsureMigrationTable, ReadMigration,
              ApplyMigration, Advance, StartInterrupted, Exit, Stop, Starting
<1>9. pc' \in [Processes -> Starting \cup {"stopped", "failed", "refused", "serving"}]
  BY <1>8 DEF GoTo, TypeOK
<1>10. checked' \in [Processes -> Histories]
  <2>1. {} \in Histories /\ checked[p] \in Histories /\ history \in Histories
    BY DEF Histories, TypeOK
  <2>2. checked'[p] \in Histories /\ checked' = [checked EXCEPT ![p] = checked'[p]]
    BY <1>8, <2>1 DEF GoTo, TypeOK
  <2> QED BY <2>2 DEF TypeOK
<1>11. next' \in [Processes -> Nat \ {0}]
  BY <1>2, <1>3 DEF Open, Start, CheckCompatibility, EnsureMigrationTable, ReadMigration,
              ApplyMigration, Advance, StartInterrupted, Exit, Stop, TypeOK
<1>12. ASSUME NEW q \in Processes, pc'[q] \in {"read", "apply"}
       PROVE  next'[q] \in 1..Size(release'[q])
  <2>1. release[q] \in Releases /\ Size(release[q]) \in Nat \ {0}
    BY ListTypes DEF TypeOK
  <2>2. CASE q # p
    <3>1. pc'[q] = pc[q]
      BY <1>8, <2>2 DEF GoTo, TypeOK
    <3>2. next'[q] = next[q] /\ release'[q] = release[q]
      BY <1>2, <2>2 DEF Open, Start, CheckCompatibility, EnsureMigrationTable,
                ReadMigration, ApplyMigration, Advance, StartInterrupted, Exit, Stop, TypeOK
    <3> QED BY <1>12, <3>1, <3>2 DEF TypeOK
  <2>3. CASE q = p
    <3>1. EnsureMigrationTable(p) \/ ReadMigration(p) \/ ApplyMigration(p)
      BY <1>2, <1>12, <2>3 DEF Open, Start, CheckCompatibility, StartInterrupted, Exit, Stop,
                               GoTo, TypeOK
    <3>2. release'[p] = release[p]
      BY <3>1 DEF EnsureMigrationTable, ReadMigration, ApplyMigration
    <3>3. CASE EnsureMigrationTable(p)
      BY <2>1, <2>3, <3>2, <3>3 DEF EnsureMigrationTable, TypeOK
    <3>4. CASE pc[p] \in {"read", "apply"} /\ Advance(p)
      BY <1>12, <2>1, <2>3, <3>2, <3>4 DEF Advance, GoTo, TypeOK
    <3>5. CASE pc[p] \in {"read", "apply"} /\ UNCHANGED next
      BY <2>3, <3>2, <3>5 DEF TypeOK
    <3> QED BY <3>1, <3>3, <3>4, <3>5 DEF ReadMigration, ApplyMigration
  <2> QED BY <2>2, <2>3
<1>13. faults' \in 0..MaxFaults
  BY <1>2, MigrationsAssumption
     DEF Open, Start, CheckCompatibility, EnsureMigrationTable, ReadMigration,
         ApplyMigration, StartInterrupted, Exit, Stop, TypeOK
<1> QED BY <1>1, <1>5, <1>6, <1>7, <1>9, <1>10, <1>11, <1>12, <1>13 DEF TypeOK

(* Rows and schema move together, and neither moves on a corrupt database. *)
LEMMA HistoryStep == ASSUME IInv, Next PROVE HistoryIsTrue' /\ CorruptIsLeft'
<1>1. CASE <<history, schema>>' = <<history, schema>>
  BY <1>1, HistoryChange DEF IInv, HistoryIsTrue, CorruptIsLeft, OneRelease, Begins
<1>2. CASE <<history, schema>>' # <<history, schema>>
  <2>1. PICK p \in Processes : ApplyMigration(p)
    BY <1>2, HistoryChange
  <2> DEFINE m == Current(p)
  <2>2. /\ pc[p] = "apply" /\ m \in Migration
        /\ history' = history \cup {m} /\ m \notin history
        /\ schema' = Append(schema, m.text)
        /\ \A i \in 1..Len(schema) : schema[i] # m.text
        /\ found' = found
    BY <1>2, <2>1, ApplyEffect DEF IInv
  <2>3. OneRelease(found) /\ OneRelease(found)'
    BY <2>2 DEF IInv, Knows, Under, OneRelease, Begins
  <2>4. /\ \A r \in history : \E i \in 1..Len(schema) : schema[i] = r.text
        /\ \A i \in 1..Len(schema) : \E r \in history : schema[i] = r.text
        /\ \A i, j \in 1..Len(schema) : schema[i] = schema[j] => i = j
        /\ \A r, n \in history : r.text = n.text => r = n
    BY <2>3 DEF IInv, HistoryIsTrue
  <2>5. schema \in Seq(Texts) /\ m.text \in Texts
    BY <2>2 DEF IInv, TypeOK, Migration
  <2> HIDE DEF m
  <2>6. /\ Len(schema') = Len(schema) + 1 /\ schema'[Len(schema) + 1] = m.text
        /\ \A i \in 1..Len(schema) : schema'[i] = schema[i]
        /\ Len(schema) \in Nat
    BY <2>2, <2>5
  <2>7. \A i \in 1..Len(schema') : i \in 1..Len(schema) \/ i = Len(schema) + 1
    BY <2>6
  <2>8. 1..Len(schema) \subseteq 1..Len(schema') /\ Len(schema) + 1 \in 1..Len(schema')
    BY <2>6
  <2>9. \A r \in history' : \E i \in 1..Len(schema') : schema'[i] = r.text
    BY <2>2, <2>4, <2>6, <2>8
  <2>10. \A i \in 1..Len(schema') : \E r \in history' : schema'[i] = r.text
    BY <2>2, <2>4, <2>6, <2>7
  <2>11. \A i, j \in 1..Len(schema') : schema'[i] = schema'[j] => i = j
    BY <2>2, <2>4, <2>6, <2>7
  <2>12. \A r, n \in history' : r.text = n.text => r = n
    BY <2>2, <2>4
  <2> QED BY <2>3, <2>9, <2>10, <2>11, <2>12 DEF HistoryIsTrue, CorruptIsLeft
<1> QED BY <1>1, <1>2

(* A process that does not move knows what it knew: rows only come. *)
LEMMA OthersKnow ==
    ASSUME IInv, Next, NEW q \in Processes,
           pc'[q] = pc[q], checked'[q] = checked[q], next'[q] = next[q],
           release'[q] = release[q]
    PROVE  Knows(q)'
<1>1. history \subseteq history' /\ found' = found
  BY RowsStay, HistoryChange DEF IInv
<1> QED BY <1>1 DEF IInv, Knows, Begins, OneRelease, MigrationsCurrent

(* The loop of RunMigrations passes a migration only when its row is there. *)
LEMMA AdvanceKnows ==
    ASSUME IInv, Next, NEW p \in Processes, pc[p] \in {"read", "apply"}, Advance(p),
           release' = release, Current(p) \in history'
    PROVE  Knows(p)'
<1> DEFINE list == InitialMigrations[release[p]]
<1>1. /\ release[p] \in Releases /\ next[p] \in 1..Size(release[p])
      /\ Size(release[p]) \in Nat \ {0} /\ next[p] \in Nat \ {0}
  BY ListTypes DEF IInv, TypeOK
<1>2. history \subseteq history' /\ found' = found
  BY RowsStay, HistoryChange DEF IInv
<1>3. \A i \in 1..next[p] : list[i] \in history'
  <2>1. \A i \in 1..(next[p] - 1) : list[i] \in history
    BY DEF IInv, Knows
  <2> QED BY <1>1, <1>2, <2>1 DEF Current
<1>4. OneRelease(found)'
  BY <1>2 DEF IInv, Knows, Under, OneRelease, Begins
<1>5. CASE next[p] = Size(release[p])
  <2>1. pc'[p] = "serving"
    BY <1>5 DEF Advance, GoTo, IInv, TypeOK
  <2> QED BY <1>3, <1>4, <1>5, <2>1 DEF Knows, Under, MigrationsCurrent, Known
<1>6. CASE next[p] # Size(release[p])
  <2>1. pc'[p] = "read" /\ next'[p] = next[p] + 1 /\ checked'[p] = checked[p]
    BY <1>6 DEF Advance, GoTo, IInv, TypeOK
  <2>2. Begins(checked[p], release[p]) /\ checked[p] \subseteq history
    BY DEF IInv, Knows, Under
  <2> QED BY <1>1, <1>2, <1>3, <1>4, <2>1, <2>2 DEF Knows, Under, Begins
<1> QED BY <1>5, <1>6

LEMMA KnowsStep == ASSUME IInv, Next, NEW q \in Processes PROVE Knows(q)'
<1>1. PICK p \in Processes : (\E r \in Releases : Start(p, r)) \/ Open(p) \/ StartInterrupted(p)
                             \/ Exit(p) \/ Stop(p)
  BY DEF Next
<1>2. history \subseteq history' /\ found' = found
  BY RowsStay, HistoryChange DEF IInv
<1>3. CASE q # p
  <2>1. pc'[q] = pc[q] /\ checked'[q] = checked[q]
    BY <1>1, <1>3 DEF Open, Start, CheckCompatibility, EnsureMigrationTable, ReadMigration,
           ApplyMigration, Advance, StartInterrupted, Exit, Stop, GoTo, IInv, TypeOK
  <2>2. next'[q] = next[q] /\ release'[q] = release[q]
    BY <1>1, <1>3 DEF Open, Start, CheckCompatibility, EnsureMigrationTable, ReadMigration,
           ApplyMigration, Advance, StartInterrupted, Exit, Stop, IInv, TypeOK
  <2> QED BY <2>1, <2>2, OthersKnow
<1>4. CASE q = p /\ pc'[p] \notin Under \cup {"serving"}
  BY <1>4 DEF Knows, Under
<1>5. CASE q = p /\ pc'[p] \in Under \cup {"serving"}
  <2>1. \/ CheckCompatibility(p) \/ EnsureMigrationTable(p)
        \/ ReadMigration(p) \/ ApplyMigration(p)
    BY <1>1, <1>5 DEF Open, Start, StartInterrupted, Exit, Stop, GoTo, IInv, TypeOK, Under
  <2>2. release' = release /\ release[p] \in Releases
    BY <2>1 DEF CheckCompatibility, EnsureMigrationTable, ReadMigration, ApplyMigration,
                IInv, TypeOK
  <2>3. CASE CheckCompatibility(p)
    <3>1. /\ ~Incompatible(history, release[p]) /\ pc'[p] = "ensure" /\ history' = history
          /\ checked'[p] = history
      BY <1>5, <2>3 DEF CheckCompatibility, GoTo, IInv, TypeOK, Under, db
    <3>2. Begins(history, release[p])
      BY <2>2, <3>1, CompatibilityIsExact
    <3>3. OneRelease(found)
      BY <2>2, <3>2 DEF IInv, CorruptIsLeft, OneRelease
    <3> QED BY <1>2, <1>5, <2>2, <3>1, <3>2, <3>3 DEF Knows, Under, Begins, OneRelease
  <2>4. CASE EnsureMigrationTable(p)
    <3>1. /\ pc[p] = "ensure" /\ pc'[p] = "read" /\ next'[p] = 1
          /\ checked'[p] = checked[p]
      BY <2>4 DEF EnsureMigrationTable, GoTo, IInv, TypeOK
    <3> QED BY <1>2, <1>5, <2>2, <3>1 DEF IInv, Knows, Under, Begins, OneRelease
  <2>5. CASE ReadMigration(p) \/ ApplyMigration(p)
    <3>1. CASE pc'[p] = "apply"
      <4>1. /\ next' = next /\ pc[p] = "read" /\ checked'[p] = checked[p]
        BY <2>5, <3>1 DEF ReadMigration, ApplyMigration, Advance, GoTo, IInv, TypeOK
      <4> QED BY <1>2, <1>5, <2>2, <3>1, <4>1 DEF IInv, Knows, Under, Begins, OneRelease
    <3>2. CASE pc'[p] # "apply"
      <4>1. pc[p] \in {"read", "apply"} /\ Advance(p) /\ Current(p) \in history'
        BY <1>5, <2>5, <3>2 DEF ReadMigration, ApplyMigration, GoTo, IInv, TypeOK, Under, db
      <4> QED BY <1>5, <2>2, <4>1, AdvanceKnows
    <3> QED BY <3>1, <3>2
  <2> QED BY <2>1, <2>3, <2>4, <2>5
<1> QED BY <1>3, <1>4, <1>5

LEMMA Invariance == Spec => []IInv
<1>1. Init => IInv
  BY InitIInv
<1>2. IInv /\ [Next]_vars => IInv'
  <2>1. CASE Next
    BY <2>1, TypeStep, HistoryStep, KnowsStep DEF IInv
  <2>2. CASE UNCHANGED vars
    BY <2>2 DEF vars, db, IInv, TypeOK, HistoryIsTrue, CorruptIsLeft, Knows, OneRelease, Begins,
                MigrationsCurrent
  <2> QED BY <2>1, <2>2
<1> QED BY <1>1, <1>2, PTL DEF Spec

-----------------------------------------------------------------------------
(* What a commit makes of rows that were the beginning of a release's list, when
   its own release is on one line with it, or when no row came to it. *)
LEMMA CommitOnOneLine ==
    ASSUME IInv, NEW p \in Processes, ApplyMigration(p), history' # history,
           NEW q \in Releases, Begins(history, q), OneLine(q, release[p])
    PROVE  OneRelease(history')
<1> DEFINE r == release[p]
           n == next[p]
<1>1. /\ pc[p] = "apply" /\ r \in Releases /\ n \in 1..Size(r)
      /\ history' = history \cup {InitialMigrations[r][n]}
      /\ InitialMigrations[r][n] \notin history
  BY ApplyEffect DEF IInv, Current
<1>2. Size(r) \in Nat \ {0} /\ Size(q) \in Nat \ {0}
  BY <1>1, ListTypes
<1>3. \A i \in 1..(n - 1) : InitialMigrations[r][i] \in history
  BY <1>1 DEF IInv, Knows
<1>4. PICK l \in Releases :
          /\ Begins(history, l) /\ Size(r) <= Size(l)
          /\ \A i \in 1..Size(r) : InitialMigrations[r][i] = InitialMigrations[l][i]
  <2>1. CASE Size(q) <= Size(r)
    BY <1>1, <1>2, <2>1, LongerBegins
  <2>2. CASE Size(r) <= Size(q)
    BY <1>1, <1>2, <2>2 DEF OneLine
  <2> QED BY <1>2, <2>1, <2>2
<1>5. Size(l) \in Nat /\ n \in 1..Size(l) /\ InitialMigrations[r][n] = InitialMigrations[l][n]
  BY <1>1, <1>2, <1>4, ListTypes
<1>6. history' \subseteq Known(l)
  BY <1>1, <1>4, <1>5 DEF Begins, Known
<1>7. ASSUME NEW i \in 1..Size(l), NEW j \in 1..Size(l), i < j, InitialMigrations[l][j] \in history'
      PROVE  InitialMigrations[l][i] \in history'
  <2>1. CASE InitialMigrations[l][j] \in history
    BY <1>1, <1>4, <1>7, <2>1 DEF Begins
  <2>2. CASE InitialMigrations[l][j] = InitialMigrations[l][n]
    <3>1. j = n
      BY <1>5, <2>2, ListTypes
    <3>2. i \in 1..(n - 1) /\ i \in 1..Size(r)
      BY <1>1, <1>2, <1>7, <3>1
    <3> QED BY <1>1, <1>3, <1>4, <3>2
  <2> QED BY <1>1, <1>5, <1>7, <2>1, <2>2
<1> QED BY <1>6, <1>7 DEF OneRelease, Begins

LEMMA CommitUndisturbed ==
    ASSUME IInv, NEW p \in Processes, ApplyMigration(p), history' # history, CameSince(p) = {}
    PROVE  OneRelease(history')
<1> DEFINE r == release[p]
           n == next[p]
<1>1. pc[p] = "apply" /\ r \in Releases /\ n \in 1..Size(r) /\ Size(r) \in Nat \ {0}
  BY ApplyEffect, ListTypes DEF IInv
<1>2. /\ Begins(checked[p], r)
      /\ \A i \in 1..(n - 1) : InitialMigrations[r][i] \in history
  BY <1>1 DEF IInv, Knows, Under
<1>3. \A m \in history : m \in checked[p] \/ \E i \in 1..(n - 1) : m = InitialMigrations[r][i]
  BY DEF CameSince
<1>4. history \subseteq Known(r)
  BY <1>1, <1>2, <1>3 DEF Begins, Known
<1>5. ASSUME NEW i \in 1..Size(r), NEW j \in 1..Size(r), i < j, InitialMigrations[r][j] \in history
      PROVE  InitialMigrations[r][i] \in history
  <2>1. CASE InitialMigrations[r][j] \in checked[p]
    <3>1. InitialMigrations[r][i] \in checked[p]
      BY <1>2, <1>5, <2>1 DEF Begins
    <3> QED BY <1>1, <3>1 DEF IInv, Knows, Under
  <2>2. CASE \E k \in 1..(n - 1) : InitialMigrations[r][j] = InitialMigrations[r][k]
    <3>1. PICK k \in 1..(n - 1) : InitialMigrations[r][j] = InitialMigrations[r][k]
      BY <2>2
    <3>2. k = j
      BY <1>1, <3>1, ListTypes
    <3> QED BY <1>1, <1>2, <1>5, <3>2
  <2> QED BY <1>3, <1>5, <2>1, <2>2
<1>6. Begins(history, r) /\ OneLine(r, r)
  BY <1>4, <1>5 DEF Begins, OneLine
<1> QED BY <1>1, <1>6, CommitOnOneLine

-----------------------------------------------------------------------------
(* Type correctness of db.Open, for any processes and releases. *)
THEOREM MigrationTypes == Spec => []TypeOK
<1>1. IInv => TypeOK
  BY DEF IInv
<1> QED BY <1>1, Invariance, PTL

(* On a database no hand has edited, the SQL that was committed is that of the
   rows of schema_migrations, once each, whatever releases migrate it at the
   same time (runMigration). *)
THEOREM TrueHistory == Spec => []HistoryIsTrue
<1>1. IInv => HistoryIsTrue
  BY DEF IInv
<1> QED BY <1>1, Invariance, PTL

(* A kojid that serves has every migration of its release, with its checksum,
   and a database found corrupt is left as it was found
   (CheckSchemaCompatibility, RunMigrations). *)
THEOREM CurrentSchema == Spec => []ServedSchemaIsCurrent
<1>1. IInv => ServedSchemaIsCurrent
  BY DEF IInv, Knows, CorruptIsLeft, ServedSchemaIsCurrent
<1> QED BY <1>1, Invariance, PTL

(* With any number of processes migrating at the same time, a history becomes a
   mixture only when two starts overlap whose releases are not on one line. *)
THEOREM MixingTakesOverlap == Spec => OnlyOverlapsMixHistories
<1> DEFINE Mixes(p) ==
      /\ pc[p] = "apply" /\ pc'[p] # "apply"
      /\ CameSince(p) # {}
      /\ \A q \in Releases : Begins(history, q) => ~OneLine(q, release[p])
           Effect ==
      history' # history =>
          /\ history \subseteq history'
          /\ OneRelease(history') \/ \E p \in Processes : Mixes(p)
<1>1. ASSUME IInv, Next, history' # history PROVE Effect
  <2>1. PICK p \in Processes : ApplyMigration(p)
    BY <1>1, HistoryChange
  <2>2. pc[p] = "apply" /\ Advance(p)
    BY <1>1, <2>1, ApplyEffect DEF IInv
  <2>3. pc'[p] # "apply"
    BY <1>1, <2>2 DEF Advance, GoTo, IInv, TypeOK
  <2>4. OneRelease(history') \/ Mixes(p)
    BY <1>1, <2>1, <2>2, <2>3, CommitOnOneLine, CommitUndisturbed
  <2> QED BY <1>1, <2>4, RowsStay DEF IInv
<1>2. IInv /\ [Next]_vars => [Effect]_vars
  BY <1>1
<1> QED BY <1>2, Invariance, PTL DEF Spec, OnlyOverlapsMixHistories
=============================================================================
