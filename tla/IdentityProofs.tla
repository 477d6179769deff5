--------------------------- MODULE IdentityProofs ---------------------------
(***************************************************************************)
(* What Identity guarantees for every set of users, requests and           *)
(* capabilities, however many handlers run: the Super Admin is never       *)
(* disabled, and the last active manager is lost only to a handler that    *)
(* another one overtook between its check and its change.                  *)
(***************************************************************************)
EXTENDS Identity, FiniteSetTheorems, TLAPS

\* Before bootstrap nobody is active, so no administration handler runs.
QuietInv == ~claimed => Active = {} /\ Running = {}

\* Bootstrap's row is the only way to become a Super Admin.
SuperInv ==
    /\ claimed <=> super # {}
    /\ \A u, v \in super : u = v
    /\ super \subseteq Active

\* A disable past preventFinalSuperAdminDisable is not about a Super Admin.
CheckedInv ==
    \A r \in Requests :
        op[r] = "disable" /\ pc[r] \in {"holdsManage", "managerCount", "change"}
            => target[r] \notin super

AccessInv == QuietInv /\ SuperInv /\ CheckedInv

IInv == TypeOK /\ AccessInv

\* The handlers that take an active manager away.
Removes(r) == op[r] = "disable" \/ (op[r] = "revoke" /\ cap[r] = Manage)

\* A removal about to happen leaves a manager, unless its check is stale.
FreshInv ==
    \A r \in Requests :
        Removes(r) /\ pc[r] = "change" /\ r \notin overtaken /\ ActiveManagers # {}
            => \E m \in ActiveManagers : m # target[r]

-----------------------------------------------------------------------------
\* A set whose members are all equal has at most one.
LEMMA AtMostOne == ASSUME NEW S, \A u, v \in S : u = v PROVE Cardinality(S) <= 1
<1>1. CASE S = {}  BY <1>1, FS_EmptySet
<1>2. CASE S # {}
  <2>1. PICK u \in S : TRUE  BY <1>2
  <2>2. S = {u}  BY <2>1
  <2>3. Cardinality({u}) = 1  BY FS_Singleton
  <2>4. QED  BY <2>2, <2>3
<1>3. QED  BY <1>1, <1>2

\* A finite set with two or more members has one that differs from t.
LEMMA OtherMember ==
    ASSUME NEW S, NEW t, IsFiniteSet(S), ~(Cardinality(S) <= 1)
    PROVE  \E m \in S : m # t
<1> SUFFICES ASSUME \A m \in S : m = t PROVE FALSE  OBVIOUS
<1>1. \A u, v \in S : u = v  OBVIOUS
<1>2. QED  BY <1>1, AtMostOne

\* Positions only an administration handler reaches.
Handling == {"capability", "auditDenied", "lookup", "superCount", "holdsManage",
             "managerCount", "change"}

\* A handler at one of them counts as running.
LEMMA HandlingRuns == ASSUME TypeOK, NEW r \in Requests, pc[r] \in Handling PROVE r \in Running
BY DEF TypeOK, Handling, Running, Operations

\* The invariant holds in an empty database.
LEMMA InitIdentity == Init => IInv
<1> SUFFICES ASSUME Init PROVE IInv  OBVIOUS
<1>1. \A r \in Requests : pc[r] = "new" /\ op[r] = "none"  BY DEF Init
<1>2. TypeOK
  <2>1. /\ state \in [Users -> {"absent", "active", "disabled"}] /\ super \in SUBSET Users
        /\ claimed \in BOOLEAN
    BY DEF Init, NewDatabase, UsedDatabase
  <2>2. caps \in [Users -> SUBSET Capabilities]  BY DEF Init, NewDatabase, UsedDatabase
  <2>3. audit \subseteq Event  BY DEF Init
  <2>4. pc \in [Requests -> Steps] /\ answer \in [Requests -> Answers]
    BY DEF Init, Steps, Answers
  <2>5. op \in [Requests -> Operations \cup {"bootstrap", "none"}]  BY DEF Init
  <2>6. /\ actor \in [Requests -> Users \cup {NoUser}]
        /\ target \in [Requests -> Users \cup {NoUser}]
        /\ cap \in [Requests -> Capabilities]
    BY CapabilitiesAssumption DEF Init
  <2>7. faults \in 0 .. MaxFaults /\ overtaken \subseteq Requests
    BY BoundsAssumption DEF Init
  <2>8. QED  BY <1>1, <2>1, <2>2, <2>3, <2>4, <2>5, <2>6, <2>7 DEF TypeOK
<1>3. QuietInv
  <2>1. Running = {}  BY DEF Init, Running
  <2>2. ~claimed => Active = {}  BY DEF Init, NewDatabase, UsedDatabase, Active
  <2>3. QED  BY <2>1, <2>2 DEF QuietInv
<1>4. SuperInv  BY DEF Init, NewDatabase, UsedDatabase, SuperInv, Active
<1>5. CheckedInv  BY DEF Init, CheckedInv
<1>6. QED  BY <1>2, <1>3, <1>4, <1>5 DEF IInv, AccessInv

\* Every step keeps the types.
LEMMA TypeStep == TypeOK /\ [Next]_vars => TypeOK'
<1> SUFFICES ASSUME TypeOK, [Next]_vars PROVE TypeOK'  OBVIOUS
<1> USE CapabilitiesAssumption, BoundsAssumption
    DEF TypeOK, identityVars, Running, Goto, Respond, Record, Steps, Answers, Operations, Event
<1>1. ASSUME NEW r \in Requests, Bootstrap(r) PROVE TypeOK'
  <2>1. state' \in [Users -> {"absent", "active", "disabled"}] /\ super' \in SUBSET Users
    BY <1>1 DEF Bootstrap
  <2>2. caps' \in [Users -> SUBSET Capabilities]
    <3>1. caps' = caps \/ \E u \in Users : caps' = [caps EXCEPT ![u] = {Manage}]
      BY <1>1 DEF Bootstrap
    <3>2. {Manage} \in SUBSET Capabilities  OBVIOUS
    <3>3. QED  BY <3>1, <3>2
  <2>3. audit' \subseteq Event   BY <1>1 DEF Bootstrap
  <2>8. claimed' \in BOOLEAN  BY <1>1 DEF Bootstrap
  <2>4. pc' \in [Requests -> Steps] /\ op' \in [Requests -> Operations \cup {"bootstrap", "none"}]
    BY <1>1 DEF Bootstrap
  <2>5. answer' \in [Requests -> Answers]  BY <1>1 DEF Bootstrap
  <2>6. \A s \in Requests :
           /\ pc'[s] = "new" <=> op'[s] = "none"
           /\ op'[s] = "bootstrap" => pc'[s] \in {"audit", "auditRefused", "done"}
    BY <1>1 DEF Bootstrap
  <2>7. QED  BY <1>1, <2>1, <2>2, <2>3, <2>4, <2>5, <2>6, <2>8 DEF Bootstrap
<1>2. ASSUME NEW r \in Requests, Arrive(r) PROVE TypeOK'  BY <1>2 DEF Arrive, Active
<1>3. ASSUME NEW r \in Requests, CheckCapability(r) PROVE TypeOK'
  BY <1>3 DEF CheckCapability, FirstStep
<1>4. ASSUME NEW r \in Requests, AuditDenied(r) PROVE TypeOK'  BY <1>4 DEF AuditDenied
<1>5. ASSUME NEW r \in Requests, LookupTarget(r) PROVE TypeOK'  BY <1>5 DEF LookupTarget
<1>6. ASSUME NEW r \in Requests, CountSuperAdmins(r) PROVE TypeOK'
  BY <1>6 DEF CountSuperAdmins
<1>7. ASSUME NEW r \in Requests, CheckHoldsManage(r) PROVE TypeOK'
  BY <1>7 DEF CheckHoldsManage
<1>8. ASSUME NEW r \in Requests, CountManagers(r) PROVE TypeOK'  BY <1>8 DEF CountManagers
<1>9. ASSUME NEW r \in Requests, Change(r) PROVE TypeOK'  BY <1>9 DEF Change
<1>10. ASSUME NEW r \in Requests, ChangeNothing(r) PROVE TypeOK'  BY <1>10 DEF ChangeNothing
<1>11. ASSUME NEW r \in Requests, AuditChange(r) PROVE TypeOK'
  BY <1>11 DEF AuditChange
<1>12. ASSUME NEW r \in Requests, AuditRefused(r) PROVE TypeOK'  BY <1>12 DEF AuditRefused
<1>13. ASSUME NEW r \in Requests, StatementFails(r) PROVE TypeOK'
  BY <1>13 DEF StatementFails
<1>14. CASE Restart  BY <1>14 DEF Restart
<1>15. CASE UNCHANGED vars  BY <1>15 DEF vars, requestVars
<1>16. QED
  BY <1>1, <1>2, <1>3, <1>4, <1>5, <1>6, <1>7, <1>8, <1>9, <1>10, <1>11, <1>12, <1>13,
     <1>14, <1>15 DEF Next

\* The Super Admin set, the quiet time before bootstrap and the lockout check
\* survive every step.
LEMMA IdentityStep == IInv /\ [Next]_vars => IInv'
<1> SUFFICES ASSUME IInv, [Next]_vars PROVE IInv'  OBVIOUS
<1>0. TypeOK /\ TypeOK'  BY TypeStep DEF IInv
<1> USE <1>0 DEF AccessInv, QuietInv, SuperInv, CheckedInv, Active, Running, Goto, Respond, identityVars
<1>1. ASSUME NEW r \in Requests, Bootstrap(r) PROVE AccessInv'
  <2>1. CASE UNCHANGED identityVars
    BY <1>1, <2>1 DEF IInv, Bootstrap, TypeOK
  <2>2. CASE Active = {} /\ ~claimed
    <3>1. PICK u \in Users : state' = [state EXCEPT ![u] = "active"] /\ super' = super \cup {u}
      BY <1>1, <2>2 DEF Bootstrap
    <3>2. claimed' = TRUE /\ super = {} /\ super' = {u}
      BY <1>1, <2>2, <3>1 DEF IInv, Bootstrap
    <3>3. state'[u] = "active"  BY <3>1 DEF TypeOK
    <3>4. SuperInv'  BY <3>2, <3>3
    <3>5. \A s \in Requests : pc[s] \notin Handling  BY <2>2, HandlingRuns DEF IInv
    <3>6. \A s \in Requests : pc'[s] \notin Handling
      BY <1>1, <3>5 DEF Bootstrap, TypeOK, Handling
    <3>7. CheckedInv'  BY <3>6 DEF Handling
    <3>8. QED  BY <3>2, <3>4, <3>7
  <2>3. QED  BY <1>1, <2>1, <2>2 DEF Bootstrap
<1>2. ASSUME NEW r \in Requests, Arrive(r) PROVE AccessInv'
  <2>1. claimed  BY <1>2 DEF IInv, Arrive
  <2>2. QED  BY <1>2, <2>1 DEF IInv, Arrive, TypeOK
<1>3. ASSUME NEW r \in Requests, pc[r] \notin {"new", "done"}, UNCHANGED <<identityVars, op, target>>,
             NEW step, Goto(r, step),
             op[r] = "disable" /\ step \in {"holdsManage", "managerCount", "change"}
                => target[r] \notin super
      PROVE AccessInv'
  BY <1>3 DEF IInv, TypeOK
<1>4. ASSUME NEW r \in Requests, UNCHANGED <<identityVars, op, target>>,
             NEW code, Respond(r, code)
      PROVE AccessInv'
  BY <1>4 DEF IInv, TypeOK
<1>5. ASSUME NEW r \in Requests, CheckCapability(r) PROVE AccessInv'
  <2>1. op[r] = "disable" => FirstStep(op[r], cap[r]) = "lookup"  BY DEF FirstStep
  <2>2. QED  BY <1>5, <1>3, <2>1 DEF CheckCapability
<1>6. ASSUME NEW r \in Requests, AuditDenied(r) PROVE AccessInv'  BY <1>6, <1>4 DEF AuditDenied
<1>7. ASSUME NEW r \in Requests, LookupTarget(r) PROVE AccessInv'
  BY <1>7, <1>3, <1>4 DEF LookupTarget
<1>8. ASSUME NEW r \in Requests, CountSuperAdmins(r) PROVE AccessInv'
  <2>1. Cardinality(super \cap Active) <= 1  BY AtMostOne DEF IInv
  <2>2. QED  BY <1>8, <1>3, <2>1 DEF CountSuperAdmins
<1>9. ASSUME NEW r \in Requests, CheckHoldsManage(r) PROVE AccessInv'
  BY <1>9, <1>3 DEF CheckHoldsManage, IInv
<1>10. ASSUME NEW r \in Requests, CountManagers(r) PROVE AccessInv'
  BY <1>10, <1>3 DEF CountManagers, IInv
<1>11. ASSUME NEW r \in Requests, Change(r) PROVE AccessInv'
  <2>1. r \in Running  BY <1>11, HandlingRuns DEF Change, Handling
  <2>5. claimed /\ UNCHANGED <<super, claimed, op, target>>  BY <1>11, <2>1 DEF IInv, Change
  <2>2. super \subseteq Active'  BY <1>11 DEF IInv, Change, TypeOK
  <2>3. CheckedInv'  BY <1>11, <2>5 DEF IInv, Change, TypeOK
  <2>4. QED  BY <2>5, <2>2, <2>3 DEF IInv
<1>12. ASSUME NEW r \in Requests, ChangeNothing(r) PROVE AccessInv'
  BY <1>12, <1>4 DEF ChangeNothing
<1>13. ASSUME NEW r \in Requests, AuditChange(r) PROVE AccessInv'  BY <1>13, <1>4 DEF AuditChange
<1>14. ASSUME NEW r \in Requests, AuditRefused(r) PROVE AccessInv'  BY <1>14, <1>4 DEF AuditRefused
<1>15. ASSUME NEW r \in Requests, StatementFails(r) PROVE AccessInv'
  BY <1>15, <1>4 DEF StatementFails
<1>16. ASSUME Restart PROVE AccessInv'  BY <1>16 DEF IInv, Restart, TypeOK
<1>17. ASSUME UNCHANGED vars PROVE AccessInv'  BY <1>17 DEF IInv, vars, requestVars
<1> HIDE DEF AccessInv
<1>18. AccessInv'
  BY <1>1, <1>2, <1>5, <1>6, <1>7, <1>8, <1>9, <1>10, <1>11, <1>12, <1>13, <1>14, <1>15,
     <1>16, <1>17 DEF Next
<1>19. QED  BY <1>0, <1>18 DEF IInv

\* The invariant holds of every behaviour.
LEMMA IdentityInductive == Spec => []IInv
<1>1. QED  BY InitIdentity, IdentityStep, PTL DEF Spec

\* Tables and handler locals always have their types.
THEOREM IdentityTypes == Spec => []TypeOK
<1>1. IInv => TypeOK  BY DEF IInv
<1>2. QED  BY <1>1, IdentityInductive, PTL

\* The only Super Admin is never disabled, with any number of handlers running:
\* preventFinalSuperAdminDisable needs no transaction (lockout.go:21).
THEOREM SuperAdminKept == Spec => []SuperAdminSafe
<1>1. IInv => SuperAdminSafe  BY AtMostOne DEF IInv, AccessInv, SuperInv, SuperAdminSafe
<1>2. QED  BY <1>1, IdentityInductive, PTL

-----------------------------------------------------------------------------
\* What a removal counted holds when it acts, unless the handler was overtaken.
LEMMA FreshStep ==
    ASSUME IInv, FreshInv, [Next]_vars
    PROVE  FreshInv'
<1> USE DEF Active, Managers, ActiveManagers, Goto, Respond, identityVars
<1> DEFINE Fresh(r) == Removes(r) /\ pc[r] = "change" /\ r \notin overtaken
                          /\ ActiveManagers # {}
                         => \E m \in ActiveManagers : m # target[r]
<1>a. TypeOK /\ QuietInv  BY DEF IInv, AccessInv
<1>b. \A r \in Requests : Fresh(r)  BY DEF FreshInv
<1>c. SUFFICES \A r \in Requests : Fresh(r)'  BY DEF FreshInv
<1>1. ASSUME NEW r \in Requests, Bootstrap(r) PROVE \A s \in Requests : Fresh(s)'
  <2>1. CASE UNCHANGED identityVars
    BY <1>1, <2>1, <1>a, <1>b DEF Bootstrap, Removes, TypeOK
  <2>2. CASE Active = {} /\ ~claimed
    <3>1. \A s \in Requests : pc[s] \notin Handling  BY <2>2, <1>a, HandlingRuns DEF QuietInv
    <3>2. \A s \in Requests : pc'[s] # "change"
      BY <1>1, <3>1, <1>a DEF Bootstrap, TypeOK, Handling
    <3>3. QED  BY <3>2
  <2>3. QED  BY <1>1, <2>1, <2>2 DEF Bootstrap
<1>2. ASSUME NEW r \in Requests, Arrive(r) PROVE \A s \in Requests : Fresh(s)'
  BY <1>2, <1>a, <1>b DEF Arrive, Removes, TypeOK
<1>3. ASSUME NEW r \in Requests, UNCHANGED <<identityVars, op, target, cap, overtaken>>,
             NEW step, Goto(r, step),
             Removes(r) /\ step = "change" /\ ActiveManagers # {}
                => \E m \in ActiveManagers : m # target[r]
      PROVE \A s \in Requests : Fresh(s)'
  BY <1>3, <1>a, <1>b DEF Removes, TypeOK
<1>4. ASSUME NEW r \in Requests, UNCHANGED <<identityVars, op, target, cap, overtaken>>,
             NEW code, Respond(r, code)
      PROVE \A s \in Requests : Fresh(s)'
  BY <1>4, <1>a, <1>b DEF Removes, TypeOK
<1>5. ASSUME NEW r \in Requests, CheckCapability(r) PROVE \A s \in Requests : Fresh(s)'
  <2>1. Removes(r) => FirstStep(op[r], cap[r]) # "change"  BY DEF FirstStep, Removes
  <2>2. QED  BY <1>5, <1>3, <2>1 DEF CheckCapability
<1>6. ASSUME NEW r \in Requests, AuditDenied(r) PROVE \A s \in Requests : Fresh(s)'
  BY <1>6, <1>4 DEF AuditDenied
<1>7. ASSUME NEW r \in Requests, LookupTarget(r) PROVE \A s \in Requests : Fresh(s)'
  BY <1>7, <1>3, <1>4 DEF LookupTarget, Removes
<1>8. ASSUME NEW r \in Requests, CountSuperAdmins(r) PROVE \A s \in Requests : Fresh(s)'
  BY <1>8, <1>3 DEF CountSuperAdmins
<1>9. ASSUME NEW r \in Requests, CheckHoldsManage(r) PROVE \A s \in Requests : Fresh(s)'
  <2>1. target[r] \notin Managers /\ ActiveManagers # {}
           => \E m \in ActiveManagers : m # target[r]
    OBVIOUS
  <2>2. QED  BY <1>9, <1>3, <2>1 DEF CheckHoldsManage
<1>10. ASSUME NEW r \in Requests, CountManagers(r) PROVE \A s \in Requests : Fresh(s)'
  <2>1. IsFiniteSet(ActiveManagers)  BY UsersAssumption, FS_Subset
  <2>2. ~(Cardinality(ActiveManagers) <= 1) => \E m \in ActiveManagers : m # target[r]
    <3> HIDE DEF ActiveManagers
    <3>1. SUFFICES ASSUME ~(Cardinality(ActiveManagers) <= 1)
                   PROVE \E m \in ActiveManagers : m # target[r]
      OBVIOUS
    <3>2. QED  BY <2>1, <3>1, OtherMember
  <2>3. QED  BY <1>10, <1>3, <2>2 DEF CountManagers
<1>11. ASSUME NEW r \in Requests, Change(r) PROVE \A s \in Requests : Fresh(s)'
  <2>1. /\ UNCHANGED <<op, target, cap>> /\ pc' = [pc EXCEPT ![r] = "audit"]
        /\ overtaken' = overtaken \cup (IF ActiveManagers' = ActiveManagers THEN {}
                                        ELSE {s \in Requests \ {r} : pc[s] = "change"})
    BY <1>11 DEF Change
  <2> SUFFICES ASSUME NEW s \in Requests, Removes(s)', pc'[s] = "change", s \notin overtaken',
                      ActiveManagers' # {}
               PROVE  \E m \in ActiveManagers' : m # target'[s]
    OBVIOUS
  <2>2. s # r /\ pc[s] = "change" /\ Removes(s)  BY <2>1, <1>a DEF TypeOK, Removes
  <2> HIDE DEF ActiveManagers
  <2>3. ActiveManagers' = ActiveManagers /\ s \notin overtaken  BY <2>1, <2>2
  <2>4. QED  BY <1>b, <2>1, <2>2, <2>3
<1>12. ASSUME NEW r \in Requests, ChangeNothing(r) PROVE \A s \in Requests : Fresh(s)'
  BY <1>12, <1>4 DEF ChangeNothing
<1>13. ASSUME NEW r \in Requests, AuditChange(r) PROVE \A s \in Requests : Fresh(s)'
  BY <1>13, <1>4 DEF AuditChange
<1>14. ASSUME NEW r \in Requests, AuditRefused(r) PROVE \A s \in Requests : Fresh(s)'
  BY <1>14, <1>4 DEF AuditRefused
<1>15. ASSUME NEW r \in Requests, StatementFails(r) PROVE \A s \in Requests : Fresh(s)'
  BY <1>15, <1>4 DEF StatementFails
<1>16. CASE Restart
  <2>1. \A s \in Requests : pc'[s] \in {"new", "done"}  BY <1>16, <1>a DEF Restart, TypeOK
  <2>2. QED  BY <2>1
<1>17. CASE UNCHANGED vars
  BY <1>17, <1>b DEF vars, requestVars, Removes
<1>18. QED
  BY <1>1, <1>2, <1>5, <1>6, <1>7, <1>8, <1>9, <1>10, <1>11, <1>12, <1>13, <1>14, <1>15,
     <1>16, <1>17 DEF Next

\* The step that takes the last manager away is one that was overtaken.
LEMMA LastManagerStep ==
    ASSUME IInv, FreshInv, [Next]_vars, ActiveManagers # {}, ActiveManagers' = {}
    PROVE  \E r \in overtaken : pc[r] = "change" /\ pc'[r] = "audit"
<1>a. TypeOK  BY DEF IInv
<1>1. ASSUME UNCHANGED identityVars PROVE FALSE
  BY <1>1 DEF identityVars, ActiveManagers, Active, Managers
<1>2. ASSUME NEW r \in Requests, Bootstrap(r) PROVE FALSE
  BY <1>1, <1>2 DEF Bootstrap, ActiveManagers
<1>3. ASSUME NEW r \in Requests, Change(r) PROVE r \in overtaken
  <2>1. CASE Removes(r)
    <3> SUFFICES ASSUME r \notin overtaken PROVE FALSE  OBVIOUS
    <3>1. PICK m \in ActiveManagers : m # target[r]  BY <1>3, <2>1 DEF FreshInv, Change
    <3>2. m \in ActiveManagers'
      BY <1>3, <3>1, <1>a DEF Change, TypeOK, ActiveManagers, Active, Managers
    <3>3. QED  BY <3>2
  <2>2. CASE ~Removes(r)
    <3>1. PICK m \in ActiveManagers : TRUE  OBVIOUS
    <3>2. m \in ActiveManagers'
      BY <1>3, <2>2, <3>1, <1>a DEF Change, Removes, TypeOK, ActiveManagers, Active, Managers
    <3>3. QED  BY <3>2
  <2>3. QED  BY <2>1, <2>2
<1>4. PICK r \in Requests : Change(r)
  BY <1>1, <1>2 DEF Next, Arrive, CheckCapability, AuditDenied, LookupTarget, CountSuperAdmins,
     CheckHoldsManage, CountManagers, ChangeNothing, AuditChange, AuditRefused,
     StatementFails, Restart, vars, identityVars
<1>5. pc[r] = "change" /\ pc'[r] = "audit"  BY <1>4, <1>a DEF Change, Goto, TypeOK
<1>6. QED  BY <1>3, <1>4, <1>5

\* However many handlers run, the last active manager is lost only to one whose
\* check another made stale before it acted: a check that holds when it is acted
\* on leaves a manager (lockout.go:35-66).
THEOREM LastManagerNeedsOverlap == Spec => LastManagerGoesOnlyByOverlap
<1>1. Init => FreshInv
  BY DEF Init, FreshInv
<1>2. IInv /\ FreshInv /\ [Next]_vars => FreshInv'  BY FreshStep
<1>3. IInv /\ FreshInv /\ [Next]_vars
         => (ActiveManagers # {} /\ ActiveManagers' = {} =>
               \E r \in overtaken : pc[r] = "change" /\ pc'[r] = "audit")
  BY LastManagerStep
<1>4. QED  BY <1>1, <1>2, <1>3, IdentityInductive, PTL DEF Spec, LastManagerGoesOnlyByOverlap
=============================================================================
