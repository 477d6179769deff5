------------------------------ MODULE Identity ------------------------------
(***************************************************************************)
(* Who may administer koji: users, the Super Admin, capabilities and the   *)
(* lockout checks (internal/identity, internal/caps, auth.Store.Bootstrap, *)
(* internal/http/handlers_admin.go).                                       *)
(*                                                                         *)
(* A lockout check is two or three SELECTs, and the UPDATE or DELETE it    *)
(* guards is another statement, none of them in a transaction.  A handler  *)
(* therefore acts on counts that other handlers may have made stale.       *)
(***************************************************************************)
EXTENDS Integers, FiniteSets

CONSTANTS
    Users,          \* ids a users row can get
    Requests,       \* administration and bootstrap requests that may arrive
    NoUser,         \* not a user
    Capabilities,   \* capability names (caps.All)
    Manage,         \* identity.users.manage
    MaxConcurrent,  \* bound on the administration handlers running at a time
    MaxFaults       \* bound on failed statements, lost audit rows and restarts

ASSUME UsersAssumption == IsFiniteSet(Users) /\ NoUser \notin Users
ASSUME RequestsAssumption == IsFiniteSet(Requests)
ASSUME CapabilitiesAssumption == Manage \in Capabilities
ASSUME BoundsAssumption == MaxConcurrent \in Nat /\ MaxFaults \in Nat

VARIABLES
    state,      \* state[u]: the users row of u: absent, active or disabled
    super,      \* the users with is_super_admin = 1
    caps,       \* caps[u]: the user_capabilities rows of u
    claimed,    \* the bootstrap_state row exists
    audit,      \* the identity rows of audit_events
    pc, op, actor, target, cap, answer,     \* the handlers
    overtaken,  \* history: the handlers another one made the checks of stale
    faults

identityVars == <<state, super, caps, claimed>>
requestVars == <<pc, op, actor, target, cap, answer>>
vars == <<identityVars, audit, requestVars, overtaken, faults>>

Operations == {"create", "disable", "enable", "grant", "revoke"}

Steps == {"new", "capability", "auditDenied", "lookup", "superCount", "holdsManage",
          "managerCount", "change", "audit", "auditRefused", "done"}

Answers == {"none", "ok", "denied", "notFound", "conflict", "lockout", "failed"}

Event == [action : Operations \cup {"bootstrap", "bootstrapRefused", "denied", "lockout"},
          by : Requests]

\* kojid starts on a new database, or on one that has been administered: there is
\* the Super Admin of its bootstrap, and somebody can administer it.
NewDatabase ==
    /\ state = [u \in Users |-> "absent"]
    /\ super = {}
    /\ caps = [u \in Users |-> {}]
    /\ claimed = FALSE

UsedDatabase ==
    /\ state \in [Users -> {"absent", "active", "disabled"}]
    /\ \E u \in Users : super = {u} /\ state[u] = "active"
    /\ caps \in [Users -> SUBSET Capabilities]
    /\ \A u \in Users : state[u] = "absent" => caps[u] = {}
    /\ \E u \in Users : state[u] = "active" /\ Manage \in caps[u]
    /\ claimed = TRUE

Init ==
    /\ NewDatabase \/ UsedDatabase
    /\ audit = {}
    /\ pc = [r \in Requests |-> "new"]
    /\ op = [r \in Requests |-> "none"]
    /\ actor = [r \in Requests |-> NoUser]
    /\ target = [r \in Requests |-> NoUser]
    /\ cap = [r \in Requests |-> Manage]
    /\ answer = [r \in Requests |-> "none"]
    /\ overtaken = {}
    /\ faults = 0

-----------------------------------------------------------------------------
Active == {u \in Users : state[u] = "active"}
Managers == {u \in Users : Manage \in caps[u]}
ActiveManagers == Active \cap Managers

\* The administration handlers at work (bootstrap is not one: it is public).
Running == {r \in Requests : pc[r] \notin {"new", "done"} /\ op[r] \in Operations}

Goto(r, step) == pc' = [pc EXCEPT ![r] = step]

Respond(r, code) ==
    /\ pc' = [pc EXCEPT ![r] = "done"]
    /\ answer' = [answer EXCEPT ![r] = code]

Record(action, r) == audit' = audit \cup {[action |-> action, by |-> r]}

\* auth.Store.Bootstrap: one transaction, which counts the active users, takes
\* the only bootstrap_state row, and makes the first user the Super Admin.  (A
\* transaction that fails leaves nothing, as the refusal does.)
Bootstrap(r) ==
    /\ pc[r] = "new"
    /\ op' = [op EXCEPT ![r] = "bootstrap"]
    /\ \/ /\ Active = {} /\ ~claimed
          /\ \E u \in Users :
                /\ state[u] = "absent"
                /\ state' = [state EXCEPT ![u] = "active"]
                /\ super' = super \cup {u}
                /\ caps' = [caps EXCEPT ![u] = {Manage}]
          /\ claimed' = TRUE
          /\ Goto(r, "audit")
       \/ /\ Active # {} \/ claimed
          /\ Goto(r, "auditRefused")
          /\ UNCHANGED identityVars
    /\ UNCHANGED <<audit, actor, target, cap, answer, faults, overtaken>>

\* AuthGateMiddleware lets the request of an active user with a session pass.
\* From here on nothing looks at the actor's account again.
Arrive(r) ==
    /\ pc[r] = "new"
    /\ Cardinality(Running) < MaxConcurrent
    /\ \E o \in Operations, a \in Active, t \in Users, c \in Capabilities :
          /\ op' = [op EXCEPT ![r] = o]
          /\ actor' = [actor EXCEPT ![r] = a]
          /\ target' = [target EXCEPT ![r] = t]
          /\ cap' = [cap EXCEPT ![r] = IF o \in {"grant", "revoke"} THEN c ELSE Manage]
    /\ Goto(r, "capability")
    /\ UNCHANGED <<identityVars, audit, answer, faults, overtaken>>

\* requireIdentityAdmin, and the first step of the operation.
FirstStep(o, c) ==
    CASE o \in {"disable", "grant"} -> "lookup"
      [] o = "revoke" /\ c = Manage -> "holdsManage"
      [] OTHER -> "change"

CheckCapability(r) ==
    /\ pc[r] = "capability"
    /\ Goto(r, IF actor[r] \in Managers THEN FirstStep(op[r], cap[r]) ELSE "auditDenied")
    /\ UNCHANGED <<identityVars, audit, op, actor, target, cap, answer, faults, overtaken>>

AuditDenied(r) ==
    /\ pc[r] = "auditDenied"
    /\ Record("denied", r)
    /\ Respond(r, "denied")
    /\ UNCHANGED <<identityVars, op, actor, target, cap, faults, overtaken>>

\* GetUser, as preventDisableLockout and GrantCapability begin.
LookupTarget(r) ==
    /\ pc[r] = "lookup"
    /\ \/ /\ state[target[r]] = "absent"
          /\ Respond(r, "notFound")
       \/ /\ state[target[r]] # "absent"
          /\ Goto(r, IF op[r] = "grant" THEN "change"
                     ELSE IF target[r] \in super THEN "superCount" ELSE "holdsManage")
          /\ UNCHANGED answer
    /\ UNCHANGED <<identityVars, audit, op, actor, target, cap, faults, overtaken>>

\* Faulty variant: lets the last Super Admin go, an off-by-one in the comparison.
CountSuperAdminsOffByOne(r) ==
    /\ pc[r] = "superCount"
    /\ Goto(r, IF Cardinality(super \cap Active) < 1 THEN "auditRefused" ELSE "holdsManage")
    /\ UNCHANGED <<identityVars, audit, op, actor, target, cap, answer, faults, overtaken>>

\* preventFinalSuperAdminDisable.
CountSuperAdmins(r) ==
    /\ pc[r] = "superCount"
    /\ Goto(r, IF Cardinality(super \cap Active) <= 1 THEN "auditRefused" ELSE "holdsManage")
    /\ UNCHANGED <<identityVars, audit, op, actor, target, cap, answer, faults, overtaken>>

\* preventFinalIdentityManagerDisable and preventManageCapabilityLockout.
CheckHoldsManage(r) ==
    /\ pc[r] = "holdsManage"
    /\ Goto(r, IF target[r] \in Managers THEN "managerCount" ELSE "change")
    /\ UNCHANGED <<identityVars, audit, op, actor, target, cap, answer, faults, overtaken>>

\* Faulty variant: counts the managers without the filter on disabled_at.
CountManagersWithDisabled(r) ==
    /\ pc[r] = "managerCount"
    /\ Goto(r, IF Cardinality(Managers) <= 1 THEN "auditRefused" ELSE "change")
    /\ UNCHANGED <<identityVars, audit, op, actor, target, cap, answer, faults, overtaken>>

\* requireMultipleIdentityManagers.
CountManagers(r) ==
    /\ pc[r] = "managerCount"
    /\ Goto(r, IF Cardinality(ActiveManagers) <= 1 THEN "auditRefused" ELSE "change")
    /\ UNCHANGED <<identityVars, audit, op, actor, target, cap, answer, faults, overtaken>>

\* The statement of each operation that changes users or user_capabilities (the
\* one of disable that revokes sessions belongs to Sessions.tla).  Handlers that have
\* read what they check and not acted on it are overtaken when it changes who the
\* active managers are.
Change(r) ==
    /\ pc[r] = "change"
    /\ \/ /\ op[r] = "create" /\ state[target[r]] = "absent"
          /\ state' = [state EXCEPT ![target[r]] = "active"]
          /\ UNCHANGED caps
       \/ /\ op[r] = "disable" /\ state[target[r]] = "active"
          /\ state' = [state EXCEPT ![target[r]] = "disabled"]
          /\ UNCHANGED caps
       \/ /\ op[r] = "enable" /\ state[target[r]] # "absent"
          /\ state' = [state EXCEPT ![target[r]] = "active"]
          /\ UNCHANGED caps
       \/ /\ op[r] = "grant"
          /\ caps' = [caps EXCEPT ![target[r]] = @ \cup {cap[r]}]
          /\ UNCHANGED state
       \/ /\ op[r] = "revoke" /\ cap[r] \in caps[target[r]]
          /\ caps' = [caps EXCEPT ![target[r]] = @ \ {cap[r]}]
          /\ UNCHANGED state
    /\ Goto(r, "audit")
    /\ overtaken' = overtaken \cup (IF ActiveManagers' = ActiveManagers THEN {}
                                   ELSE {s \in Requests \ {r} : pc[s] = "change"})
    /\ UNCHANGED <<super, claimed, audit, op, actor, target, cap, answer, faults>>

\* The statement affects no row, or breaks the UNIQUE username.
ChangeNothing(r) ==
    /\ pc[r] = "change"
    /\ \/ op[r] = "create" /\ state[target[r]] # "absent" /\ Respond(r, "failed")
       \/ op[r] = "disable" /\ state[target[r]] # "active" /\ Respond(r, "notFound")
       \/ op[r] = "enable" /\ state[target[r]] = "absent" /\ Respond(r, "notFound")
       \/ op[r] = "revoke" /\ cap[r] \notin caps[target[r]] /\ Respond(r, "notFound")
    /\ UNCHANGED <<identityVars, audit, op, actor, target, cap, faults, overtaken>>

\* recordIdentityAudit, recordAuthAudit and writeAdminDecisionError drop the error
\* of Record: the client is answered as if the row were there.
AuditChange(r) ==
    /\ pc[r] = "audit"
    /\ \/ Record(op[r], r) /\ UNCHANGED faults
       \/ faults < MaxFaults /\ faults' = faults + 1 /\ UNCHANGED audit
    /\ Respond(r, "ok")
    /\ UNCHANGED <<identityVars, op, actor, target, cap, overtaken>>

AuditRefused(r) ==
    /\ pc[r] = "auditRefused"
    /\ \/ Record(IF op[r] = "bootstrap" THEN "bootstrapRefused" ELSE "lockout", r)
          /\ UNCHANGED faults
       \/ faults < MaxFaults /\ faults' = faults + 1 /\ UNCHANGED audit
    /\ Respond(r, IF op[r] = "bootstrap" THEN "conflict" ELSE "lockout")
    /\ UNCHANGED <<identityVars, op, actor, target, cap, overtaken>>

\* A statement fails, or the client goes away: what was written stays.
StatementFails(r) ==
    /\ r \in Running /\ pc[r] # "auditRefused"
    /\ faults < MaxFaults /\ faults' = faults + 1
    /\ Respond(r, "failed")
    /\ UNCHANGED <<identityVars, audit, op, actor, target, cap, overtaken>>

\* Faulty variant: requests that were under way are taken up again as new ones.
RestartReplaying ==
    /\ faults < MaxFaults /\ faults' = faults + 1
    /\ pc' = [r \in Requests |-> IF pc[r] = "done" THEN "done" ELSE "new"]
    /\ UNCHANGED <<identityVars, audit, op, actor, target, cap, answer, overtaken>>

\* kojid dies and starts again: no handler survives, every row does.
Restart ==
    /\ faults < MaxFaults /\ faults' = faults + 1
    /\ pc' = [r \in Requests |-> IF pc[r] = "new" THEN "new" ELSE "done"]
    /\ UNCHANGED <<identityVars, audit, op, actor, target, cap, answer, overtaken>>

Next ==
    \/ \E r \in Requests :
          \/ Bootstrap(r) \/ Arrive(r) \/ CheckCapability(r) \/ AuditDenied(r)
          \/ LookupTarget(r) \/ CountSuperAdmins(r) \/ CheckHoldsManage(r) \/ CountManagers(r)
          \/ Change(r) \/ ChangeNothing(r) \/ AuditChange(r) \/ AuditRefused(r)
          \/ StatementFails(r)
    \/ Restart

Spec == Init /\ [][Next]_vars

-----------------------------------------------------------------------------
\* Every variable keeps the type of its column or of the handler's locals.
TypeOK ==
    /\ state \in [Users -> {"absent", "active", "disabled"}]
    /\ super \in SUBSET Users
    /\ caps \in [Users -> SUBSET Capabilities]
    /\ claimed \in BOOLEAN
    /\ audit \subseteq Event
    /\ pc \in [Requests -> Steps]
    /\ op \in [Requests -> Operations \cup {"bootstrap", "none"}]
    /\ actor \in [Requests -> Users \cup {NoUser}]
    /\ target \in [Requests -> Users \cup {NoUser}]
    /\ cap \in [Requests -> Capabilities]
    /\ answer \in [Requests -> Answers]
    /\ overtaken \subseteq Requests
    /\ faults \in 0 .. MaxFaults
    /\ \A r \in Requests : /\ pc[r] = "new" <=> op[r] = "none"
                           /\ op[r] = "bootstrap" => pc[r] \in {"audit", "auditRefused", "done"}

\* From bootstrap on there is exactly one Super Admin and the account stays
\* active, however many administration handlers run at once: the count of
\* preventFinalSuperAdminDisable cannot be stale, because no statement but
\* Bootstrap's INSERT makes a Super Admin (store.go:115, lockout.go:21).
SuperAdminSafe ==
    /\ claimed <=> super # {}
    /\ Cardinality(super) <= 1
    /\ super \subseteq Active

\* The last active manager is lost only to a handler that another one overtook
\* between the last SELECT of its lockout check and the statement the check guards
\* (lockout.go:35-66), however many run: no check that is still true when it is
\* acted on lets the last one go.
LastManagerGoesOnlyByOverlap ==
    [][ActiveManagers # {} /\ ActiveManagers' = {} =>
         \E r \in overtaken : pc[r] = "change" /\ pc'[r] = "audit"]_vars

\* From bootstrap on some active user may administer identities, so nobody is
\* locked out of koji for good (lockout.go:35-66): two handlers that count before
\* either changes a row make it false.
ManagerRemains == claimed => ActiveManagers # {}
=============================================================================
