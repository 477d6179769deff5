------------------------------ MODULE Sessions ------------------------------
(***************************************************************************)
(* Sessions and magic tokens (internal/auth, AuthGateMiddleware, the login *)
(* and logout handlers, and the statements of internal/identity that touch *)
(* sessions and tokens).                                                   *)
(*                                                                         *)
(* A session is checked by one statement, refreshed by the next, and its   *)
(* CSRF token is read by a third; disabling a user is two statements.  Only*)
(* logging in with a magic token is one transaction.  What a request       *)
(* carries is chosen at the step that first reads it, and a request that   *)
(* its first statement refuses is the stuttering step Refused.             *)
(***************************************************************************)
EXTENDS Integers, FiniteSets

CONSTANTS
    Users,          \* ids of the users rows
    SuperAdmin,     \* the bootstrap user, the only one with a password
    Managers,       \* the users with identity.users.manage (fixed here)
    Sessions,       \* session ids that randomToken can return
    NoSession,      \* not one of them
    Tokens,         \* magic tokens that randomToken can return
    NoToken,        \* not one of them
    Clients,        \* bound on the requests being handled at a time
    TTL,            \* SessionPolicy.TTL, in half seconds
    IdleTimeout,    \* SessionPolicy.IdleTimeout
    TokenTTL,       \* magic_token_ttl
    MaxTime,        \* bound on the clock
    MaxFaults       \* bound on failed statements and restarts

ASSUME UsersAssumption == SuperAdmin \in Managers /\ Managers \subseteq Users
ASSUME IdsAssumption == NoSession \notin Sessions /\ NoToken \notin Tokens
ASSUME TimesAssumption ==
    /\ TTL \in Nat \ {0} /\ IdleTimeout \in Nat \ {0} /\ TokenTTL \in Nat \ {0}
    /\ MaxTime \in Nat /\ MaxFaults \in Nat

VARIABLES
    clock,      \* the wall clock, in half seconds
    disabled,   \* the users with disabled_at set
    session,    \* session[s]: a sessions row
    token,      \* token[t]: a magic_tokens row
    pc,         \* pc[c]: the next statement of client c's request
    sid, uid,   \* sid[c], uid[c]: the session it came with, the user it is about
    ended,      \* history: the sessions somebody was told are over
    stranded,   \* history: users whose disabling stopped before their sessions
    faults

rows == <<disabled, session, token>>
requests == <<pc, sid, uid>>
history == <<ended, stranded>>
vars == <<clock, rows, requests, history, faults>>

Steps == {"idle", "create", "touch", "csrf", "write", "revokeAll", "insertToken",
          "logoutSelect", "logoutTouch", "revoke"}

\* A row of sessions; "none" when it was never inserted.  by is history: the
\* token that opened it, or NoToken when a password did.
SessionRow == [state : {"none", "open", "revoked"}, user : Users,
               seen : 0 .. MaxTime, expires : 0 .. MaxTime + TTL, by : Tokens \cup {NoToken}]

\* A row of magic_tokens.  (No statement of koji sets its revoked_at.)
TokenRow == [state : {"none", "fresh", "consumed"}, user : Users,
             expires : 0 .. MaxTime + TokenTTL]

\* The database as Bootstrap and CreateManagedUser leave it, everybody signed out.
Init ==
    /\ clock = 0
    /\ disabled = {}
    /\ session = [s \in Sessions |-> [state |-> "none", user |-> SuperAdmin, seen |-> 0,
                                      expires |-> 0, by |-> NoToken]]
    /\ token = [t \in Tokens |-> [state |-> "none", user |-> SuperAdmin, expires |-> 0]]
    /\ pc = [c \in Clients |-> "idle"]
    /\ sid = [c \in Clients |-> NoSession]
    /\ uid = [c \in Clients |-> SuperAdmin]
    /\ ended = {} /\ stranded = {}
    /\ faults = 0

-----------------------------------------------------------------------------
Open(s) == session[s].state = "open"

OpenSessions(u) == {s \in Sessions : Open(s) /\ session[s].user = u}

Begin(c, step, s) ==
    /\ pc[c] = "idle"
    /\ pc' = [pc EXCEPT ![c] = step]
    /\ sid' = [sid EXCEPT ![c] = s]
    /\ UNCHANGED uid

Goto(c, step) == pc' = [pc EXCEPT ![c] = step] /\ UNCHANGED <<sid, uid>>

GotoWith(c, step, u) ==
    /\ pc' = [pc EXCEPT ![c] = step]
    /\ uid' = [uid EXCEPT ![c] = u]
    /\ UNCHANGED sid

\* The response is written and the handler is gone.
Answer(c) ==
    /\ pc' = [pc EXCEPT ![c] = "idle"]
    /\ sid' = [sid EXCEPT ![c] = NoSession]
    /\ uid' = [uid EXCEPT ![c] = SuperAdmin]

\* formatTime's text drops a zero fraction, so that "10.5Z" < "10Z" < "11.5Z".
Text(t) == IF t % 2 = 0 THEN t + 1 ELSE t - 1

\* The UPDATE that sets revoked_at, guarded by revoked_at IS NULL.
RevokedRow(s) == [session[s] EXCEPT !.state = "revoked"]

Revoke(S) ==
    session' = [s \in Sessions |-> IF s \in S /\ Open(s) THEN RevokedRow(s) ELSE session[s]]

FreeSessions == {s \in Sessions : session[s].state = "none"}
At(step) == {c \in Clients : pc[c] = step}

\* txCreateSession: a fresh id, and a row whose times start now.
CreateSession(u, by) ==
    \E s \in FreeSessions :
        session' = [session EXCEPT ![s] = [state |-> "open", user |-> u, seen |-> clock,
                                           expires |-> clock + TTL, by |-> by]]

\* Login's lookupPasswordUser and password check, passed: only the Super Admin does.
\* (The model has an id left for every session about to be created.)
Login(c) ==
    /\ SuperAdmin \notin disabled
    /\ Cardinality(At("create")) < Cardinality(FreeSessions)
    /\ Begin(c, "create", NoSession)
    /\ UNCHANGED <<clock, rows, history, faults>>

\* createSession, a transaction of its own.
LoginCreates(c) ==
    /\ pc[c] = "create"
    /\ CreateSession(SuperAdmin, NoToken)
    /\ Answer(c)
    /\ UNCHANGED <<clock, disabled, token, history, faults>>

\* Faulty variant: txLookupMagicToken without its filter on disabled_at.
UsableEvenDisabled(t) == token[t].state = "fresh" /\ token[t].expires > clock

\* txLookupMagicToken and the check of the expiry.
Usable(t) ==
    /\ token[t].state = "fresh"
    /\ token[t].user \notin disabled
    /\ token[t].expires > clock

\* Faulty variant: the session is created and the token is not consumed.
LoginMagicTokenUnconsumed ==
    \E t \in Tokens :
        /\ Usable(t)
        /\ Cardinality(At("create")) < Cardinality(FreeSessions)
        /\ CreateSession(token[t].user, t)
        /\ UNCHANGED <<clock, disabled, token, requests, history, faults>>

\* LoginMagicToken, one transaction: look up, create the session, consume.
LoginMagicToken ==
    \E t \in Tokens :
        /\ Usable(t)
        /\ Cardinality(At("create")) < Cardinality(FreeSessions)
        /\ CreateSession(token[t].user, t)
        /\ token' = [token EXCEPT ![t].state = "consumed"]
        /\ UNCHANGED <<clock, disabled, requests, history, faults>>

\* Faulty variant: the SELECT of ValidateSession without revoked_at IS NULL.
AcceptsEvenRevoked(s) ==
    /\ session[s].state # "none"
    /\ session[s].user \notin disabled
    /\ session[s].expires > clock
    /\ session[s].seen + IdleTimeout > clock

\* The SELECT of ValidateSession and validateSessionBounds.
Accepts(s) ==
    /\ Open(s)
    /\ session[s].user \notin disabled
    /\ session[s].expires > clock
    /\ session[s].seen + IdleTimeout > clock

\* AuthGateMiddleware, or handleSessionStatus, reads the session of the cookie.
SelectSession(c) ==
    /\ \E s \in Sessions : Accepts(s) /\ Begin(c, "touch", s)
    /\ UNCHANGED <<clock, rows, history, faults>>

\* handleLogout does the same after its CSRF check.
LogoutSelects(c) ==
    /\ pc[c] = "logoutSelect"
    /\ IF Accepts(sid[c]) THEN Goto(c, "logoutTouch") ELSE Answer(c)
    /\ UNCHANGED <<clock, rows, history, faults>>

\* Faulty variant: last_seen_at is given the instant the session will idle out.
TouchAhead(s) ==
    session' = [session EXCEPT ![s].seen = IF Open(s) THEN clock + IdleTimeout ELSE @]

\* touchSession: whatever became of the session, unless it was revoked.
Touch(s) == session' = [session EXCEPT ![s].seen = IF Open(s) THEN clock ELSE @]

\* A GET ends here; requiresCSRF sends the other methods on.
TouchSession(c) ==
    /\ \/ pc[c] = "touch" /\ (Answer(c) \/ Goto(c, "csrf"))
       \/ pc[c] = "logoutTouch" /\ Goto(c, "revoke")
    /\ Touch(sid[c])
    /\ UNCHANGED <<clock, disabled, token, history, faults>>

\* ValidateCSRF: expires_at > ? compares text, and nobody looks at disabled_at.
CSRFReadable(s) == Open(s) /\ Text(session[s].expires) > Text(clock)

\* The header may also be wrong.
ValidateCSRF(c) ==
    /\ pc[c] = "csrf"
    /\ \/ CSRFReadable(sid[c]) /\ Goto(c, "write")
       \/ Answer(c)
    /\ UNCHANGED <<clock, rows, history, faults>>

LogoutValidatesCSRF(c) ==
    /\ \E s \in Sessions : CSRFReadable(s) /\ Begin(c, "logoutSelect", s)
    /\ UNCHANGED <<clock, rows, history, faults>>

\* RevokeSession.  When it affects no row, the answer is 401: over all the same.
RevokeSession(c) ==
    /\ pc[c] = "revoke"
    /\ Revoke({sid[c]})
    /\ ended' = ended \cup {sid[c]}
    /\ Answer(c)
    /\ UNCHANGED <<clock, disabled, token, stranded, faults>>

-----------------------------------------------------------------------------
\* The handlers behind the gate; those of identity need identity.users.manage.
MayManage(c) == pc[c] = "write" /\ session[sid[c]].user \in Managers

\* Any other handler, or one of them that refuses.
WriteElsewhere(c) ==
    /\ pc[c] = "write"
    /\ Answer(c)
    /\ UNCHANGED <<clock, rows, history, faults>>

\* DisableUser's first statement.  The lockout checks of Identity refuse the Super
\* Admin; a user already disabled answers 404, whatever was left of it.
DisableUser(c) ==
    /\ MayManage(c)
    /\ \E u \in Users :
          IF u \in disabled \cup {SuperAdmin}
          THEN Answer(c) /\ UNCHANGED disabled
          ELSE GotoWith(c, "revokeAll", u) /\ disabled' = disabled \cup {u}
    /\ UNCHANGED <<clock, session, token, history, faults>>

\* Its second statement, which takes the sessions open by then.
RevokeAll(c) ==
    /\ pc[c] = "revokeAll"
    /\ Revoke(OpenSessions(uid[c]))
    /\ ended' = ended \cup OpenSessions(uid[c])
    /\ stranded' = stranded \ {uid[c]}
    /\ Answer(c)
    /\ UNCHANGED <<clock, disabled, token, faults>>

EnableUser(c) ==
    /\ MayManage(c)
    /\ \E u \in Users : disabled' = disabled \ {u}
    /\ Answer(c)
    /\ UNCHANGED <<clock, session, token, history, faults>>

\* IssueMagicToken: GetUser and, in a statement of its own, the INSERT.
LookupUser(c) ==
    /\ MayManage(c)
    /\ Cardinality(At("insertToken")) < Cardinality({t \in Tokens : token[t].state = "none"})
    /\ \E u \in Users \ disabled : GotoWith(c, "insertToken", u)
    /\ UNCHANGED <<clock, rows, history, faults>>

InsertToken(c) ==
    /\ pc[c] = "insertToken"
    /\ \E t \in Tokens :
          /\ token[t].state = "none"
          /\ token' = [token EXCEPT ![t] = [state |-> "fresh", user |-> uid[c],
                                            expires |-> clock + TokenTTL]]
    /\ Answer(c)
    /\ UNCHANGED <<clock, disabled, session, history, faults>>

-----------------------------------------------------------------------------
\* The user whose disabling is between its two statements.
Disabling(c) == IF pc[c] = "revokeAll" THEN {uid[c]} ELSE {}

\* A statement fails or the client goes away; the statements before it stay.
StatementFails(c) ==
    /\ pc[c] # "idle"
    /\ faults < MaxFaults /\ faults' = faults + 1
    /\ stranded' = stranded \cup Disabling(c)
    /\ Answer(c)
    /\ UNCHANGED <<clock, rows, ended>>

\* kojid dies and starts again: the handlers are gone, the rows are not.
Restart ==
    /\ faults < MaxFaults /\ faults' = faults + 1
    /\ stranded' = stranded \cup UNION {Disabling(c) : c \in Clients}
    /\ pc' = [c \in Clients |-> "idle"]
    /\ sid' = [c \in Clients |-> NoSession]
    /\ uid' = [c \in Clients |-> SuperAdmin]
    /\ UNCHANGED <<clock, rows, ended>>

\* A wrong password, an unusable token, a cookie whose session is not accepted.
Refused == UNCHANGED vars

Tick ==
    /\ clock < MaxTime /\ clock' = clock + 1
    /\ UNCHANGED <<rows, requests, history, faults>>

Next ==
    \/ \E c \in Clients :
          \/ Login(c) \/ LoginCreates(c)
          \/ SelectSession(c) \/ TouchSession(c) \/ ValidateCSRF(c) \/ WriteElsewhere(c)
          \/ LogoutValidatesCSRF(c) \/ LogoutSelects(c) \/ RevokeSession(c)
          \/ DisableUser(c) \/ RevokeAll(c) \/ EnableUser(c)
          \/ LookupUser(c) \/ InsertToken(c)
          \/ StatementFails(c)
    \/ LoginMagicToken \/ Refused \/ Restart \/ Tick

Spec == Init /\ [][Next]_vars

-----------------------------------------------------------------------------
\* Types; the Super Admin is not disabled, and nothing was seen in the future.
TypeOK ==
    /\ clock \in 0 .. MaxTime
    /\ disabled \subseteq Users \ {SuperAdmin}
    /\ session \in [Sessions -> SessionRow]
    /\ token \in [Tokens -> TokenRow]
    /\ pc \in [Clients -> Steps]
    /\ sid \in [Clients -> Sessions \cup {NoSession}]
    /\ uid \in [Clients -> Users]
    /\ ended \subseteq Sessions /\ stranded \subseteq Users
    /\ faults \in 0 .. MaxFaults
    /\ \A c \in Clients : pc[c] \notin {"idle", "create"} => sid[c] \in Sessions
    /\ \A s \in Sessions : session[s].seen <= clock

\* A session somebody was told is over, by a logout or by a completed disable, is
\* never accepted again, whatever touches that were under way, re-enabled accounts,
\* failures and restarts come after (auth/store.go:195-266, 426-435).
EndedStaysEnded == \A s \in ended : ~Accepts(s)

\* A magic token opens one session, however many requests present it and however
\* often koji fails (auth/store.go:160-193).
TokensAreUsedOnce ==
    \A s1, s2 \in Sessions : session[s1].by \in Tokens /\ session[s1].by = session[s2].by => s1 = s2

\* Nobody who is disabled has an open session, unless the disabling is between its
\* statements or stopped there (identity/store.go:84-104, auth/store.go:160-193).
DisabledAreSignedOut ==
    \A u \in disabled :
        u \in stranded \/ (\E c \in Clients : u \in Disabling(c)) \/ OpenSessions(u) = {}

\* ValidateCSRF compares text.  It still refuses no open session a second or more
\* before it expires, and serves none from a second after (auth/store.go:225-247).
CSRFExpiresWithinASecond ==
    \A s \in Sessions :
        Open(s) => /\ session[s].expires - clock >= 2 => CSRFReadable(s)
                   /\ clock - session[s].expires >= 2 => ~CSRFReadable(s)

\* docs/api/generated/Endpoints.md:227: the endpoint "Disables a user and revokes
\* active sessions."  The second statement may fail, and a retry is answered 404.
DisablingRevokesSessions ==
    \A u \in disabled : (\E c \in Clients : u \in Disabling(c)) \/ OpenSessions(u) = {}
=============================================================================
