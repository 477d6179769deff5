--------------------------- MODULE SessionsProofs ---------------------------
(***************************************************************************)
(* What Sessions guarantees for every set of users, sessions, tokens and   *)
(* clients, every timeout and any number of failures.                      *)
(***************************************************************************)
EXTENDS Sessions, TLAPS

\* A handler that holds a session holds one that was inserted.
HeldInv == \A c \in Clients : pc[c] \notin {"idle", "create"} => session[sid[c]].state # "none"

\* What was told to be over is revoked, and stays so.
EndedInv == \A s \in ended : session[s].state = "revoked"

\* A session in the name of a token was opened by consuming it.
TokenInv ==
    /\ TokensAreUsedOnce
    /\ \A s \in Sessions : /\ session[s].state = "none" => session[s].by = NoToken
                           /\ session[s].by \in Tokens => token[session[s].by].state = "consumed"

IInv == TypeOK /\ HeldInv /\ EndedInv /\ TokenInv /\ DisabledAreSignedOut

-----------------------------------------------------------------------------
\* A revoking UPDATE leaves rows of the same type, which are the old ones but for
\* those of S, and leaves none of S open.
LEMMA RevokeEffect ==
    ASSUME session \in [Sessions -> SessionRow], NEW S, Revoke(S)
    PROVE  /\ session' \in [Sessions -> SessionRow]
           /\ \A s \in Sessions :
                 /\ session'[s].user = session[s].user /\ session'[s].by = session[s].by
                 /\ session'[s].state = IF s \in S /\ session[s].state = "open" THEN "revoked"
                                        ELSE session[s].state
                 /\ session'[s].seen = session[s].seen
<1>1. ASSUME NEW s \in Sessions
      PROVE  /\ session'[s] \in SessionRow
             /\ session'[s].user = session[s].user /\ session'[s].by = session[s].by
             /\ session'[s].state = IF s \in S /\ session[s].state = "open" THEN "revoked"
                                    ELSE session[s].state
             /\ session'[s].seen = session[s].seen
  <2>1. session[s] \in SessionRow  OBVIOUS
  <2>2. session'[s] = IF s \in S /\ Open(s) THEN RevokedRow(s) ELSE session[s]  BY DEF Revoke
  <2>3. RevokedRow(s) \in SessionRow  BY <2>1 DEF SessionRow, RevokedRow
  <2>4. CASE s \in S /\ Open(s)
    <3>1. session'[s] = RevokedRow(s)  BY <2>2, <2>4
    <3>2. QED  BY <2>1, <2>3, <2>4, <3>1 DEF SessionRow, RevokedRow, Open
  <2>5. CASE ~(s \in S /\ Open(s))  BY <2>1, <2>2, <2>5 DEF Open
  <2>6. QED  BY <2>4, <2>5
<1>2. session' = [s \in Sessions |-> session'[s]]  BY DEF Revoke
<1>3. QED  BY <1>1, <1>2

\* A new session is one row more, of the user and the token it is opened for.
LEMMA CreateEffect ==
    ASSUME session \in [Sessions -> SessionRow], clock \in 0 .. MaxTime,
           NEW u \in Users, NEW b \in Tokens \cup {NoToken}, CreateSession(u, b)
    PROVE  /\ session' \in [Sessions -> SessionRow]
           /\ \E s \in Sessions :
                 /\ session[s].state = "none"
                 /\ session'[s].state = "open" /\ session'[s].user = u
                 /\ session'[s].by = b /\ session'[s].seen = clock
                 /\ \A q \in Sessions \ {s} : session'[q] = session[q]
<1>1. PICK s \in FreeSessions :
        session' = [session EXCEPT ![s] = [state |-> "open", user |-> u, seen |-> clock,
                                           expires |-> clock + TTL, by |-> b]]
  BY DEF CreateSession
<1>2. [state |-> "open", user |-> u, seen |-> clock, expires |-> clock + TTL, by |-> b]
        \in SessionRow
  BY TimesAssumption DEF SessionRow
<1>3. s \in Sessions /\ session[s].state = "none"  BY DEF FreeSessions
<1>4. QED  BY <1>1, <1>2, <1>3

\* A touch changes nothing but when an open session was last seen.
LEMMA TouchEffect ==
    ASSUME session \in [Sessions -> SessionRow], clock \in 0 .. MaxTime,
           NEW q \in Sessions, Touch(q)
    PROVE  /\ session' \in [Sessions -> SessionRow]
           /\ \A s \in Sessions :
                 /\ session'[s].state = session[s].state /\ session'[s].user = session[s].user
                 /\ session'[s].by = session[s].by
                 /\ session'[s].seen \in {clock, session[s].seen}
<1>1. session' = [session EXCEPT ![q] = [session[q] EXCEPT !.seen =
                                           IF Open(q) THEN clock ELSE session[q].seen]]
  BY DEF Touch
<1>2. session[q] \in SessionRow  OBVIOUS
<1>3. [session[q] EXCEPT !.seen = IF Open(q) THEN clock ELSE session[q].seen] \in SessionRow
  BY <1>2 DEF SessionRow
<1>4. QED  BY <1>1, <1>2, <1>3 DEF SessionRow

-----------------------------------------------------------------------------
\* The step a client's action takes it to.
Moved(c) ==
    \/ \E step \in Steps \ {"idle", "create"}, q \in Sessions :
          Open(q) /\ Begin(c, step, q)
    \/ Begin(c, "create", NoSession)
    \/ pc[c] \notin {"idle", "create"} /\ \E step \in Steps : Goto(c, step)
    \/ pc[c] \notin {"idle", "create"} /\ \E step \in Steps, u \in Users : GotoWith(c, step, u)
    \/ Answer(c)

\* What a client does: its own request moves, and nothing is said of the rest.
ClientStep(c) ==
    \/ Login(c) \/ LoginCreates(c)
    \/ SelectSession(c) \/ TouchSession(c) \/ ValidateCSRF(c) \/ WriteElsewhere(c)
    \/ LogoutValidatesCSRF(c) \/ LogoutSelects(c) \/ RevokeSession(c)
    \/ DisableUser(c) \/ RevokeAll(c) \/ EnableUser(c)
    \/ LookupUser(c) \/ InsertToken(c)
    \/ StatementFails(c)

LEMMA ClientMoves == ASSUME TypeOK, NEW c \in Clients, ClientStep(c) PROVE Moved(c)
<1>1. CASE Login(c) \/ LoginCreates(c)  BY <1>1 DEF Login, LoginCreates, Moved
<1>2. CASE SelectSession(c) \/ LogoutValidatesCSRF(c)
  BY <1>2 DEF SelectSession, LogoutValidatesCSRF, Accepts, CSRFReadable, Moved, Steps
<1>3. CASE LogoutSelects(c) \/ TouchSession(c) \/ ValidateCSRF(c)
  BY <1>3 DEF LogoutSelects, TouchSession, ValidateCSRF, Moved, Steps
<1>4. CASE WriteElsewhere(c) \/ RevokeSession(c) \/ RevokeAll(c) \/ EnableUser(c)
           \/ InsertToken(c) \/ StatementFails(c)
  BY <1>4 DEF WriteElsewhere, RevokeSession, RevokeAll, EnableUser, InsertToken,
              StatementFails, Moved
<1>5. CASE DisableUser(c) \/ LookupUser(c)
  BY <1>5 DEF DisableUser, LookupUser, MayManage, Moved, Steps
<1>6. QED  BY <1>1, <1>2, <1>3, <1>4, <1>5 DEF ClientStep

\* A move keeps the types, and a request under way holds the session it held, or
\* one that is open.
LEMMA MoveKeepsTypes ==
    ASSUME TypeOK, NEW c \in Clients, Moved(c)
    PROVE  /\ pc' \in [Clients -> Steps]
           /\ sid' \in [Clients -> Sessions \cup {NoSession}]
           /\ uid' \in [Clients -> Users]
           /\ \A d \in Clients \ {c} : pc'[d] = pc[d] /\ sid'[d] = sid[d] /\ uid'[d] = uid[d]
           /\ pc'[c] \notin {"idle", "create"} =>
                 /\ sid'[c] \in Sessions
                 /\ Open(sid'[c]) \/ (pc[c] \notin {"idle", "create"} /\ sid'[c] = sid[c])
<1>1. "idle" \in Steps /\ "create" \in Steps /\ SuperAdmin \in Users
  BY UsersAssumption DEF Steps
<1>2. /\ pc \in [Clients -> Steps] /\ uid \in [Clients -> Users]
      /\ sid \in [Clients -> Sessions \cup {NoSession}]
      /\ \A d \in Clients : pc[d] \notin {"idle", "create"} => sid[d] \in Sessions
  BY DEF TypeOK
<1>3. CASE \E step \in Steps \ {"idle", "create"}, q \in Sessions :
             Open(q) /\ Begin(c, step, q)
  <2>1. PICK step \in Steps \ {"idle", "create"}, q \in Sessions :
          Open(q) /\ Begin(c, step, q)
    BY <1>3
  <2>2. pc' = [pc EXCEPT ![c] = step] /\ sid' = [sid EXCEPT ![c] = q] /\ uid' = uid
    BY <2>1 DEF Begin
  <2>3. QED  BY <1>2, <2>1, <2>2
<1>4. CASE Begin(c, "create", NoSession)  BY <1>1, <1>2, <1>4 DEF Begin
<1>5. CASE pc[c] \notin {"idle", "create"} /\ \E step \in Steps : Goto(c, step)
  BY <1>2, <1>5 DEF Goto
<1>6. CASE pc[c] \notin {"idle", "create"} /\ \E step \in Steps, u \in Users : GotoWith(c, step, u)
  BY <1>2, <1>6 DEF GotoWith
<1>7. CASE Answer(c)  BY <1>1, <1>2, <1>7 DEF Answer
<1>8. QED  BY <1>3, <1>4, <1>5, <1>6, <1>7 DEF Moved

-----------------------------------------------------------------------------
\* What may become of the sessions and of the clock in a step.
SessionEffect ==
    /\ session' \in [Sessions -> SessionRow]
    /\ clock' \in 0 .. MaxTime
    /\ \A s \in Sessions :
          /\ session'[s].seen <= clock'
          /\ session[s].state # "none" =>
                /\ session'[s].state # "none"
                /\ session[s].state = "revoked" => session'[s].state = "revoked"
                /\ session'[s].user = session[s].user /\ session'[s].by = session[s].by
          /\ session'[s].state = "open" /\ session[s].state # "open" =>
                session[s].state = "none" /\ session'[s].user \notin disabled
          /\ session[s].state = "none" /\ session'[s].state # "open" =>
                session'[s].state = "none" /\ session'[s].by = session[s].by

\* The actions that leave the sessions and the clock alone.
Idle(c) ==
    \/ Login(c) \/ SelectSession(c) \/ ValidateCSRF(c) \/ WriteElsewhere(c)
    \/ LogoutValidatesCSRF(c) \/ LogoutSelects(c) \/ DisableUser(c) \/ EnableUser(c)
    \/ LookupUser(c) \/ InsertToken(c) \/ StatementFails(c)

LEMMA IdleKeepsSessions ==
    ASSUME NEW c \in Clients, Idle(c) PROVE session' = session /\ clock' = clock
<1>1. CASE Login(c) \/ SelectSession(c) \/ ValidateCSRF(c) \/ WriteElsewhere(c)
  BY <1>1 DEF Login, SelectSession, ValidateCSRF, WriteElsewhere, rows
<1>2. CASE LogoutValidatesCSRF(c) \/ LogoutSelects(c) \/ StatementFails(c) \/ LookupUser(c)
  BY <1>2 DEF LogoutValidatesCSRF, LogoutSelects, StatementFails, LookupUser, rows
<1>3. CASE DisableUser(c) \/ EnableUser(c) \/ InsertToken(c)
  BY <1>3 DEF DisableUser, EnableUser, InsertToken
<1>4. QED  BY <1>1, <1>2, <1>3 DEF Idle

\* Every step has that effect.
LEMMA SessionSteps == ASSUME TypeOK, [Next]_vars PROVE SessionEffect
<1>0. /\ session \in [Sessions -> SessionRow] /\ clock \in 0 .. MaxTime
      /\ \A s \in Sessions : /\ session[s].seen <= clock /\ session[s].seen \in 0 .. MaxTime
                             /\ session[s].state \in {"none", "open", "revoked"}
      /\ SuperAdmin \in Users \ disabled
      /\ NoToken \in Tokens \cup {NoToken} /\ 0 <= clock
  BY UsersAssumption, TimesAssumption DEF TypeOK, SessionRow
<1>1. ASSUME session' = session, clock' = clock PROVE SessionEffect
  BY <1>0, <1>1 DEF SessionEffect
<1>2. ASSUME NEW u \in Users \ disabled, NEW b \in Tokens \cup {NoToken},
             CreateSession(u, b), clock' = clock
      PROVE  SessionEffect
  BY <1>0, <1>2, CreateEffect DEF SessionEffect
<1>3. ASSUME NEW q \in Sessions, Touch(q), clock' = clock PROVE SessionEffect
  BY <1>0, <1>3, TouchEffect DEF SessionEffect
<1>4. ASSUME NEW S, Revoke(S), clock' = clock PROVE SessionEffect
  BY <1>0, <1>4, RevokeEffect DEF SessionEffect
<1>5. ASSUME NEW c \in Clients, ClientStep(c) PROVE SessionEffect
  <2>1. CASE Idle(c)  BY <1>1, <2>1, IdleKeepsSessions
  <2>2. CASE LoginCreates(c)  BY <1>0, <1>2, <2>2 DEF LoginCreates
  <2>3. CASE TouchSession(c)
    <3>1. sid[c] \in Sessions  BY <2>3 DEF TouchSession, TypeOK
    <3>2. QED  BY <1>3, <2>3, <3>1 DEF TouchSession
  <2>4. CASE RevokeSession(c)  BY <1>4, <2>4 DEF RevokeSession
  <2>5. CASE RevokeAll(c)  BY <1>4, <2>5 DEF RevokeAll
  <2>6. QED  BY <1>5, <2>1, <2>2, <2>3, <2>4, <2>5 DEF ClientStep, Idle
<1>6. CASE LoginMagicToken
  <2>1. PICK t \in Tokens : Usable(t) /\ CreateSession(token[t].user, t) /\ clock' = clock
    BY <1>6 DEF LoginMagicToken
  <2>2. token[t].user \in Users \ disabled  BY <2>1 DEF TypeOK, TokenRow, Usable
  <2>3. QED  BY <1>2, <2>1, <2>2
<1>7. CASE Restart \/ Refused \/ vars' = vars
  BY <1>1, <1>7 DEF Restart, Refused, vars, rows
<1>8. CASE Tick
  <2>1. session' = session /\ clock' \in 0 .. MaxTime /\ clock <= clock'
    BY <1>0, <1>8, TimesAssumption DEF Tick, rows
  <2>2. QED  BY <1>0, <2>1 DEF SessionEffect
<1>9. QED  BY <1>5, <1>6, <1>7, <1>8 DEF Next, ClientStep

-----------------------------------------------------------------------------
\* Only two actions write tokens, two disabled_at, and four the histories.
LEMMA TokensChange ==
    ASSUME [Next]_vars
    PROVE  token' = token \/ LoginMagicToken \/ \E c \in Clients : InsertToken(c)
<1>1. ASSUME NEW c \in Clients, ClientStep(c) PROVE token' = token \/ InsertToken(c)
  <2>1. CASE Idle(c)
    BY <2>1 DEF Idle, Login, SelectSession, ValidateCSRF, WriteElsewhere, LogoutValidatesCSRF,
                LogoutSelects, DisableUser, EnableUser, LookupUser, StatementFails, rows
  <2>2. CASE LoginCreates(c) \/ TouchSession(c) \/ RevokeSession(c) \/ RevokeAll(c)
    BY <2>2 DEF LoginCreates, TouchSession, RevokeSession, RevokeAll
  <2>3. QED  BY <1>1, <2>1, <2>2 DEF ClientStep, Idle
<1>2. CASE Restart \/ Refused \/ Tick \/ vars' = vars
  BY <1>2 DEF Restart, Refused, Tick, vars, rows
<1>3. QED  BY <1>1, <1>2 DEF Next, ClientStep

LEMMA DisabledChanges ==
    ASSUME [Next]_vars
    PROVE  disabled' = disabled \/ \E c \in Clients : DisableUser(c) \/ EnableUser(c)
<1>1. ASSUME NEW c \in Clients, ClientStep(c)
      PROVE  disabled' = disabled \/ DisableUser(c) \/ EnableUser(c)
  <2>1. CASE Idle(c)
    BY <2>1 DEF Idle, Login, SelectSession, ValidateCSRF, WriteElsewhere, LogoutValidatesCSRF,
                LogoutSelects, InsertToken, LookupUser, StatementFails, rows
  <2>2. CASE LoginCreates(c) \/ TouchSession(c) \/ RevokeSession(c) \/ RevokeAll(c)
    BY <2>2 DEF LoginCreates, TouchSession, RevokeSession, RevokeAll
  <2>3. QED  BY <1>1, <2>1, <2>2 DEF ClientStep, Idle
<1>2. CASE LoginMagicToken \/ Restart \/ Refused \/ Tick \/ vars' = vars
  BY <1>2 DEF LoginMagicToken, Restart, Refused, Tick, vars, rows
<1>3. QED  BY <1>1, <1>2 DEF Next, ClientStep

LEMMA HistoriesChange ==
    ASSUME [Next]_vars
    PROVE  \/ history' = history /\ faults' = faults
           \/ \E c \in Clients : RevokeSession(c) \/ RevokeAll(c) \/ StatementFails(c)
           \/ Restart
<1>1. ASSUME NEW c \in Clients, ClientStep(c)
      PROVE  \/ history' = history /\ faults' = faults
             \/ RevokeSession(c) \/ RevokeAll(c) \/ StatementFails(c)
  <2>1. CASE Idle(c)
    BY <2>1 DEF Idle, Login, SelectSession, ValidateCSRF, WriteElsewhere, LogoutValidatesCSRF,
                LogoutSelects, InsertToken, LookupUser, DisableUser, EnableUser, history
  <2>2. CASE LoginCreates(c) \/ TouchSession(c)
    BY <2>2 DEF LoginCreates, TouchSession, history
  <2>3. QED  BY <1>1, <2>1, <2>2 DEF ClientStep, Idle
<1>2. CASE LoginMagicToken \/ Refused \/ Tick \/ vars' = vars
  BY <1>2 DEF LoginMagicToken, Refused, Tick, vars, history
<1>3. QED  BY <1>1, <1>2 DEF Next, ClientStep

\* Types and histories in a step.
LEMMA TypeStep == ASSUME TypeOK, [Next]_vars PROVE TypeOK'
<1>1. SessionEffect  BY SessionSteps
<1>2. /\ session' \in [Sessions -> SessionRow] /\ clock' \in 0 .. MaxTime
      /\ \A s \in Sessions : session'[s].seen <= clock'
  BY <1>1 DEF SessionEffect
<1> DEFINE RequestsTyped ==
       /\ pc' \in [Clients -> Steps] /\ uid' \in [Clients -> Users]
       /\ sid' \in [Clients -> Sessions \cup {NoSession}]
       /\ \A d \in Clients : pc'[d] \notin {"idle", "create"} => sid'[d] \in Sessions
<1>3. RequestsTyped
  <2>1. ASSUME NEW c \in Clients, ClientStep(c) PROVE RequestsTyped
    BY <2>1, ClientMoves, MoveKeepsTypes DEF TypeOK
  <2>2. CASE Restart
    BY <2>2, UsersAssumption DEF Restart, Steps
  <2>3. CASE LoginMagicToken \/ Refused \/ Tick \/ vars' = vars
    BY <2>3 DEF LoginMagicToken, Refused, Tick, vars, requests, TypeOK
  <2>4. QED  BY <2>1, <2>2, <2>3 DEF Next, ClientStep
<1>4. token' \in [Tokens -> TokenRow]
  <2>0. token \in [Tokens -> TokenRow] /\ clock \in 0 .. MaxTime  BY DEF TypeOK
  <2>1. CASE LoginMagicToken
    <3>1. PICK t \in Tokens : token' = [token EXCEPT ![t] = [token[t] EXCEPT !.state = "consumed"]]
      BY <2>1 DEF LoginMagicToken
    <3>2. [token[t] EXCEPT !.state = "consumed"] \in TokenRow  BY <2>0 DEF TokenRow
    <3>3. QED  BY <2>0, <3>1, <3>2
  <2>2. ASSUME NEW c \in Clients, InsertToken(c) PROVE token' \in [Tokens -> TokenRow]
    <3>1. PICK t \in Tokens :
            token' = [token EXCEPT ![t] = [state |-> "fresh", user |-> uid[c],
                                           expires |-> clock + TokenTTL]]
      BY <2>2 DEF InsertToken
    <3>2. [state |-> "fresh", user |-> uid[c], expires |-> clock + TokenTTL] \in TokenRow
      BY <2>0, TimesAssumption DEF TokenRow, TypeOK
    <3>3. QED  BY <2>0, <3>1, <3>2
  <2>3. CASE token' = token  BY <2>0, <2>3
  <2>4. QED  BY <2>1, <2>2, <2>3, TokensChange
<1>5. disabled' \subseteq Users \ {SuperAdmin}
  <2>0. disabled \subseteq Users \ {SuperAdmin}  BY DEF TypeOK
  <2>1. ASSUME NEW c \in Clients, DisableUser(c) \/ EnableUser(c)
        PROVE  disabled' \subseteq Users \ {SuperAdmin}
    BY <2>0, <2>1 DEF DisableUser, EnableUser
  <2>2. CASE disabled' = disabled  BY <2>0, <2>2
  <2>3. QED  BY <2>1, <2>2, DisabledChanges
<1> DEFINE HistoriesTyped ==
       ended' \subseteq Sessions /\ stranded' \subseteq Users /\ faults' \in 0 .. MaxFaults
<1>6. HistoriesTyped
  <2>0. /\ ended \subseteq Sessions /\ stranded \subseteq Users /\ faults \in 0 .. MaxFaults
        /\ \A c \in Clients : uid[c] \in Users
        /\ \A c \in Clients : pc[c] = "revoke" => sid[c] \in Sessions
    BY DEF TypeOK
  <2>1. CASE history' = history /\ faults' = faults  BY <2>0, <2>1 DEF history
  <2>2. ASSUME NEW c \in Clients, RevokeSession(c) PROVE HistoriesTyped
    BY <2>0, <2>2 DEF RevokeSession
  <2>3. ASSUME NEW c \in Clients, RevokeAll(c) PROVE HistoriesTyped
    BY <2>0, <2>3 DEF RevokeAll, OpenSessions
  <2>4. ASSUME NEW c \in Clients, StatementFails(c) PROVE HistoriesTyped
    <3>1. Disabling(c) \subseteq Users  BY <2>0 DEF Disabling
    <3>2. ended' = ended /\ stranded' = stranded \cup Disabling(c)  BY <2>4 DEF StatementFails
    <3>3. faults' = faults + 1 /\ faults < MaxFaults  BY <2>4 DEF StatementFails
    <3>4. QED  BY <2>0, <3>1, <3>2, <3>3, TimesAssumption
  <2>5. CASE Restart
    <3>1. UNION {Disabling(c) : c \in Clients} \subseteq Users  BY <2>0 DEF Disabling
    <3>2. ended' = ended /\ stranded' = stranded \cup UNION {Disabling(c) : c \in Clients}
      BY <2>5 DEF Restart
    <3>3. faults' = faults + 1 /\ faults < MaxFaults  BY <2>5 DEF Restart
    <3>4. stranded' \subseteq Users  BY <2>0, <3>1, <3>2, Zenon
    <3>5. QED  BY <2>0, <3>2, <3>3, <3>4, TimesAssumption
  <2>6. QED  BY <2>1, <2>2, <2>3, <2>4, <2>5, HistoriesChange
<1>7. QED  BY <1>2, <1>3, <1>4, <1>5, <1>6 DEF TypeOK

-----------------------------------------------------------------------------
\* The session a request holds stays inserted.
LEMMA HeldStep == ASSUME TypeOK, HeldInv, [Next]_vars PROVE HeldInv'
<1>0. SessionEffect /\ TypeOK'  BY SessionSteps, TypeStep
<1>1. ASSUME NEW s \in Sessions, session[s].state # "none" PROVE session'[s].state # "none"
  BY <1>0, <1>1 DEF SessionEffect
<1>2. ASSUME NEW c \in Clients, ClientStep(c) PROVE HeldInv'
  <2>1. Moved(c)  BY <1>2, ClientMoves
  <2>2. ASSUME NEW d \in Clients, pc'[d] \notin {"idle", "create"}
        PROVE  sid'[d] \in Sessions /\ session[sid'[d]].state # "none"
    <3>1. CASE d = c
      BY <2>1, <2>2, <3>1, MoveKeepsTypes DEF HeldInv, Open
    <3>2. CASE d # c
      BY <2>1, <2>2, <3>2, MoveKeepsTypes DEF HeldInv, TypeOK
    <3>3. QED  BY <3>1, <3>2
  <2>3. QED  BY <2>2, <1>1 DEF HeldInv
<1>3. CASE Restart  BY <1>3 DEF Restart, HeldInv
<1>4. CASE LoginMagicToken \/ Refused \/ Tick \/ vars' = vars
  <2>1. requests' = requests  BY <1>4 DEF LoginMagicToken, Refused, Tick, vars, requests
  <2>2. QED  BY <2>1, <1>1 DEF requests, HeldInv, TypeOK
<1>5. QED  BY <1>2, <1>3, <1>4 DEF Next, ClientStep

\* What was told to be over stays revoked.
LEMMA EndedStep == ASSUME TypeOK, HeldInv, EndedInv, [Next]_vars PROVE EndedInv'
<1>0. SessionEffect  BY SessionSteps
<1>1. ASSUME NEW s \in ended PROVE s \in Sessions /\ session'[s].state = "revoked"
  BY <1>0 DEF EndedInv, SessionEffect, TypeOK
<1>2. CASE history' = history  BY <1>1, <1>2 DEF history, EndedInv
<1>3. ASSUME NEW c \in Clients, RevokeSession(c) PROVE EndedInv'
  <2>1. sid[c] \in Sessions /\ session[sid[c]].state # "none"
    BY <1>3 DEF RevokeSession, TypeOK, HeldInv
  <2>2. session'[sid[c]].state = "revoked"
    BY <1>3, <2>1, RevokeEffect DEF RevokeSession, TypeOK, SessionRow
  <2>3. ended' = ended \cup {sid[c]}  BY <1>3 DEF RevokeSession
  <2>4. QED  BY <1>1, <2>2, <2>3 DEF EndedInv
<1>4. ASSUME NEW c \in Clients, RevokeAll(c) PROVE EndedInv'
  <2>1. \A s \in OpenSessions(uid[c]) : session'[s].state = "revoked"
    BY <1>4, RevokeEffect DEF RevokeAll, TypeOK, OpenSessions, Open
  <2>2. ended' = ended \cup OpenSessions(uid[c])  BY <1>4 DEF RevokeAll
  <2>3. QED  BY <1>1, <2>1, <2>2 DEF EndedInv
<1>5. ASSUME (\E c \in Clients : StatementFails(c)) \/ Restart PROVE EndedInv'
  <2>1. ended' = ended  BY <1>5 DEF StatementFails, Restart
  <2>2. QED  BY <1>1, <2>1 DEF EndedInv
<1>6. QED  BY <1>2, <1>3, <1>4, <1>5, HistoriesChange

\* A token is consumed with the session it opens, which is its only one.
LEMMA TokenStep == ASSUME TypeOK, TokenInv, [Next]_vars PROVE TokenInv'
<1>0. SessionEffect /\ TypeOK'  BY SessionSteps, TypeStep
<1>1. ASSUME NEW t \in Tokens, token[t].state = "consumed" PROVE token'[t].state = "consumed"
  <2>1. CASE token' = token  BY <1>1, <2>1
  <2>2. CASE LoginMagicToken  BY <1>1, <2>2 DEF LoginMagicToken, TypeOK
  <2>3. ASSUME NEW c \in Clients, InsertToken(c) PROVE token'[t].state = "consumed"
    BY <1>1, <2>3 DEF InsertToken, TypeOK
  <2>4. QED  BY <2>1, <2>2, <2>3, TokensChange
<1>2. ASSUME \A s \in Sessions : session'[s].by = session[s].by,
             \A s \in Sessions : session'[s].state = "none" => session[s].state = "none"
      PROVE  TokenInv'
  BY <1>1, <1>2 DEF TokenInv, TokensAreUsedOnce
<1>3. CASE LoginMagicToken
  <2>1. PICK t \in Tokens :
          /\ Usable(t) /\ CreateSession(token[t].user, t)
          /\ token' = [token EXCEPT ![t].state = "consumed"]
    BY <1>3 DEF LoginMagicToken
  <2>2. token[t].state = "fresh" /\ token[t].user \in Users /\ token'[t].state = "consumed"
    BY <2>1 DEF Usable, TypeOK, TokenRow
  <2>3. PICK s \in Sessions :
          /\ session[s].state = "none" /\ session'[s].state = "open" /\ session'[s].by = t
          /\ \A q \in Sessions \ {s} : session'[q] = session[q]
    BY <2>1, <2>2, CreateEffect DEF TypeOK
  <2>4. \A q \in Sessions : session[q].by # t  BY <2>2 DEF TokenInv
  <2>5. QED  BY <1>1, <2>2, <2>3, <2>4 DEF TokenInv, TokensAreUsedOnce
<1>4. ASSUME NEW c \in Clients, LoginCreates(c) PROVE TokenInv'
  <2>1. PICK s \in Sessions :
          /\ session[s].state = "none" /\ session'[s].state = "open" /\ session'[s].by = NoToken
          /\ \A q \in Sessions \ {s} : session'[q] = session[q]
    BY <1>4, CreateEffect, UsersAssumption DEF LoginCreates, TypeOK
  <2>2. \A q \in Sessions : session'[q].by = session[q].by  BY <2>1 DEF TokenInv
  <2>3. QED  BY <1>2, <2>1, <2>2
<1>5. ASSUME NEW c \in Clients, ClientStep(c), ~LoginCreates(c) PROVE TokenInv'
  <2>1. CASE Idle(c)  BY <1>2, <2>1, IdleKeepsSessions
  <2>2. CASE TouchSession(c)
    <3>1. sid[c] \in Sessions /\ Touch(sid[c])  BY <2>2 DEF TouchSession, TypeOK
    <3>2. QED  BY <1>2, <3>1, TouchEffect DEF TypeOK
  <2>3. CASE RevokeSession(c)  BY <1>2, <2>3, RevokeEffect DEF RevokeSession, TypeOK
  <2>4. CASE RevokeAll(c)  BY <1>2, <2>4, RevokeEffect DEF RevokeAll, TypeOK
  <2>5. QED  BY <1>5, <2>1, <2>2, <2>3, <2>4 DEF ClientStep, Idle
<1>6. CASE Restart \/ Refused \/ Tick \/ vars' = vars
  BY <1>2, <1>6 DEF Restart, Refused, Tick, vars, rows
<1>7. QED  BY <1>3, <1>4, <1>5, <1>6 DEF Next, ClientStep

\* A disabled user is signed out, or about to be, or was left half disabled.
LEMMA SignedOutStep ==
    ASSUME TypeOK, DisabledAreSignedOut, [Next]_vars PROVE DisabledAreSignedOut'
<1>0. SessionEffect /\ TypeOK'  BY SessionSteps, TypeStep
<1> SUFFICES ASSUME NEW u \in disabled'
             PROVE  \/ u \in stranded' \/ (\E c \in Clients : u \in Disabling(c)')
                    \/ OpenSessions(u)' = {}
  BY DEF DisabledAreSignedOut
<1> DEFINE Out == \/ u \in stranded' \/ (\E c \in Clients : u \in Disabling(c)')
                  \/ OpenSessions(u)' = {}
<1>1. ASSUME u \in disabled, OpenSessions(u) = {} PROVE Out
  BY <1>0, <1>1 DEF SessionEffect, OpenSessions, Open, TypeOK, SessionRow
<1>2. ASSUME NEW c \in Clients, RevokeAll(c), uid[c] = u PROVE Out
  BY <1>2, RevokeEffect DEF RevokeAll, OpenSessions, Open, TypeOK
<1>3. CASE u \notin disabled
  <2>1. PICK c \in Clients : DisableUser(c)  BY <1>3, DisabledChanges DEF EnableUser
  <2>2. GotoWith(c, "revokeAll", u)  BY <1>3, <2>1 DEF DisableUser
  <2>3. u \in Disabling(c)'  BY <2>2 DEF GotoWith, Disabling, TypeOK
  <2>4. QED  BY <2>3
<1>4. CASE u \in disabled /\ u \in stranded
  <2>1. CASE history' = history  BY <1>4, <2>1 DEF history
  <2>2. ASSUME NEW c \in Clients, RevokeSession(c) \/ StatementFails(c) PROVE Out
    BY <1>4, <2>2 DEF RevokeSession, StatementFails
  <2>3. ASSUME NEW c \in Clients, RevokeAll(c) PROVE Out
    BY <1>2, <1>4, <2>3 DEF RevokeAll
  <2>4. CASE Restart  BY <1>4, <2>4 DEF Restart
  <2>5. QED  BY <2>1, <2>2, <2>3, <2>4, HistoriesChange
<1>5. ASSUME u \in disabled, NEW d \in Clients, u \in Disabling(d) PROVE Out
  <2>1. pc[d] = "revokeAll" /\ uid[d] = u  BY <1>5 DEF Disabling
  <2>2. ASSUME pc'[d] = pc[d], uid'[d] = uid[d] PROVE Out
    BY <2>1, <2>2 DEF Disabling
  <2>3. ASSUME NEW c \in Clients \ {d}, ClientStep(c) PROVE Out
    BY <2>2, <2>3, ClientMoves, MoveKeepsTypes
  <2>4. ASSUME ClientStep(d) PROVE RevokeAll(d) \/ StatementFails(d)
    BY <2>1, <2>4 DEF ClientStep, Login, LoginCreates, SelectSession, TouchSession, ValidateCSRF,
                      WriteElsewhere, LogoutValidatesCSRF, LogoutSelects, RevokeSession,
                      DisableUser, EnableUser, LookupUser, InsertToken, MayManage, Begin
  <2>5. CASE RevokeAll(d)  BY <1>2, <2>1, <2>5
  <2>6. CASE StatementFails(d)  BY <2>1, <2>6 DEF StatementFails, Disabling
  <2>7. CASE Restart
    <3>1. Disabling(d) \subseteq stranded'  BY <2>7 DEF Restart
    <3>2. QED  BY <1>5, <3>1
  <2>8. CASE LoginMagicToken \/ Refused \/ Tick \/ vars' = vars
    <3>1. requests' = requests  BY <2>8 DEF LoginMagicToken, Refused, Tick, vars, requests
    <3>2. QED  BY <2>2, <3>1 DEF requests
  <2>9. QED  BY <2>3, <2>4, <2>5, <2>6, <2>7, <2>8 DEF Next, ClientStep
<1>6. QED  BY <1>1, <1>3, <1>4, <1>5 DEF DisabledAreSignedOut

-----------------------------------------------------------------------------
LEMMA InitSessions == Init => IInv
<1> SUFFICES ASSUME Init PROVE IInv  OBVIOUS
<1>1. TypeOK
  <2>1. clock \in 0 .. MaxTime /\ disabled \subseteq Users \ {SuperAdmin} /\ faults \in 0 .. MaxFaults
    BY TimesAssumption DEF Init
  <2>2. session \in [Sessions -> SessionRow]
    BY UsersAssumption, TimesAssumption DEF Init, SessionRow
  <2>3. token \in [Tokens -> TokenRow]
    BY UsersAssumption, TimesAssumption DEF Init, TokenRow
  <2>4. /\ pc \in [Clients -> Steps] /\ uid \in [Clients -> Users]
        /\ sid \in [Clients -> Sessions \cup {NoSession}]
        /\ \A c \in Clients : pc[c] \notin {"idle", "create"} => sid[c] \in Sessions
    BY UsersAssumption DEF Init, Steps
  <2>5. /\ ended \subseteq Sessions /\ stranded \subseteq Users
        /\ \A s \in Sessions : session[s].seen <= clock
    BY DEF Init
  <2>6. QED  BY <2>1, <2>2, <2>3, <2>4, <2>5 DEF TypeOK
<1>2. HeldInv /\ EndedInv /\ DisabledAreSignedOut
  BY DEF Init, HeldInv, EndedInv, DisabledAreSignedOut
<1>3. TokenInv
  BY IdsAssumption DEF Init, TokenInv, TokensAreUsedOnce
<1>4. QED  BY <1>1, <1>2, <1>3 DEF IInv

\* The invariant behind the theorems below.
LEMMA Invariance == Spec => []IInv
<1>1. Init => IInv  BY InitSessions
<1>2. IInv /\ [Next]_vars => IInv'
  BY TypeStep, HeldStep, EndedStep, TokenStep, SignedOutStep DEF IInv
<1>3. QED  BY <1>1, <1>2, PTL DEF Spec

-----------------------------------------------------------------------------
\* Every variable keeps its type, and no session was last seen in the future.
THEOREM SessionTypes == Spec => []TypeOK
<1>1. IInv => TypeOK  BY DEF IInv
<1>2. QED  BY <1>1, Invariance, PTL

\* A session somebody was told is over is never accepted again, by logouts and
\* disables in any number and through any failures (auth/store.go:195-266).
THEOREM EndedSessions == Spec => []EndedStaysEnded
<1>1. IInv => EndedStaysEnded  BY DEF IInv, EndedInv, EndedStaysEnded, Accepts, Open
<1>2. QED  BY <1>1, Invariance, PTL

\* A magic token opens at most one session (auth/store.go:160-193).
THEOREM SingleUseTokens == Spec => []TokensAreUsedOnce
<1>1. IInv => TokensAreUsedOnce  BY DEF IInv, TokenInv
<1>2. QED  BY <1>1, Invariance, PTL

\* Nobody who is disabled has an open session, but for a disabling under way or one
\* that stopped between its statements (identity/store.go:84-104).
THEOREM SignedOut == Spec => []DisabledAreSignedOut
<1>1. IInv => DisabledAreSignedOut  BY DEF IInv
<1>2. QED  BY <1>1, Invariance, PTL

\* Text order is the order in time of instants a second apart (store.go:236, 479).
LEMMA TextWithinASecond ==
    ASSUME NEW a \in Nat, NEW b \in Nat, a + 2 <= b PROVE Text(a) < Text(b)
BY DEF Text

\* The CSRF check agrees with the expiry to the second, for every TTL: it refuses no
\* open session before its last second and serves none a second after its end.
THEOREM CSRFExpiry == Spec => []CSRFExpiresWithinASecond
<1>1. ASSUME IInv, NEW s \in Sessions, Open(s)
      PROVE  /\ session[s].expires - clock >= 2 => CSRFReadable(s)
             /\ clock - session[s].expires >= 2 => ~CSRFReadable(s)
  <2>1. session[s].expires \in Nat /\ clock \in Nat
    BY <1>1, TimesAssumption DEF IInv, TypeOK, SessionRow
  <2>2. ASSUME session[s].expires - clock >= 2 PROVE CSRFReadable(s)
    <3>1. clock + 2 <= session[s].expires  BY <2>1, <2>2
    <3>2. Text(clock) < Text(session[s].expires)  BY <2>1, <3>1, TextWithinASecond
    <3>3. QED  BY <1>1, <3>2 DEF CSRFReadable, Text
  <2>3. ASSUME clock - session[s].expires >= 2 PROVE ~CSRFReadable(s)
    <3>1. session[s].expires + 2 <= clock  BY <2>1, <2>3
    <3>2. Text(session[s].expires) < Text(clock)  BY <2>1, <3>1, TextWithinASecond
    <3>3. QED  BY <2>1, <3>2 DEF CSRFReadable, Text
  <2>4. QED  BY <2>2, <2>3
<1>2. IInv => CSRFExpiresWithinASecond  BY <1>1 DEF CSRFExpiresWithinASecond
<1>3. QED  BY <1>2, Invariance, PTL
=============================================================================
