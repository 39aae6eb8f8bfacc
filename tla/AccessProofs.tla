---------------------------- MODULE AccessProofs ----------------------------
(***************************************************************************)
(* Proofs about accounts, codes and sessions, for any number of accounts   *)
(* and requests.  Every request is judged by what it knows, Knows; a step  *)
(* that changes tables moves accounts, sessions and codes forward only     *)
(* (Moves), which keeps what the other requests know.                      *)
(***************************************************************************)
EXTENDS AccountPage, FiniteSetTheorems, TLAPS

Activated(u) == users[u].status \notin {"ABSENT", "INVITED"}

\* What is true of the request q whatever the others do.
Knows(q) ==
  /\ q.step \in {"resolving", "acting", "rehashing"} =>
       /\ Activated(q.user)
       /\ sessions[q.session].state # "unused"
       /\ sessions[q.session].state = "live" => sessions[q.session].user = q.user
  /\ q.step = "verifying" /\ q.status = "ACTIVE" => Activated(q.user)
  /\ q.step = "resetting" =>
       /\ Activated(q.user)
       /\ \A c \in q.superseded :
            /\ codes[c].state # "unissued"
            /\ codes[c].state = "live" => codes[c].user = q.user

RequestsKnow == \A r \in Request : Knows(request[r])
SpentIsBlank ==
  \A c \in Code : codes[c].state \in {"used", "dead"} => codes[c] = SpentCode(codes[c].state)
SessionsOfActivated == \A s \in Session : sessions[s].state = "live" => Activated(sessions[s].user)

AccessInv ==
  /\ TypeOK
  /\ RequestsKnow
  /\ SpentIsBlank
  /\ SessionsOfActivated
  /\ SessionsEndWithCredentials

-----------------------------------------------------------------------------
(* How the tables move. *)

UsersMove == \A u \in User : Activated(u) => Activated(u)'

SessionsMove ==
  \A s \in Session :
    \/ sessions'[s] = sessions[s]
    \/ sessions[s].state = "unused"
    \/ sessions'[s].state = "revoked"
    \/ sessions'[s].state = "live" /\ sessions[s].state = "live"
         /\ sessions'[s].user = sessions[s].user

CodesMove ==
  \A c \in Code :
    \/ codes'[c] = codes[c]
    \/ codes[c].state = "unissued"
    \/ codes'[c].state \in {"dead", "used"} /\ codes[c].state = "live"

Moves == UsersMove /\ SessionsMove /\ CodesMove

LEMMA SomeUser == ASSUME NEW u \in User PROVE AnyUser \in User
  BY DEF AnyUser

LEMMA KnowsStable ==
  ASSUME AccessInv, Moves, \A r \in Request : request'[r] = request[r] \/ request'[r] = Idle
  PROVE  RequestsKnow'
<1> SUFFICES ASSUME NEW r \in Request
             PROVE  Knows(request[r])'
  BY DEF RequestsKnow
<1>1. CASE request'[r] = Idle
  BY <1>1 DEF Knows, Idle
<1>2. CASE request'[r] = request[r]
  <2> DEFINE q == request[r]
  <2>1. q \in RequestState /\ Knows(q)
    BY DEF AccessInv, TypeOK, RequestsKnow
  <2>2. ASSUME q.step \in {"resolving", "acting", "rehashing"}
        PROVE  /\ Activated(q.user)'
               /\ sessions'[q.session].state # "unused"
               /\ sessions'[q.session].state = "live" => sessions'[q.session].user = q.user
    <3>1. q.user \in User /\ q.session \in Session
      BY <2>1, <2>2 DEF RequestState, Idle
    <3>2. /\ Activated(q.user)
          /\ sessions[q.session].state # "unused"
          /\ sessions[q.session].state = "live" => sessions[q.session].user = q.user
      BY <2>1, <2>2 DEF Knows
    <3>3. Activated(q.user)'
      BY <1>2, <3>1, <3>2 DEF Moves, UsersMove, Activated
    <3> HIDE DEF q
    <3> QED
      BY <3>1, <3>2, <3>3 DEF Moves, SessionsMove
  <2>3. ASSUME q.step = "verifying", q.status = "ACTIVE"
        PROVE  Activated(q.user)'
    <3>1. q.user \in User
      BY <2>1, <2>3 DEF RequestState, Idle
    <3>2. Activated(q.user)
      BY <2>1, <2>3 DEF Knows
    <3> QED
      BY <1>2, <3>1, <3>2 DEF Moves, UsersMove, Activated
  <2>4. ASSUME q.step = "resetting", NEW c \in q.superseded
        PROVE  /\ codes'[c].state # "unissued"
               /\ codes'[c].state = "live" => codes'[c].user = q.user
    <3>1. c \in Code
      BY <2>1, <2>4 DEF RequestState, Idle
    <3>2. /\ codes[c].state # "unissued"
          /\ codes[c].state = "live" => codes[c].user = q.user
      BY <2>1, <2>4 DEF Knows
    <3> QED
      BY <3>1, <3>2 DEF Moves, CodesMove
  <2>5. ASSUME q.step = "resetting"
        PROVE  Activated(q.user)'
    <3>1. q.user \in User /\ Activated(q.user)
      BY <2>1, <2>5 DEF RequestState, Idle, Knows
    <3> QED
      BY <1>2, <3>1 DEF Moves, UsersMove, Activated
  <2> QED
    BY <1>2, <2>2, <2>3, <2>4, <2>5 DEF Knows, Activated
<1> QED
  BY <1>1, <1>2

-----------------------------------------------------------------------------
(* Steps that read: only the request's own state changes. *)

LEMMA RequestStep ==
  ASSUME AccessInv, NEW r \in Request, NEW q \in RequestState,
         request' = [request EXCEPT ![r] = q],
         UNCHANGED <<users, roles, codes, sessions>>,
         failures' \in [User -> Nat],
         Knows(q)
  PROVE  AccessInv'
<1>1. TypeOK'
  BY DEF AccessInv, TypeOK, PasswordMatchesStatus
<1>2. RequestsKnow'
  BY DEF AccessInv, TypeOK, RequestsKnow, Knows, Activated
<1>3. SpentIsBlank' /\ SessionsOfActivated' /\ SessionsEndWithCredentials'
  BY DEF AccessInv, SpentIsBlank, SessionsOfActivated, SessionsEndWithCredentials, Activated
<1> QED
  BY <1>1, <1>2, <1>3 DEF AccessInv

LEMMA ReadSteps ==
  ASSUME AccessInv, NEW r \in Request,
         \/ \E s \in Session : ResolveSession(r, s)
         \/ Finish(r)
         \/ \E u \in User, role \in Role : CountAdmins(r, u, role)
         \/ \E u \in User, guess \in Password : BeginLogin(r, u, guess)
         \/ \E new \in Password : VerifyOwnPassword(r, new)
         \/ \E u \in User : BeginReset(r, u)
         \/ \E u \in User, purpose \in Purpose, new \in Password : BeginRedeem(r, u, purpose, new)
  PROVE  AccessInv'
<1> USE DEF AccessInv, TypeOK
<1>1. CASE \E s \in Session : ResolveSession(r, s)
  <2>1. PICK s \in Session : ResolveSession(r, s)
    BY <1>1
  <2> DEFINE q == [step |-> "resolving", session |-> s, user |-> sessions[s].user]
  <2>2. q \in RequestState
    BY DEF RequestState, SessionRow
  <2>3. Knows(q)
    BY <2>1 DEF Knows, ResolveSession, Activated
  <2> QED
    BY <2>1, <2>2, <2>3, RequestStep DEF ResolveSession
<1>2. CASE Finish(r)
  <2>1. Idle \in RequestState /\ Knows(Idle)
    BY DEF RequestState, Knows, Idle
  <2> QED
    BY <1>2, <2>1, RequestStep DEF Finish
<1>3. CASE \E u \in User, role \in Role : CountAdmins(r, u, role)
  <2>1. PICK u \in User, role \in Role : CountAdmins(r, u, role)
    BY <1>3
  <2> DEFINE q == [step |-> "revoking", user |-> request[r].user, target |-> u, role |-> role]
  <2>2. role # Student /\ request[r].user \in User
    BY <2>1 DEF CountAdmins, MayRevoke, ByAdmin, RequestState, Idle
  <2>3. q \in RequestState
    BY <2>2 DEF RequestState
  <2>4. Knows(q)
    BY DEF Knows
  <2> QED
    BY <2>1, <2>3, <2>4, RequestStep DEF CountAdmins
<1>4. CASE \E u \in User, guess \in Password : BeginLogin(r, u, guess)
  <2>1. PICK u \in User, guess \in Password : BeginLogin(r, u, guess)
    BY <1>4
  <2> DEFINE q == [step |-> "verifying", user |-> u, guess |-> guess,
                   hash |-> users[u].password, status |-> users[u].status]
  <2>2. q \in RequestState
    BY DEF RequestState, UserRow
  <2>3. Knows(q)
    BY DEF Knows, Activated
  <2> QED
    BY <2>1, <2>2, <2>3, RequestStep DEF BeginLogin
<1>5. CASE \E new \in Password : VerifyOwnPassword(r, new)
  <2>1. PICK new \in Password : VerifyOwnPassword(r, new)
    BY <1>5
  <2> DEFINE q == [step |-> "rehashing", session |-> request[r].session,
                   user |-> request[r].user, password |-> new]
  <2>2. q \in RequestState
    BY <2>1 DEF RequestState, VerifyOwnPassword, Idle
  <2>3. Knows(q)
    BY <2>1 DEF Knows, VerifyOwnPassword, RequestsKnow
  <2> QED
    BY <2>1, <2>2, <2>3, RequestStep DEF VerifyOwnPassword
<1>6. CASE \E u \in User : BeginReset(r, u)
  <2>1. PICK u \in User : BeginReset(r, u)
    BY <1>6
  <2> DEFINE q == [step |-> "resetting", user |-> u, superseded |-> LiveCodes(u, "PASSWORD_RESET")]
  <2>2. q \in RequestState
    BY DEF RequestState, LiveCodes
  <2>3. Knows(q)
    BY <2>1 DEF Knows, LiveCodes, BeginReset, Activated
  <2> QED
    BY <2>1, <2>2, <2>3, RequestStep DEF BeginReset
<1>7. CASE \E u \in User, purpose \in Purpose, new \in Password : BeginRedeem(r, u, purpose, new)
  <2>1. PICK u \in User, purpose \in Purpose, new \in Password : BeginRedeem(r, u, purpose, new)
    BY <1>7
  <2> DEFINE q == [step |-> "redeeming", user |-> u, purpose |-> purpose, password |-> new]
  <2>2. q \in RequestState /\ Knows(q)
    BY DEF RequestState, Knows
  <2> QED
    BY <2>1, <2>2, RequestStep DEF BeginRedeem
<1> QED
  BY <1>1, <1>2, <1>3, <1>4, <1>5, <1>6, <1>7

-----------------------------------------------------------------------------
(* Steps that write a table. *)

\* What is left to show of a step of r, or of the clock, that writes.
LEMMA WriteStep ==
  ASSUME AccessInv, Moves,
         \/ \E r \in Request : request' = [request EXCEPT ![r] = Idle]
         \/ request' = request,
         users' \in [User -> UserRow], roles' \in [User -> SUBSET Role],
         codes' \in [Code -> CodeRow], sessions' \in [Session -> SessionRow],
         failures' \in [User -> Nat],
         PasswordMatchesStatus', SpentIsBlank', SessionsOfActivated',
         SessionsEndWithCredentials'
  PROVE  AccessInv'
<1>1. request' \in [Request -> RequestState]
  BY DEF AccessInv, TypeOK, RequestState
<1>2. \A r \in Request : request'[r] = request[r] \/ request'[r] = Idle
  BY DEF AccessInv, TypeOK
<1>3. RequestsKnow'
  BY <1>2, KnowsStable
<1> QED
  BY <1>1, <1>3 DEF AccessInv, TypeOK

\* Only the codes change.
LEMMA CodesStep ==
  ASSUME AccessInv, CodesMove, codes' \in [Code -> CodeRow], SpentIsBlank',
         \/ \E r \in Request : request' = [request EXCEPT ![r] = Idle]
         \/ request' = request,
         UNCHANGED <<users, roles, sessions, failures>>
  PROVE  AccessInv'
<1>1. Moves
  BY DEF Moves, UsersMove, SessionsMove, Activated
<1>2. PasswordMatchesStatus' /\ SessionsOfActivated' /\ SessionsEndWithCredentials'
  BY DEF AccessInv, TypeOK, PasswordMatchesStatus, SessionsOfActivated,
         SessionsEndWithCredentials, Activated
<1> QED
  BY <1>1, <1>2, WriteStep DEF AccessInv, TypeOK

\* A code is issued over others that are spent already or are spent with it.
LEMMA Issued ==
  ASSUME AccessInv, NEW u \in User, NEW p \in Purpose, NEW c \in Code, NEW old,
         codes[c].state = "unissued",
         \A d \in Code : d \in old => codes[d].state = "live",
         codes' = IssuedOver(old, u, p, c)
  PROVE  codes' \in [Code -> CodeRow] /\ CodesMove /\ SpentIsBlank'
<1>1. SpentCode("dead") \in CodeRow /\ SpentCode("dead").state = "dead"
  BY SomeUser DEF SpentCode, CodeRow, CodeState, Purpose
<1>2. codes' \in [Code -> CodeRow]
  BY <1>1 DEF AccessInv, TypeOK, IssuedOver, CodeRow, CodeState
<1>3. CodesMove
  BY <1>1 DEF CodesMove, IssuedOver
<1>4. SpentIsBlank'
  BY <1>1 DEF AccessInv, SpentIsBlank, IssuedOver, SpentCode
<1> QED
  BY <1>2, <1>3, <1>4

\* A session is closed, nothing else happens.
LEMMA ClosingStep ==
  ASSUME AccessInv, NEW s \in Session,
         sessions' = [sessions EXCEPT ![s] = ClosedSession("revoked")],
         \/ \E r \in Request : request' = [request EXCEPT ![r] = Idle]
         \/ request' = request,
         UNCHANGED <<users, roles, codes, failures>>
  PROVE  AccessInv'
<1>1. sessions[s].user \in User
  BY DEF AccessInv, TypeOK, SessionRow
<1>2. ClosedSession("revoked") \in SessionRow /\ ClosedSession("revoked").state = "revoked"
  BY <1>1, SomeUser DEF ClosedSession, SessionRow, SessionState, Passwords
<1>3. sessions' \in [Session -> SessionRow]
  BY <1>2 DEF AccessInv, TypeOK
<1>4. Moves
  BY <1>2 DEF Moves, UsersMove, SessionsMove, CodesMove, Activated, AccessInv, TypeOK
<1>5. PasswordMatchesStatus' /\ SpentIsBlank'
  BY DEF AccessInv, TypeOK, PasswordMatchesStatus, SpentIsBlank
<1>6. SessionsOfActivated' /\ SessionsEndWithCredentials'
  BY <1>2 DEF AccessInv, TypeOK, SessionsOfActivated, SessionsEndWithCredentials, Activated
<1> QED
  BY <1>3, <1>4, <1>5, <1>6, WriteStep DEF AccessInv, TypeOK

\* The sessions of u but for those in kept are closed.
LEMMA Revoked ==
  ASSUME AccessInv, NEW u \in User, NEW kept
  PROVE  /\ RevokeUserSessions(u, kept) \in [Session -> SessionRow]
         /\ \A s \in Session :
              \/ /\ RevokeUserSessions(u, kept)[s] = sessions[s]
                 /\ sessions[s].state = "live" => sessions[s].user # u \/ s \in kept
              \/ RevokeUserSessions(u, kept)[s].state = "revoked"
<1>1. ClosedSession("revoked") \in SessionRow /\ ClosedSession("revoked").state = "revoked"
  BY SomeUser DEF ClosedSession, SessionRow, SessionState, Passwords
<1> QED
  BY <1>1 DEF RevokeUserSessions, AccessInv, TypeOK

LEMMA CodeSteps ==
  ASSUME AccessInv,
         \/ \E r \in Request, u \in User, purpose \in Purpose, c \in Code :
              IssueCode(r, u, purpose, c)
         \/ \E r \in Request, c \in Code : IssueReset(r, c)
         \/ \E c \in Code : CodeExpires(c)
  PROVE  AccessInv'
<1>1. ASSUME NEW r \in Request, NEW u \in User, NEW purpose \in Purpose, NEW c \in Code,
             IssueCode(r, u, purpose, c)
      PROVE  AccessInv'
  <2>1. \A d \in Code : d \in LiveCodes(u, purpose) => codes[d].state = "live"
    BY DEF LiveCodes
  <2>2. codes' \in [Code -> CodeRow] /\ CodesMove /\ SpentIsBlank'
    BY <1>1, <2>1, Issued DEF IssueCode
  <2> QED
    BY <1>1, <2>2, CodesStep DEF IssueCode
<1>2. ASSUME NEW r \in Request, NEW c \in Code, IssueReset(r, c)
      PROVE  AccessInv'
  <2> DEFINE q == request[r]
             old == {d \in q.superseded : codes[d].state = "live"}
  <2>1. q \in RequestState /\ q.step = "resetting"
    BY <1>2 DEF AccessInv, TypeOK, IssueReset
  <2>2. q.user \in User
    BY <2>1 DEF RequestState, Idle
  <2>3. \A d \in Code : d \in old => codes[d].state = "live"
    OBVIOUS
  <2>4. codes' = IssuedOver(old, q.user, "PASSWORD_RESET", c) /\ codes[c].state = "unissued"
    BY <1>2 DEF IssueReset
  <2>5. "PASSWORD_RESET" \in Purpose
    BY DEF Purpose
  <2> HIDE DEF q, old
  <2>6. codes' \in [Code -> CodeRow] /\ CodesMove /\ SpentIsBlank'
    BY <2>2, <2>3, <2>4, <2>5, Issued
  <2> QED
    BY <1>2, <2>6, CodesStep DEF IssueReset
<1>3. ASSUME NEW c \in Code, CodeExpires(c)
      PROVE  AccessInv'
  <2>1. codes[c].user \in User
    BY DEF AccessInv, TypeOK, CodeRow
  <2>2. SpentCode("dead") \in CodeRow /\ SpentCode("dead").state = "dead"
    BY <2>1, SomeUser DEF SpentCode, CodeRow, CodeState, Purpose
  <2>3. codes' \in [Code -> CodeRow]
    BY <1>3, <2>2 DEF AccessInv, TypeOK, CodeExpires
  <2>4. CodesMove
    BY <1>3, <2>2 DEF AccessInv, TypeOK, CodeExpires, CodesMove
  <2>5. SpentIsBlank'
    BY <1>3, <2>2 DEF AccessInv, TypeOK, CodeExpires, SpentIsBlank, SpentCode
  <2> QED
    BY <1>3, <2>3, <2>4, <2>5, CodesStep DEF CodeExpires
<1> QED
  BY <1>1, <1>2, <1>3

LEMMA SessionSteps ==
  ASSUME AccessInv,
         \/ \E r \in Request : LoadIdentity(r) \/ Logout(r)
         \/ \E s \in Session : EndSession(s)
  PROVE  AccessInv'
<1>1. ASSUME NEW r \in Request, LoadIdentity(r)
      PROVE  AccessInv'
  <2> DEFINE q == request[r]
             n == [step |-> "acting", session |-> q.session, user |-> q.user,
                   roles |-> roles[q.user]]
  <2>1. q \in RequestState /\ Knows(q)
    BY DEF AccessInv, TypeOK, RequestsKnow
  <2>2. q.step = "resolving" /\ q.session \in Session /\ q.user \in User
    BY <1>1, <2>1 DEF LoadIdentity, RequestState, Idle
  <2>3. CASE roles[q.user] = {}
    BY <1>1, <2>2, <2>3, ClosingStep DEF LoadIdentity
  <2>4. CASE roles[q.user] # {}
    <3>1. n \in RequestState
      BY <2>2 DEF RequestState, AccessInv, TypeOK
    <3>2. Knows(n)
      BY <2>1, <2>2 DEF Knows
    <3>3. request' = [request EXCEPT ![r] = n] /\ UNCHANGED <<users, roles, codes, sessions, failures>>
      BY <1>1, <2>4 DEF LoadIdentity
    <3> HIDE DEF n
    <3> QED
      BY <3>1, <3>2, <3>3, RequestStep DEF AccessInv, TypeOK
  <2> QED
    BY <2>3, <2>4
<1>2. ASSUME NEW r \in Request, Logout(r)
      PROVE  AccessInv'
  <2>1. request[r].session \in Session
    BY <1>2 DEF Logout, AccessInv, TypeOK, RequestState, Idle
  <2> QED
    BY <1>2, <2>1, ClosingStep DEF Logout
<1>3. CASE \E s \in Session : EndSession(s)
  BY <1>3, ClosingStep DEF EndSession
<1> QED
  BY <1>1, <1>2, <1>3

\* Steps that change roles or the limiter only.
LEMMA RoleSteps ==
  ASSUME AccessInv,
         \/ \E r \in Request, u \in User, role \in Role : GrantRole(r, u, role)
         \/ \E r \in Request : RevokeRole(r)
         \/ \E u \in User : LimiterWindowEnds(u)
  PROVE  AccessInv'
<1>1. /\ UNCHANGED <<users, codes, sessions>>
      /\ \/ \E r \in Request : request' = [request EXCEPT ![r] = Idle]
         \/ request' = request
  BY DEF GrantRole, RevokeRole, LimiterWindowEnds
<1>2. roles' \in [User -> SUBSET Role] /\ failures' \in [User -> Nat]
  <2>1. CASE \E r \in Request, u \in User, role \in Role : GrantRole(r, u, role)
    BY <2>1 DEF AccessInv, TypeOK, GrantRole
  <2>2. CASE \E r \in Request : RevokeRole(r)
    BY <2>2 DEF AccessInv, TypeOK, RevokeRole
  <2>3. CASE \E u \in User : LimiterWindowEnds(u)
    BY <2>3 DEF AccessInv, TypeOK, LimiterWindowEnds
  <2> QED
    BY <2>1, <2>2, <2>3
<1>3. Moves
  BY <1>1 DEF Moves, UsersMove, SessionsMove, CodesMove, Activated
<1>4. PasswordMatchesStatus' /\ SpentIsBlank' /\ SessionsOfActivated' /\ SessionsEndWithCredentials'
  BY <1>1 DEF AccessInv, TypeOK, PasswordMatchesStatus, SpentIsBlank, SessionsOfActivated,
              SessionsEndWithCredentials, Activated
<1> QED
  BY <1>1, <1>2, <1>3, <1>4, WriteStep DEF AccessInv, TypeOK

\* Status and password of every account stay, and so does every session.
LEMMA AttemptSteps ==
  ASSUME AccessInv,
         (\E r \in Request : LoginFails(r)) \/ (\E u \in User : LockEnds(u))
  PROVE  AccessInv'
<1>1. \A r \in Request : LoginFails(r) => request[r].user \in User
  BY DEF AccessInv, TypeOK, LoginFails, RequestState, Idle
<1>2. /\ UNCHANGED <<roles, codes, sessions>>
      /\ \/ \E r \in Request : request' = [request EXCEPT ![r] = Idle]
         \/ request' = request
  BY DEF LoginFails, LockEnds
<1>3. users' \in [User -> UserRow] /\ failures' \in [User -> Nat]
  <2>1. ASSUME NEW r \in Request, LoginFails(r)
        PROVE  users' \in [User -> UserRow] /\ failures' \in [User -> Nat]
    <3> DEFINE u == request[r].user
    <3>1. /\ u \in User /\ users \in [User -> UserRow] /\ users[u] \in UserRow
          /\ failures \in [User -> Nat] /\ failures[u] + 1 \in Nat
      BY <1>1, <2>1 DEF AccessInv, TypeOK
    <3>2. failures' = [failures EXCEPT ![u] = failures[u] + 1]
      BY <2>1 DEF LoginFails
    <3> DEFINE f == IF users[u].failed < MaxFailedLogins THEN users[u].failed + 1 ELSE users[u].failed
               l == users[u].locked \/ users[u].failed + 1 >= MaxFailedLogins
    <3>3. users' = [users EXCEPT ![u].failed = f, ![u].locked = l]
      BY <2>1 DEF LoginFails
    <3> HIDE DEF u
    <3>4. failures' \in [User -> Nat]
      BY <3>1, <3>2
    <3>5. f \in 0..MaxFailedLogins /\ l \in BOOLEAN
      BY <3>1, ConstantAssumption DEF UserRow
    <3> HIDE DEF f, l
    <3>6. users' \in [User -> UserRow]
      BY <3>1, <3>3, <3>5 DEF UserRow
    <3> QED
      BY <3>4, <3>6
  <2>2. CASE \E u \in User : LockEnds(u)
    BY <2>2 DEF AccessInv, TypeOK, LockEnds, UserRow
  <2> QED
    BY <2>1, <2>2
<1>4. \A u \in User : users'[u].status = users[u].status /\ users'[u].password = users[u].password
  <2>1. ASSUME NEW r \in Request, LoginFails(r), NEW u \in User
        PROVE  users'[u].status = users[u].status /\ users'[u].password = users[u].password
    BY <1>1, <2>1 DEF AccessInv, TypeOK, UserRow, LoginFails
  <2>2. CASE \E u \in User : LockEnds(u)
    BY <2>2 DEF AccessInv, TypeOK, UserRow, LockEnds
  <2> QED
    BY <2>1, <2>2
<1>5. Moves
  BY <1>2, <1>4 DEF Moves, UsersMove, SessionsMove, CodesMove, Activated
<1>6. PasswordMatchesStatus' /\ SpentIsBlank' /\ SessionsOfActivated' /\ SessionsEndWithCredentials'
  <2>1. PasswordMatchesStatus' /\ SpentIsBlank'
    BY <1>2, <1>4 DEF AccessInv, TypeOK, PasswordMatchesStatus, SpentIsBlank
  <2>2. \A s \in Session : sessions[s].user \in User
    BY DEF AccessInv, TypeOK, SessionRow
  <2> QED
    BY <1>2, <1>4, <2>1, <2>2 DEF AccessInv, SessionsOfActivated, SessionsEndWithCredentials, Activated
<1> QED
  BY <1>2, <1>3, <1>5, <1>6, WriteStep DEF AccessInv, TypeOK

\* Accounts that were absent are invited.  No session is theirs.
LEMMA InvitedStep ==
  ASSUME AccessInv, NEW r \in Request, NEW file \in SUBSET User,
         \A u \in file : users[u].status = "ABSENT",
         users' = [u \in User |-> IF u \in file THEN [users[u] EXCEPT !.status = "INVITED"]
                                                ELSE users[u]],
         roles' \in [User -> SUBSET Role],
         codes' \in [Code -> CodeRow], CodesMove, SpentIsBlank',
         request' = [request EXCEPT ![r] = Idle],
         UNCHANGED <<sessions, failures>>
  PROVE  AccessInv'
<1>1. users' \in [User -> UserRow]
  BY DEF AccessInv, TypeOK, UserRow, UserStatus
<1>2. \A u \in User : /\ users'[u].password = users[u].password
                      /\ u \notin file => users'[u].status = users[u].status
                      /\ u \in file => users'[u].status = "INVITED"
  BY DEF AccessInv, TypeOK, UserRow
<1>3. Moves
  BY <1>2 DEF Moves, UsersMove, SessionsMove, Activated
<1>4. PasswordMatchesStatus'
  BY <1>2 DEF AccessInv, TypeOK, PasswordMatchesStatus
<1>5. SessionsOfActivated' /\ SessionsEndWithCredentials'
  <2>1. ASSUME NEW s \in Session, sessions[s].state = "live"
        PROVE  users'[sessions[s].user] = users[sessions[s].user]
    BY <2>1 DEF AccessInv, TypeOK, SessionRow, SessionsOfActivated, Activated
  <2>2. SessionsOfActivated'
    BY <2>1 DEF AccessInv, SessionsOfActivated, Activated
  <2>3. SessionsEndWithCredentials'
    <3> SUFFICES ASSUME NEW s \in Session, sessions[s].state = "live"
                 PROVE  \/ sessions[s].late
                        \/ /\ sessions[s].password = users'[sessions[s].user].password
                           /\ users'[sessions[s].user].status = "ACTIVE"
      BY DEF SessionsEndWithCredentials
    <3>1. \/ sessions[s].late
          \/ /\ sessions[s].password = users[sessions[s].user].password
             /\ users[sessions[s].user].status = "ACTIVE"
      BY DEF AccessInv, SessionsEndWithCredentials
    <3> QED
      BY <2>1, <3>1
  <2> QED
    BY <2>2, <2>3
<1> QED
  BY <1>1, <1>3, <1>4, <1>5, WriteStep DEF AccessInv, TypeOK

LEMMA InvitationSteps ==
  ASSUME AccessInv, NEW r \in Request,
         \/ \E u \in User, granted \in SUBSET Role, c \in Code : CreateUser(r, u, granted, c)
         \/ \E file \in (SUBSET User) \ {{}} : \E codeOf \in [file -> Code] :
              ImportStudents(r, file, codeOf)
  PROVE  AccessInv'
<1>1. ASSUME NEW u \in User, NEW granted \in SUBSET Role, NEW c \in Code,
             CreateUser(r, u, granted, c)
      PROVE  AccessInv'
  <2>1. codes' \in [Code -> CodeRow] /\ CodesMove /\ SpentIsBlank'
    <3>1. "ACTIVATION" \in Purpose
      BY DEF Purpose
    <3> QED
      BY <1>1, <3>1, Issued DEF CreateUser
  <2>2. users' = [v \in User |-> IF v \in {u} THEN [users[v] EXCEPT !.status = "INVITED"]
                                             ELSE users[v]]
    BY <1>1 DEF CreateUser, AccessInv, TypeOK
  <2>3. roles' \in [User -> SUBSET Role]
    BY <1>1 DEF CreateUser, AccessInv, TypeOK
  <2>4. {u} \in SUBSET User /\ \A v \in {u} : users[v].status = "ABSENT"
    BY <1>1 DEF CreateUser
  <2>5. request' = [request EXCEPT ![r] = Idle] /\ UNCHANGED <<sessions, failures>>
    BY <1>1 DEF CreateUser
  <2> QED
    BY <2>1, <2>2, <2>3, <2>4, <2>5, InvitedStep
<1>2. ASSUME NEW file \in (SUBSET User) \ {{}}, NEW codeOf \in [file -> Code],
             ImportStudents(r, file, codeOf)
      PROVE  AccessInv'
  <2> DEFINE Fresh(c) == \E u \in file : codeOf[u] = c
             row(c) == [user |-> CHOOSE u \in file : codeOf[u] = c,
                        purpose |-> "ACTIVATION", state |-> "live"]
  <2>1. codes' = [c \in Code |-> IF Fresh(c) THEN row(c) ELSE codes[c]]
    BY <1>2 DEF ImportStudents
  <2>2. \A c \in Code : Fresh(c) => row(c) \in CodeRow /\ row(c).state = "live"
                                   /\ codes[c].state = "unissued"
    <3> SUFFICES ASSUME NEW c \in Code, Fresh(c)
                 PROVE  row(c) \in CodeRow /\ codes[c].state = "unissued"
      OBVIOUS
    <3>1. (CHOOSE u \in file : codeOf[u] = c) \in User
      OBVIOUS
    <3>2. row(c) \in CodeRow
      BY <3>1 DEF CodeRow, CodeState, Purpose
    <3> QED
      BY <1>2, <3>2 DEF ImportStudents
  <2> HIDE DEF Fresh, row
  <2>3. codes' \in [Code -> CodeRow] /\ CodesMove /\ SpentIsBlank'
    BY <2>1, <2>2 DEF AccessInv, TypeOK, CodesMove, SpentIsBlank
  <2>4. /\ \A u \in file : users[u].status = "ABSENT"
        /\ users' = [u \in User |-> IF u \in file THEN [users[u] EXCEPT !.status = "INVITED"]
                                                    ELSE users[u]]
        /\ request' = [request EXCEPT ![r] = Idle]
        /\ UNCHANGED <<sessions, failures>>
    BY <1>2 DEF ImportStudents
  <2>5. roles' \in [User -> SUBSET Role]
    BY <1>2, ConstantAssumption DEF ImportStudents, AccessInv, TypeOK
  <2> QED
    BY <2>3, <2>4, <2>5, InvitedStep
<1> QED
  BY <1>1, <1>2

\* One account that is activated now gets a new row, and each of its sessions
\* is closed or goes on under the password and status of that row.
LEMMA CredentialsStep ==
  ASSUME AccessInv, NEW r \in Request, NEW u \in User,
         users' \in [User -> UserRow],
         \A v \in User \ {u} : users'[v] = users[v],
         users'[u].status \notin {"ABSENT", "INVITED"},
         users'[u].status = "ACTIVE" => users'[u].password # 0,
         sessions' \in [Session -> SessionRow],
         \A s \in Session :
           \/ sessions'[s] = sessions[s] /\ (sessions[s].state = "live" => sessions[s].user # u)
           \/ sessions'[s].state = "revoked"
           \/ /\ sessions[s].state = "unused" \/ (sessions[s].state = "live" /\ sessions[s].user = u)
              /\ sessions'[s].state = "live" /\ sessions'[s].user = u
              /\ \/ sessions'[s].late
                 \/ sessions'[s].password = users'[u].password /\ users'[u].status = "ACTIVE",
         codes' \in [Code -> CodeRow], CodesMove, SpentIsBlank',
         failures' \in [User -> Nat],
         request' = [request EXCEPT ![r] = Idle],
         UNCHANGED roles
  PROVE  AccessInv'
<1>1. Moves
  <2>1. UsersMove
    BY DEF UsersMove, Activated
  <2>2. SessionsMove
    BY DEF SessionsMove
  <2> QED
    BY <2>1, <2>2 DEF Moves
<1>2. PasswordMatchesStatus'
  BY DEF AccessInv, TypeOK, PasswordMatchesStatus
<1>3. SessionsOfActivated' /\ SessionsEndWithCredentials'
  <2> SUFFICES ASSUME NEW s \in Session, sessions'[s].state = "live"
               PROVE  /\ users'[sessions'[s].user].status \notin {"ABSENT", "INVITED"}
                      /\ \/ sessions'[s].late
                         \/ /\ sessions'[s].password = users'[sessions'[s].user].password
                            /\ users'[sessions'[s].user].status = "ACTIVE"
    BY DEF SessionsOfActivated, SessionsEndWithCredentials, Activated
  <2>1. CASE sessions'[s] = sessions[s] /\ sessions[s].user # u
    <3>1. users'[sessions[s].user] = users[sessions[s].user]
      BY <2>1 DEF AccessInv, TypeOK, SessionRow
    <3> QED
      BY <2>1, <3>1 DEF AccessInv, SessionsOfActivated, SessionsEndWithCredentials, Activated
  <2>2. CASE /\ sessions'[s].user = u
             /\ \/ sessions'[s].late
                \/ sessions'[s].password = users'[u].password /\ users'[u].status = "ACTIVE"
    BY <2>2
  <2> QED
    BY <2>1, <2>2
<1> QED
  BY <1>1, <1>2, <1>3, WriteStep DEF AccessInv, TypeOK

LEMMA SetStatusStep ==
  ASSUME AccessInv, NEW r \in Request, NEW u \in User,
         NEW status \in {"ACTIVE", "SUSPENDED", "DEACTIVATED"}, SetStatus(r, u, status)
  PROVE  AccessInv'
<1>1. users[u] \in UserRow /\ users \in [User -> UserRow]
  BY DEF AccessInv, TypeOK
<1>2. /\ users' \in [User -> UserRow]
      /\ \A v \in User \ {u} : users'[v] = users[v]
      /\ users'[u].status = status
      /\ users'[u].password = users[u].password
  <2>1. \A v \in User \ {u} : users'[v] = users[v]
    BY <1>1 DEF SetStatus, UserRow
  <2>2. users'[u].status = status /\ users'[u].password = users[u].password
    BY <1>1 DEF SetStatus, UserRow
  <2>3. users' \in [User -> UserRow]
    <3>1. status \in UserStatus /\ 0 \in 0..MaxFailedLogins
      BY ConstantAssumption DEF UserStatus
    <3>2. users'[u] \in UserRow
      BY <1>1, <3>1 DEF SetStatus, UserRow
    <3>3. \A v \in User : users'[v] \in UserRow
      BY <1>1, <2>1, <3>2
    <3>4. users' = [v \in User |-> users'[v]]
      BY <1>1 DEF SetStatus
    <3> QED
      BY <3>3, <3>4
  <2> QED
    BY <2>1, <2>2, <2>3
<1>3. status = "ACTIVE" => users[u].password # 0
  BY DEF SetStatus, MaySetStatus
<1>4. sessions' \in [Session -> SessionRow]
  BY Revoked DEF SetStatus, AccessInv, TypeOK
<1>5. ASSUME NEW s \in Session
      PROVE  \/ sessions'[s] = sessions[s] /\ (sessions[s].state = "live" => sessions[s].user # u)
             \/ sessions'[s].state = "revoked"
             \/ /\ sessions[s].state = "unused" \/ (sessions[s].state = "live" /\ sessions[s].user = u)
                /\ sessions'[s].state = "live" /\ sessions'[s].user = u
                /\ \/ sessions'[s].late
                   \/ sessions'[s].password = users'[u].password /\ users'[u].status = "ACTIVE"
  <2>1. CASE status = "ACTIVE"
    <3>1. sessions' = sessions
      BY <2>1 DEF SetStatus
    <3> QED
      BY <1>2, <2>1, <3>1 DEF AccessInv, SessionsEndWithCredentials
  <2>2. CASE status # "ACTIVE"
    <3>1. sessions' = RevokeUserSessions(u, {})
      BY <2>2 DEF SetStatus
    <3> QED
      BY <3>1, Revoked
  <2> QED
    BY <2>1, <2>2
<1>6. codes' \in [Code -> CodeRow] /\ CodesMove /\ SpentIsBlank'
  BY DEF SetStatus, AccessInv, TypeOK, CodesMove, SpentIsBlank
<1>7. /\ failures' \in [User -> Nat]
      /\ request' = [request EXCEPT ![r] = Idle]
      /\ UNCHANGED roles
  BY DEF SetStatus, AccessInv, TypeOK
<1> QED
  BY <1>2, <1>3, <1>4, <1>5, <1>6, <1>7, CredentialsStep

LEMMA LoginStep ==
  ASSUME AccessInv, NEW r \in Request, NEW s \in Session, NEW previous, LoginSucceeds(r, s, previous)
  PROVE  AccessInv'
<1> DEFINE q == request[r]
           u == q.user
           new == [user |-> u, state |-> "live", password |-> q.guess,
                   late |-> \/ q.guess # users[u].password
                            \/ users[u].status # "ACTIVE"]
<1>1. q \in RequestState /\ q.step = "verifying" /\ q.status = "ACTIVE" /\ Knows(q)
  BY DEF AccessInv, TypeOK, RequestsKnow, LoginSucceeds
<1>2. u \in User /\ q.guess \in Password /\ Activated(u)
  BY <1>1 DEF RequestState, Idle, Knows
<1>3. users[u] \in UserRow /\ users \in [User -> UserRow]
  BY <1>2 DEF AccessInv, TypeOK
<1>4. /\ users' \in [User -> UserRow]
      /\ \A v \in User \ {u} : users'[v] = users[v]
      /\ users'[u].status = users[u].status
      /\ users'[u].password = users[u].password
  BY <1>2, <1>3, ConstantAssumption DEF LoginSucceeds, UserRow
<1>5. /\ users[u].status \notin {"ABSENT", "INVITED"}
      /\ users[u].status = "ACTIVE" => users[u].password # 0
  BY <1>2 DEF Activated, AccessInv, TypeOK, PasswordMatchesStatus
<1>6. /\ sessions[s].state = "unused"
      /\ sessions' = [t \in Session |->
           IF t = s THEN new ELSE IF t \in previous THEN ClosedSession("revoked") ELSE sessions[t]]
  BY DEF LoginSucceeds
<1>7. new \in SessionRow
  BY <1>2 DEF SessionRow, SessionState, Passwords
<1>8. ClosedSession("revoked") \in SessionRow /\ ClosedSession("revoked").state = "revoked"
  BY <1>2, SomeUser DEF ClosedSession, SessionRow, SessionState, Passwords
<1>9. sessions' \in [Session -> SessionRow]
  BY <1>6, <1>7, <1>8 DEF AccessInv, TypeOK
<1>10. ASSUME NEW t \in Session
       PROVE  \/ sessions'[t] = sessions[t] /\ (sessions[t].state = "live" => sessions[t].user # u)
              \/ sessions'[t].state = "revoked"
              \/ /\ sessions[t].state = "unused" \/ (sessions[t].state = "live" /\ sessions[t].user = u)
                 /\ sessions'[t].state = "live" /\ sessions'[t].user = u
                 /\ \/ sessions'[t].late
                    \/ sessions'[t].password = users'[u].password /\ users'[u].status = "ACTIVE"
  <2>1. CASE t = s
    <3>1. sessions'[t] = new
      BY <1>6, <2>1
    <3>2. /\ new.state = "live" /\ new.user = u
          /\ \/ new.late
             \/ new.password = users[u].password /\ users[u].status = "ACTIVE"
      OBVIOUS
    <3> HIDE DEF new
    <3> QED
      BY <1>4, <1>6, <2>1, <3>1, <3>2
  <2>2. CASE t # s /\ t \in previous
    BY <1>6, <1>8, <2>2
  <2>3. CASE t # s /\ t \notin previous
    <3>1. sessions'[t] = sessions[t]
      BY <1>6, <2>3
    <3> HIDE DEF u
    <3> QED
      BY <1>4, <3>1 DEF AccessInv, SessionsEndWithCredentials
  <2> QED
    BY <2>1, <2>2, <2>3
<1>11. codes' \in [Code -> CodeRow] /\ CodesMove /\ SpentIsBlank'
  BY DEF LoginSucceeds, AccessInv, TypeOK, CodesMove, SpentIsBlank
<1>12. /\ failures' \in [User -> Nat]
       /\ request' = [request EXCEPT ![r] = Idle]
       /\ UNCHANGED roles
  BY <1>2 DEF LoginSucceeds, AccessInv, TypeOK
<1> HIDE DEF u, q
<1> QED
  BY <1>2, <1>4, <1>5, <1>9, <1>10, <1>11, <1>12, CredentialsStep

LEMMA ChangePasswordStep ==
  ASSUME AccessInv, NEW r \in Request, ChangePassword(r)
  PROVE  AccessInv'
<1> DEFINE q == request[r]
           u == q.user
           x == q.session
           left == RevokeUserSessions(u, {x})
<1>1. q \in RequestState /\ q.step = "rehashing" /\ Knows(q)
  BY DEF AccessInv, TypeOK, RequestsKnow, ChangePassword
<1>2. u \in User /\ x \in Session /\ q.password \in Password
  BY <1>1 DEF RequestState, Idle
<1>3. /\ Activated(u)
      /\ sessions[x].state = "live" => sessions[x].user = u
  BY <1>1 DEF Knows
<1>4. users[u] \in UserRow /\ users \in [User -> UserRow]
  BY <1>2 DEF AccessInv, TypeOK
<1>5. /\ users' \in [User -> UserRow]
      /\ \A v \in User \ {u} : users'[v] = users[v]
      /\ users'[u].status = users[u].status
      /\ users'[u].password = q.password
  BY <1>2, <1>4 DEF ChangePassword, UserRow, Passwords
<1>6. /\ users[u].status \notin {"ABSENT", "INVITED"}
      /\ q.password # 0
  BY <1>2, <1>3, ConstantAssumption DEF Activated
<1>7. /\ left \in [Session -> SessionRow]
      /\ \A s \in Session :
           \/ /\ left[s] = sessions[s]
              /\ sessions[s].state = "live" => sessions[s].user # u \/ s \in {x}
           \/ left[s].state = "revoked"
  BY <1>2, Revoked
<1>8. sessions' = IF left[x].state = "live" THEN [left EXCEPT ![x].password = q.password] ELSE left
  BY DEF ChangePassword
<1> HIDE DEF left
<1>9. sessions' \in [Session -> SessionRow]
  BY <1>2, <1>7, <1>8 DEF SessionRow, Passwords
<1>10. ASSUME NEW s \in Session
       PROVE  \/ sessions'[s] = sessions[s] /\ (sessions[s].state = "live" => sessions[s].user # u)
              \/ sessions'[s].state = "revoked"
              \/ /\ sessions[s].state = "unused" \/ (sessions[s].state = "live" /\ sessions[s].user = u)
                 /\ sessions'[s].state = "live" /\ sessions'[s].user = u
                 /\ \/ sessions'[s].late
                    \/ sessions'[s].password = users'[u].password /\ users'[u].status = "ACTIVE"
  <2>1. CASE left[x].state = "live" /\ s = x
    <3>1. left[x] = sessions[x] /\ sessions[x].user = u
      BY <1>2, <1>3, <1>7, <2>1
    <3>2. /\ sessions'[x].state = "live"
          /\ sessions'[x].user = u
          /\ sessions'[x].late = sessions[x].late
          /\ sessions'[x].password = q.password
      BY <1>2, <1>7, <1>8, <2>1, <3>1 DEF SessionRow
    <3>3. sessions[x].late \/ users[u].status = "ACTIVE"
      BY <1>2, <2>1, <3>1 DEF AccessInv, SessionsEndWithCredentials
    <3> HIDE DEF u, x, q
    <3> QED
      BY <1>5, <2>1, <3>1, <3>2, <3>3
  <2>2. CASE ~(left[x].state = "live" /\ s = x)
    <3>1. sessions'[s] = left[s]
      BY <1>2, <1>7, <1>8, <2>2
    <3> QED
      BY <1>7, <2>2, <3>1
  <2> QED
    BY <2>1, <2>2
<1>11. codes' \in [Code -> CodeRow] /\ CodesMove /\ SpentIsBlank'
  BY DEF ChangePassword, AccessInv, TypeOK, CodesMove, SpentIsBlank
<1>12. /\ failures' \in [User -> Nat]
       /\ request' = [request EXCEPT ![r] = Idle]
       /\ UNCHANGED roles
  BY DEF ChangePassword, AccessInv, TypeOK
<1> HIDE DEF u, x, q
<1> QED
  BY <1>2, <1>5, <1>6, <1>9, <1>10, <1>11, <1>12, CredentialsStep

LEMMA RedeemStep ==
  ASSUME AccessInv, NEW r \in Request, NEW c \in Code, RedeemCode(r, c)
  PROVE  AccessInv'
<1> DEFINE q == request[r]
           u == q.user
           row == [status |-> "ACTIVE", password |-> q.password, failed |-> 0, locked |-> FALSE]
<1>1. q \in RequestState /\ q.step = "redeeming"
  BY DEF AccessInv, TypeOK, RedeemCode
<1>2. u \in User /\ q.password \in Password
  BY <1>1 DEF RequestState, Idle
<1>3. row \in UserRow /\ row.status = "ACTIVE" /\ row.password # 0
  BY <1>2, ConstantAssumption DEF UserRow, UserStatus, Passwords
<1>4. users' = [users EXCEPT ![u] = row]
  BY DEF RedeemCode
<1> HIDE DEF row
<1>5. /\ users' \in [User -> UserRow]
      /\ \A v \in User \ {u} : users'[v] = users[v]
      /\ users'[u] = row
  BY <1>2, <1>3, <1>4 DEF AccessInv, TypeOK
<1>6. sessions' = RevokeUserSessions(u, {})
  BY DEF RedeemCode
<1>7. /\ sessions' \in [Session -> SessionRow]
      /\ \A s \in Session :
           \/ sessions'[s] = sessions[s] /\ (sessions[s].state = "live" => sessions[s].user # u)
           \/ sessions'[s].state = "revoked"
  BY <1>2, <1>6, Revoked
<1>8. codes' \in [Code -> CodeRow] /\ CodesMove /\ SpentIsBlank'
  <2>1. SpentCode("used") \in CodeRow /\ SpentCode("used").state = "used"
    BY <1>2, SomeUser DEF SpentCode, CodeRow, CodeState, Purpose
  <2>2. codes' = [codes EXCEPT ![c] = SpentCode("used")]
    BY DEF RedeemCode
  <2>3. codes[c].state = "live"
    BY DEF RedeemCode, CodeIsGood, LiveCodes
  <2>4. codes' \in [Code -> CodeRow]
    BY <2>1, <2>2 DEF AccessInv, TypeOK
  <2>5. CodesMove
    BY <2>1, <2>2, <2>3 DEF AccessInv, TypeOK, CodesMove
  <2>6. SpentIsBlank'
    BY <2>1, <2>2 DEF AccessInv, TypeOK, SpentIsBlank, SpentCode
  <2> QED
    BY <2>4, <2>5, <2>6
<1>9. /\ failures' \in [User -> Nat]
      /\ request' = [request EXCEPT ![r] = Idle]
      /\ UNCHANGED roles
  BY DEF RedeemCode, AccessInv, TypeOK
<1> HIDE DEF u, q
<1> QED
  BY <1>2, <1>3, <1>5, <1>7, <1>8, <1>9, CredentialsStep

-----------------------------------------------------------------------------
(* The invariant and what follows. *)

LEMMA Initial == Init => AccessInv
<1> SUFFICES ASSUME Init
             PROVE  AccessInv
  OBVIOUS
<1>1. (CHOOSE p \in Password : TRUE) \in Password
  BY ConstantAssumption
<1>2. users \in [User -> UserRow]
  BY <1>1, ConstantAssumption DEF Init, UserRow, UserStatus, Passwords
<1>3. PasswordMatchesStatus
  BY <1>1, ConstantAssumption DEF Init, PasswordMatchesStatus
<1>4. roles \in [User -> SUBSET Role] /\ failures \in [User -> Nat] /\ request \in [Request -> RequestState]
  BY ConstantAssumption DEF Init, RequestState
<1>5. RequestsKnow
  BY DEF Init, RequestsKnow, Knows, Idle
<1>6. SpentIsBlank /\ SessionsOfActivated /\ SessionsEndWithCredentials
  BY DEF Init, SpentIsBlank, SpentCode, SessionsOfActivated, SessionsEndWithCredentials, ClosedSession
<1>7. codes \in [Code -> CodeRow] /\ sessions \in [Session -> SessionRow]
  <2>1. AnyUser \in User
    BY SomeUser, ConstantAssumption
  <2>2. SpentCode("unissued") \in CodeRow
    BY <2>1 DEF SpentCode, CodeRow, CodeState, Purpose
  <2>3. ClosedSession("unused") \in SessionRow
    BY <2>1 DEF ClosedSession, SessionRow, SessionState, Passwords
  <2> QED
    BY <2>2, <2>3 DEF Init
<1> QED
  BY <1>2, <1>3, <1>4, <1>5, <1>6, <1>7 DEF AccessInv, TypeOK

LEMMA Inductive == AccessInv /\ [Next]_vars => AccessInv'
<1> SUFFICES ASSUME AccessInv, [Next]_vars
             PROVE  AccessInv'
  OBVIOUS
<1>1. ASSUME NEW r \in Request, AdminStep(r)
      PROVE  AccessInv'
  BY <1>1, InvitationSteps, SetStatusStep, RoleSteps, ReadSteps, CodeSteps DEF AdminStep
<1>2. ASSUME NEW r \in Request, OwnStep(r)
      PROVE  AccessInv'
  BY <1>2, ReadSteps, SessionSteps, AttemptSteps, LoginStep, ChangePasswordStep, CodeSteps, RedeemStep
     DEF OwnStep
<1>3. CASE TimePasses
  BY <1>3, SessionSteps, CodeSteps, AttemptSteps, RoleSteps DEF TimePasses
<1>4. CASE UNCHANGED vars
  <2>1. TypeOK'
    BY <1>4 DEF vars, AccessInv, TypeOK, PasswordMatchesStatus
  <2>2. RequestsKnow'
    BY <1>4 DEF vars, AccessInv, RequestsKnow, Knows, Activated
  <2>3. SpentIsBlank' /\ SessionsOfActivated' /\ SessionsEndWithCredentials'
    BY <1>4 DEF vars, AccessInv, SpentIsBlank, SessionsOfActivated, SessionsEndWithCredentials, Activated
  <2> QED
    BY <2>1, <2>2, <2>3 DEF AccessInv
<1> QED
  BY <1>1, <1>2, <1>3, <1>4 DEF Next

\* The tables keep their types and CHECKs: nobody is active without a
\* password, and an invited account has none.
THEOREM AccountsConsistent == Spec => [](TypeOK /\ PasswordMatchesStatus)
<1>1. AccessInv => TypeOK /\ PasswordMatchesStatus
  BY DEF AccessInv, TypeOK
<1> QED
  BY <1>1, Initial, Inductive, PTL DEF Spec

\* Whatever ends or changes the credentials of an account signs it out.
THEOREM SessionsCorrect == Spec => []SessionsEndWithCredentials
<1>1. AccessInv => SessionsEndWithCredentials
  BY DEF AccessInv
<1> QED
  BY <1>1, Initial, Inductive, PTL DEF Spec

-----------------------------------------------------------------------------
(* The page of an account. *)

\* The count of revokeRole: an administrator who revokes the role of another
\* finds at least two.
LEMMA TwoAdministrators ==
  ASSUME NEW me \in Administrators, NEW u \in Administrators, u # me
  PROVE  Cardinality(Administrators) > 1
<1>1. IsFiniteSet(Administrators)
  BY FS_Subset, UserAssumption DEF Administrators
<1>2. Cardinality({me} \cup {u}) = 2
  <2>1. IsFiniteSet({me}) /\ Cardinality({me}) = 1
    BY FS_Singleton
  <2> QED
    BY <2>1, FS_AddElement, u \notin {me}
<1>3. {me} \cup {u} \subseteq Administrators /\ Cardinality(Administrators) \in Nat
  BY <1>1, FS_CardinalityType
<1>4. Cardinality({me} \cup {u}) <= Cardinality(Administrators)
  BY <1>1, <1>3, FS_Subset
<1> QED
  BY <1>2, <1>3, <1>4

\* What the page of an account offers an administrator is accepted, and what is
\* accepted is offered, but for the cases named, on every account that is
\* reached.
THEOREM AccountPageCorrect == Spec => []AccountPageFits
<1>1. AccessInv => AccountPageFits
  <2> SUFFICES ASSUME AccessInv, NEW me \in User, NEW u \in User,
                      ActiveAdmin(me), users[u].status # "ABSENT"
               PROVE  /\ \A status \in StatusButtons(me, u) :
                           \/ MaySetStatus(me, u, status)
                           \/ status = "ACTIVE" /\ NeverActivated(u)
                      /\ \A status \in {"ACTIVE", "DEACTIVATED"} \ {users[u].status} :
                           MaySetStatus(me, u, status) => status \in StatusButtons(me, u)
                      /\ \A purpose \in Purpose :
                           u # me => (purpose \in CodeButtons(me, u) <=> MayIssueCode(u, purpose))
                      /\ \A role \in GrantOptions(me, u) :
                           MayGrant(u, role) \/ role \in roles[u]
                      /\ \A role \in Role :
                           /\ MayRevoke(me, u, role) => role \in RevokeButtons(me, u)
                           /\ role \in RevokeButtons(me, u) => MayRevoke(me, u, role)
    BY DEF AccountPageFits
  <2>1. /\ users[u].status \in {"INVITED", "ACTIVE", "SUSPENDED", "DEACTIVATED"}
        /\ users[u].status = "INVITED" => users[u].password = 0
    BY DEF AccessInv, TypeOK, UserRow, UserStatus, PasswordMatchesStatus
  <2>2. \A status \in StatusButtons(me, u) :
          MaySetStatus(me, u, status) \/ (status = "ACTIVE" /\ NeverActivated(u))
    BY DEF StatusButtons, MaySetStatus, NeverActivated
  <2>3. \A status \in {"ACTIVE", "DEACTIVATED"} \ {users[u].status} :
          MaySetStatus(me, u, status) => status \in StatusButtons(me, u)
    BY <2>1 DEF StatusButtons, MaySetStatus
  <2>4. \A purpose \in Purpose :
          u # me => (purpose \in CodeButtons(me, u) <=> MayIssueCode(u, purpose))
    BY <2>1 DEF CodeButtons, MayIssueCode, Purpose
  <2>5. \A role \in GrantOptions(me, u) : MayGrant(u, role) \/ role \in roles[u]
    BY DEF GrantOptions, MayGrant
  <2>6. ASSUME NEW role \in Role
        PROVE  role \in RevokeButtons(me, u) <=> MayRevoke(me, u, role)
    <3>1. role = Admin /\ role \in roles[u] => me \in Administrators /\ u \in Administrators
      BY DEF ActiveAdmin, Administrators
    <3> QED
      BY <3>1, TwoAdministrators DEF RevokeButtons, MayRevoke
  <2> QED
    BY <2>2, <2>3, <2>4, <2>5, <2>6
<1> QED
  BY <1>1, Initial, Inductive, PTL DEF Spec

-----------------------------------------------------------------------------
(* Codes. *)

\* Codes of accounts that are there.
CodesOfKnown ==
  \A c \in Code : codes[c].state = "live" => users[codes[c].user].status # "ABSENT"

AccountsStay == \A u \in User : users[u].status # "ABSENT" => users'[u].status # "ABSENT"
NoReactivation ==
  \A u \in User :
    users[u].status \in {"SUSPENDED", "DEACTIVATED"} => users'[u].status # "ACTIVE"
NoNewCode == \A c \in Code : codes'[c] = codes[c] \/ codes'[c].state # "live"
PasswordsStay == \A u \in User : users'[u].password = users[u].password

\* What a step does to the codes, and to who is there.
CodesGoOn ==
  /\ SpentStaysSpent
  /\ NewCodeReplacesOlder
  /\ AccountsStay
  /\ CodesOfKnown'

LEMMA NoNewCodeGoesOn ==
  ASSUME AccessInv, CodesOfKnown, NoNewCode, SpentStaysSpent, AccountsStay
  PROVE  CodesGoOn
<1>1. NewCodeReplacesOlder
  BY DEF NoNewCode, NewCodeReplacesOlder, BothUsable
<1>2. CodesOfKnown'
  BY DEF CodesOfKnown, NoNewCode, AccountsStay, AccessInv, TypeOK, CodeRow
<1> QED
  BY <1>1, <1>2 DEF CodesGoOn

\* One code c is issued for u; those of the same purpose are superseded, or had
\* been overlooked.
LEMMA IssuedGoesOn ==
  ASSUME AccessInv, CodesOfKnown, AccountsStay,
         NEW u \in User, NEW p \in Purpose, NEW c \in Code, NEW old,
         codes[c].state = "unissued",
         users'[u].status # "ABSENT",
         \A d \in Code : d \in old => codes[d].state = "live",
         \A d \in Code : /\ codes[d].state = "live" /\ codes[d].user = u
                        /\ codes[d].purpose = p
                        => d \in old \/ OverlookedByReset(d),
         codes' = IssuedOver(old, u, p, c)
  PROVE  CodesGoOn
<1>1. SpentStaysSpent
  BY DEF SpentStaysSpent, IssuedOver
<1>2. codes'[c] = [user |-> u, purpose |-> p, state |-> "live"]
  BY DEF IssuedOver
<1>3. \A d \in Code \ {c} :
        IF d \in old THEN codes'[d].state = "dead" ELSE codes'[d] = codes[d]
  BY DEF IssuedOver, SpentCode
<1>4. ASSUME NEW e \in Code, NEW d \in Code, e # d, codes[e].state # "live", BothUsable(e, d)
      PROVE  OverlookedByReset(d)
  <2>1. e = c /\ d # c
    BY <1>3, <1>4 DEF BothUsable
  <2>2. codes[d].state = "live" /\ codes[d].user = u /\ codes[d].purpose = p /\ d \notin old
    BY <1>2, <1>3, <1>4, <2>1 DEF BothUsable
  <2> QED
    BY <2>2
<1>5. NewCodeReplacesOlder
  BY <1>4 DEF NewCodeReplacesOlder
<1>6. CodesOfKnown'
  BY <1>2, <1>3 DEF CodesOfKnown, AccountsStay, AccessInv, TypeOK, CodeRow
<1> QED
  BY <1>1, <1>5, <1>6 DEF CodesGoOn

LEMMA ImportGoesOn ==
  ASSUME AccessInv, CodesOfKnown, NEW r \in Request,
         NEW file \in (SUBSET User) \ {{}}, NEW codeOf \in [file -> Code],
         ImportStudents(r, file, codeOf)
  PROVE  CodesGoOn
<1>1. /\ \A u \in file : users[u].status = "ABSENT"
      /\ \A u \in file : codes[codeOf[u]].state = "unissued"
      /\ \A u, v \in file : codeOf[u] = codeOf[v] => u = v
  BY DEF ImportStudents
<1>2. /\ \A u \in file : users'[u].status = "INVITED"
      /\ \A u \in User \ file : users'[u] = users[u]
  BY DEF ImportStudents, AccessInv, TypeOK, UserRow
<1>3. \A u \in file : codes'[codeOf[u]] =
                        [user |-> u, purpose |-> "ACTIVATION", state |-> "live"]
  BY <1>1 DEF ImportStudents
<1>4. ASSUME NEW u \in file
      PROVE  codes'[codeOf[u]].user = u
  <2>1. codes'[codeOf[u]] = [user |-> u, purpose |-> "ACTIVATION", state |-> "live"]
    BY <1>3
  <2> QED
    BY <2>1
<1>5. \A d \in Code : (\A u \in file : codeOf[u] # d) => codes'[d] = codes[d]
  BY DEF ImportStudents
<1>6. AccountsStay
  BY <1>2 DEF AccountsStay
<1>7. SpentStaysSpent
  <2> SUFFICES ASSUME NEW d \in Code, codes[d].state \in {"used", "dead"}
               PROVE  codes'[d] = codes[d]
    BY DEF SpentStaysSpent
  <2>1. \A u \in file : codeOf[u] # d
    BY <1>1
  <2> QED
    BY <1>5, <2>1
<1>8. CodesOfKnown'
  <2> SUFFICES ASSUME NEW d \in Code, codes'[d].state = "live"
               PROVE  users'[codes'[d].user].status # "ABSENT"
    BY DEF CodesOfKnown
  <2>1. CASE \E u \in file : codeOf[u] = d
    <3>1. PICK u \in file : codeOf[u] = d
      BY <2>1
    <3>2. codes'[d].user = u /\ users'[u].status = "INVITED"
      BY <1>2, <1>4, <3>1
    <3> QED
      BY <3>2
  <2>2. CASE \A u \in file : codeOf[u] # d
    BY <1>5, <1>6, <2>2 DEF CodesOfKnown, AccountsStay, AccessInv, TypeOK, CodeRow
  <2> QED
    BY <2>1, <2>2
<1>9. NewCodeReplacesOlder
  <2> SUFFICES ASSUME NEW e \in Code, NEW d \in Code,
                      e # d, codes[e].state # "live", BothUsable(e, d)
               PROVE  FALSE
    BY DEF NewCodeReplacesOlder
  <2>1. PICK u \in file : codeOf[u] = e
    BY <1>5 DEF BothUsable
  <2>2. codes'[d].user = u
    BY <1>4, <2>1 DEF BothUsable
  <2>3. CASE \E v \in file : codeOf[v] = d
    BY <1>4, <2>1, <2>2, <2>3
  <2>4. CASE \A v \in file : codeOf[v] # d
    BY <1>1, <1>5, <2>2, <2>4 DEF BothUsable, CodesOfKnown
  <2> QED
    BY <2>3, <2>4
<1> QED
  BY <1>6, <1>7, <1>8, <1>9 DEF CodesGoOn

\* Each step that issues a code.
LEMMA IssuingGoesOn ==
  ASSUME AccessInv, CodesOfKnown, NEW r \in Request,
         \/ \E u \in User, granted \in SUBSET Role, c \in Code : CreateUser(r, u, granted, c)
         \/ \E file \in (SUBSET User) \ {{}} : \E codeOf \in [file -> Code] :
              ImportStudents(r, file, codeOf)
         \/ \E u \in User, purpose \in Purpose, c \in Code : IssueCode(r, u, purpose, c)
         \/ \E c \in Code : IssueReset(r, c)
  PROVE  CodesGoOn
<1>1. ASSUME NEW u \in User, NEW granted \in SUBSET Role, NEW c \in Code, CreateUser(r, u, granted, c)
      PROVE  CodesGoOn
  <2>1. users[u].status = "ABSENT" /\ users' = [users EXCEPT ![u].status = "INVITED"]
    BY <1>1 DEF CreateUser
  <2>2. AccountsStay /\ users'[u].status # "ABSENT"
    BY <2>1 DEF AccountsStay, AccessInv, TypeOK, UserRow
  <2>3. \A d \in Code : /\ codes[d].state = "live" /\ codes[d].user = u
                         /\ codes[d].purpose = "ACTIVATION"
                         => d \in {} \/ OverlookedByReset(d)
    BY <2>1 DEF CodesOfKnown
  <2>4. codes[c].state = "unissued" /\ codes' = IssuedOver({}, u, "ACTIVATION", c)
    BY <1>1 DEF CreateUser
  <2>5. "ACTIVATION" \in Purpose
    BY DEF Purpose
  <2>6. \A d \in Code : d \in {} => codes[d].state = "live"
    OBVIOUS
  <2> QED
    BY <2>2, <2>3, <2>4, <2>5, <2>6, IssuedGoesOn
<1>2. ASSUME NEW u \in User, NEW purpose \in Purpose, NEW c \in Code, IssueCode(r, u, purpose, c)
      PROVE  CodesGoOn
  <2>1. AccountsStay /\ users'[u].status # "ABSENT"
    BY <1>2 DEF IssueCode, MayIssueCode, AccountsStay
  <2>2. codes[c].state = "unissued" /\ codes' = IssuedOver(LiveCodes(u, purpose), u, purpose, c)
    BY <1>2 DEF IssueCode
  <2>3. \A d \in Code : d \in LiveCodes(u, purpose) => codes[d].state = "live"
    BY DEF LiveCodes
  <2>4. \A d \in Code : /\ codes[d].state = "live" /\ codes[d].user = u
                         /\ codes[d].purpose = purpose
                         => d \in LiveCodes(u, purpose) \/ OverlookedByReset(d)
    BY DEF LiveCodes
  <2> QED
    BY <2>1, <2>2, <2>3, <2>4, IssuedGoesOn
<1>3. ASSUME NEW c \in Code, IssueReset(r, c)
      PROVE  CodesGoOn
  <2> DEFINE u == request[r].user
             old == {d \in request[r].superseded : codes[d].state = "live"}
  <2>1. request[r].step = "resetting" /\ u \in User /\ users[u].status # "ABSENT"
    BY <1>3 DEF IssueReset, AccessInv, TypeOK, RequestState, Idle, RequestsKnow, Knows, Activated
  <2>2. AccountsStay /\ users'[u].status # "ABSENT"
    BY <1>3, <2>1 DEF IssueReset, AccountsStay
  <2>3. request'[r] = Idle
    BY <1>3 DEF IssueReset, AccessInv, TypeOK
  <2>4. codes[c].state = "unissued" /\ codes' = IssuedOver(old, u, "PASSWORD_RESET", c)
    BY <1>3 DEF IssueReset
  <2>5. "PASSWORD_RESET" \in Purpose
    BY DEF Purpose
  <2>6. \A d \in Code : d \in old => codes[d].state = "live"
    OBVIOUS
  <2>7. \A d \in Code : /\ codes[d].state = "live" /\ codes[d].user = u
                         /\ codes[d].purpose = "PASSWORD_RESET"
                         => d \in old \/ OverlookedByReset(d)
    BY <2>1, <2>3 DEF OverlookedByReset
  <2> HIDE DEF u, old
  <2> QED
    BY <2>1, <2>2, <2>4, <2>5, <2>6, <2>7, IssuedGoesOn
<1> QED
  BY <1>1, <1>2, <1>3, ImportGoesOn

\* The steps that neither set a password nor bring an account back.
UsersGoOn == PasswordsStay /\ AccountsStay /\ NoReactivation

LEMMA UsersKept ==
  ASSUME AccessInv, NEW r \in Request,
         \/ \E u \in User, granted \in SUBSET Role, c \in Code : CreateUser(r, u, granted, c)
         \/ \E file \in (SUBSET User) \ {{}} : \E codeOf \in [file -> Code] :
              ImportStudents(r, file, codeOf)
         \/ LoginFails(r)
         \/ \E s \in Session : \E previous : LoginSucceeds(r, s, previous)
         \/ UNCHANGED users
  PROVE  UsersGoOn
<1> USE DEF AccessInv, TypeOK, UsersGoOn, PasswordsStay, AccountsStay, NoReactivation, UserRow
<1>1. CASE \E u \in User, granted \in SUBSET Role, c \in Code : CreateUser(r, u, granted, c)
  BY <1>1 DEF CreateUser
<1>2. CASE \E file \in (SUBSET User) \ {{}} : \E codeOf \in [file -> Code] :
             ImportStudents(r, file, codeOf)
  BY <1>2 DEF ImportStudents
<1>3. CASE LoginFails(r)
  BY <1>3 DEF LoginFails, RequestState, Idle
<1>4. CASE \E s \in Session : \E previous : LoginSucceeds(r, s, previous)
  BY <1>4 DEF LoginSucceeds, RequestState, Idle
<1>5. CASE UNCHANGED users
  BY <1>5
<1> HIDE DEF AccessInv, TypeOK, UsersGoOn, PasswordsStay, AccountsStay, NoReactivation, UserRow
<1> QED
  BY <1>1, <1>2, <1>3, <1>4, <1>5

\* What CodesAreSpentOnce says of one step.
SpentOnce ==
  /\ SpentStaysSpent
  /\ PasswordChangesWithCause
  /\ NewCodeReplacesOlder
  /\ ReactivatedWithCause

LEMMA GoingOnSpendsOnce ==
  ASSUME CodesGoOn, UsersGoOn
  PROVE  SpentOnce /\ CodesOfKnown'
<1>1. PasswordChangesWithCause
  BY DEF UsersGoOn, PasswordsStay, PasswordChangesWithCause
<1>2. ReactivatedWithCause
  BY DEF UsersGoOn, NoReactivation, ReactivatedWithCause
<1> QED
  BY <1>1, <1>2 DEF CodesGoOn, SpentOnce

\* The three steps that set a password or bring an account back.
LEMMA StatusSpendsOnce ==
  ASSUME AccessInv, CodesOfKnown, NEW r \in Request, NEW u \in User,
         NEW status \in {"ACTIVE", "SUSPENDED", "DEACTIVATED"},
         SetStatus(r, u, status)
  PROVE  SpentOnce /\ CodesOfKnown'
<1>1. /\ users' = [users EXCEPT ![u].status = status, ![u].failed = 0, ![u].locked = FALSE]
      /\ ByAdmin(r) /\ request[r].user # u
      /\ request'[r] = Idle
      /\ codes' = codes
  BY DEF SetStatus, MaySetStatus, AccessInv, TypeOK
<1>2. \A v \in User : /\ users'[v].password = users[v].password
                      /\ users'[v].status = IF v = u THEN status ELSE users[v].status
  BY <1>1 DEF AccessInv, TypeOK, UserRow
<1>3. AccountsStay /\ PasswordChangesWithCause
  BY <1>2 DEF AccountsStay, PasswordChangesWithCause
<1>4. ReactivatedWithCause
  BY <1>1, <1>2 DEF ReactivatedWithCause
<1>5. NoNewCode /\ SpentStaysSpent
  BY <1>1 DEF NoNewCode, SpentStaysSpent
<1> QED
  BY <1>3, <1>4, <1>5, NoNewCodeGoesOn DEF CodesGoOn, SpentOnce

LEMMA OwnerSpendsOnce ==
  ASSUME AccessInv, CodesOfKnown, NEW r \in Request, ChangePassword(r)
  PROVE  SpentOnce /\ CodesOfKnown'
<1>1. request[r].user \in User /\ request[r].step = "rehashing"
  BY DEF AccessInv, TypeOK, ChangePassword, RequestState, Idle
<1>2. codes' = codes /\ request'[r] = Idle
  BY DEF AccessInv, TypeOK, ChangePassword
<1>3. \A u \in User : /\ users'[u].status = users[u].status
                      /\ u # request[r].user => users'[u].password = users[u].password
  BY <1>1 DEF AccessInv, TypeOK, ChangePassword, UserRow
<1>4. PasswordChangesWithCause
  BY <1>1, <1>2, <1>3 DEF PasswordChangesWithCause
<1>5. AccountsStay /\ ReactivatedWithCause
  BY <1>3 DEF AccountsStay, ReactivatedWithCause
<1>6. NoNewCode /\ SpentStaysSpent
  BY <1>2 DEF NoNewCode, SpentStaysSpent
<1> QED
  BY <1>4, <1>5, <1>6, NoNewCodeGoesOn DEF CodesGoOn, SpentOnce

LEMMA RedemptionSpendsOnce ==
  ASSUME AccessInv, CodesOfKnown, NEW r \in Request, NEW c \in Code, RedeemCode(r, c)
  PROVE  SpentOnce /\ CodesOfKnown'
<1>1. /\ request[r].user \in User /\ request[r].step = "redeeming"
      /\ request'[r] = Idle
  BY DEF AccessInv, TypeOK, RedeemCode, RequestState, Idle
<1>2. codes[c].state = "live" /\ codes[c].user = request[r].user
  BY DEF RedeemCode, CodeIsGood, LiveCodes
<1>3. codes'[c].state = "used" /\ \A d \in Code \ {c} : codes'[d] = codes[d]
  BY DEF RedeemCode, SpentCode, AccessInv, TypeOK
<1>4. /\ users'[request[r].user].status = "ACTIVE"
      /\ \A u \in User : u # request[r].user => users'[u] = users[u]
  BY <1>1 DEF AccessInv, TypeOK, RedeemCode
<1>5. PasswordChangesWithCause
  BY <1>2, <1>3, <1>4 DEF PasswordChangesWithCause
<1>6. ReactivatedWithCause
  BY <1>1, <1>4 DEF ReactivatedWithCause
<1>7. AccountsStay
  BY <1>4 DEF AccountsStay
<1>8. NoNewCode /\ SpentStaysSpent
  BY <1>2, <1>3 DEF NoNewCode, SpentStaysSpent
<1> QED
  BY <1>5, <1>6, <1>7, <1>8, NoNewCodeGoesOn DEF CodesGoOn, SpentOnce

LEMMA AdminSpendsOnce ==
  ASSUME AccessInv, CodesOfKnown, NEW r \in Request, AdminStep(r)
  PROVE  SpentOnce /\ CodesOfKnown'
<1>1. CASE \/ \E u \in User, granted \in SUBSET Role, c \in Code : CreateUser(r, u, granted, c)
           \/ \E file \in (SUBSET User) \ {{}} : \E codeOf \in [file -> Code] :
                ImportStudents(r, file, codeOf)
           \/ \E u \in User, purpose \in Purpose, c \in Code : IssueCode(r, u, purpose, c)
  <2>1. CodesGoOn
    BY <1>1, IssuingGoesOn
  <2>2. UsersGoOn
    BY <1>1, UsersKept DEF IssueCode
  <2> QED
    BY <2>1, <2>2, GoingOnSpendsOnce
<1>2. CASE \E u \in User, status \in {"ACTIVE", "SUSPENDED", "DEACTIVATED"} : SetStatus(r, u, status)
  BY <1>2, StatusSpendsOnce
<1>3. CASE UNCHANGED <<users, codes>>
  <2>1. UsersGoOn
    BY <1>3, UsersKept
  <2>2. NoNewCode /\ SpentStaysSpent
    BY <1>3 DEF NoNewCode, SpentStaysSpent
  <2> QED
    BY <2>1, <2>2, NoNewCodeGoesOn, GoingOnSpendsOnce DEF UsersGoOn
<1> QED
  BY <1>1, <1>2, <1>3 DEF AdminStep, GrantRole, CountAdmins, RevokeRole

LEMMA OwnSpendsOnce ==
  ASSUME AccessInv, CodesOfKnown, NEW r \in Request, OwnStep(r)
  PROVE  SpentOnce /\ CodesOfKnown'
<1>1. CASE ChangePassword(r) \/ \E c \in Code : RedeemCode(r, c)
  BY <1>1, OwnerSpendsOnce, RedemptionSpendsOnce
<1>2. CASE \E c \in Code : IssueReset(r, c)
  <2>1. CodesGoOn
    BY <1>2, IssuingGoesOn
  <2>2. UsersGoOn
    BY <1>2, UsersKept DEF IssueReset
  <2> QED
    BY <2>1, <2>2, GoingOnSpendsOnce
<1>3. CASE \/ LoginFails(r)
           \/ \E s \in Session : \E previous : LoginSucceeds(r, s, previous)
           \/ UNCHANGED <<users, codes>>
  <2>1. UsersGoOn
    BY <1>3, UsersKept
  <2>2. codes' = codes
    BY <1>3 DEF LoginFails, LoginSucceeds
  <2>3. NoNewCode /\ SpentStaysSpent
    BY <2>2 DEF NoNewCode, SpentStaysSpent
  <2> QED
    BY <2>1, <2>3, NoNewCodeGoesOn, GoingOnSpendsOnce DEF UsersGoOn
<1> QED
  BY <1>1, <1>2, <1>3 DEF OwnStep, ResolveSession, LoadIdentity, Finish, Logout,
     BeginLogin, VerifyOwnPassword, BeginReset, BeginRedeem

LEMMA TimeSpendsOnce ==
  ASSUME AccessInv, CodesOfKnown, TimePasses \/ UNCHANGED vars
  PROVE  SpentOnce /\ CodesOfKnown'
<1>1. UsersGoOn
  <2>1. CASE \E u \in User : LockEnds(u)
    BY <2>1 DEF LockEnds, AccessInv, TypeOK, UserRow,
       UsersGoOn, PasswordsStay, AccountsStay, NoReactivation
  <2>2. CASE UNCHANGED users
    BY <2>2 DEF UsersGoOn, PasswordsStay, AccountsStay, NoReactivation
  <2> QED
    BY <2>1, <2>2 DEF TimePasses, EndSession, CodeExpires, LimiterWindowEnds, vars
<1>2. NoNewCode /\ SpentStaysSpent
  <2>1. CASE \E c \in Code : CodeExpires(c)
    BY <2>1 DEF CodeExpires, SpentCode, AccessInv, TypeOK, NoNewCode, SpentStaysSpent
  <2>2. CASE UNCHANGED codes
    BY <2>2 DEF NoNewCode, SpentStaysSpent
  <2> QED
    BY <2>1, <2>2 DEF TimePasses, EndSession, LockEnds, LimiterWindowEnds, vars
<1> QED
  BY <1>1, <1>2, NoNewCodeGoesOn, GoingOnSpendsOnce DEF UsersGoOn

\* Codes count once, a new one replaces the older ones but for one issued while
\* a reset was under way, and nothing else replaces a forgotten password or
\* brings an account back, however logins, redemptions, resets and the
\* administrators' steps interleave.
THEOREM CodesCorrect == Spec => CodesAreSpentOnce
<1>1. Init => CodesOfKnown
  BY DEF Init, CodesOfKnown, SpentCode
<1>2. AccessInv /\ CodesOfKnown /\ [Next]_vars => SpentOnce /\ CodesOfKnown'
  BY AdminSpendsOnce, OwnSpendsOnce, TimeSpendsOnce DEF Next
<1>3. Spec => [][SpentOnce]_vars
  BY <1>1, <1>2, Initial, Inductive, PTL DEF Spec
<1> QED
  BY <1>3 DEF CodesAreSpentOnce, SpentOnce

-----------------------------------------------------------------------------
(* Administrators. *)

AdminsStay == \A u \in User : ActiveAdmin(u) => ActiveAdmin(u)'

\* A request that revokes the administrator's role is about somebody else.
RevokesOthers ==
  \A r \in Request :
    request[r].step = "revoking" =>
      /\ request[r].user \in User
      /\ request[r].target \in User
      /\ request[r].role = Admin => request[r].target # request[r].user

LEMMA RevokesOthersInitial == Init => RevokesOthers
  BY DEF Init, RevokesOthers, Idle

LEMMA RevokesOthersInductive == AccessInv /\ RevokesOthers /\ [Next]_vars => RevokesOthers'
<1> SUFFICES ASSUME AccessInv, RevokesOthers, [Next]_vars
             PROVE  RevokesOthers'
  OBVIOUS
<1> USE DEF AccessInv, TypeOK
<1>1. ASSUME NEW r \in Request, NEW u \in User, NEW role \in Role, CountAdmins(r, u, role)
      PROVE  RevokesOthers'
  <2>1. request[r].user \in User
    BY <1>1 DEF CountAdmins, ByAdmin, RequestState, Idle
  <2> QED
    BY <1>1, <2>1 DEF CountAdmins, MayRevoke, RevokesOthers
<1>2. ASSUME NEW r \in Request, AdminStep(r) \/ OwnStep(r),
             ~\E u \in User, role \in Role : CountAdmins(r, u, role)
      PROVE  /\ request'[r].step # "revoking"
             /\ \A q \in Request \ {r} : request'[q] = request[q]
  <2>1. CASE AdminStep(r)
    <3>1. request' = [request EXCEPT ![r] = Idle]
      BY <1>2, <2>1 DEF AdminStep, CreateUser, ImportStudents, SetStatus, GrantRole, RevokeRole,
         IssueCode
    <3> QED
      BY <3>1 DEF Idle
  <2>2. CASE \/ \E s \in Session : ResolveSession(r, s)
             \/ LoadIdentity(r) \/ Finish(r) \/ Logout(r)
    BY <2>2 DEF ResolveSession, LoadIdentity, Finish, Logout, Idle
  <2>3. CASE \/ \E u \in User, guess \in Password : BeginLogin(r, u, guess)
             \/ LoginFails(r)
             \/ \E s \in Session : \E previous : LoginSucceeds(r, s, previous)
    BY <2>3 DEF BeginLogin, LoginFails, LoginSucceeds, Idle
  <2>4. CASE \/ \E new \in Password : VerifyOwnPassword(r, new)
             \/ ChangePassword(r)
             \/ \E u \in User : BeginReset(r, u)
    BY <2>4 DEF VerifyOwnPassword, ChangePassword, BeginReset, Idle
  <2>5. CASE \E c \in Code : IssueReset(r, c)
    <3>1. request' = [request EXCEPT ![r] = Idle]
      BY <2>5 DEF IssueReset
    <3> QED
      BY <3>1 DEF Idle
  <2>6. CASE \/ \E u \in User, purpose \in Purpose, new \in Password :
                  BeginRedeem(r, u, purpose, new)
             \/ \E c \in Code : RedeemCode(r, c)
    BY <2>6 DEF BeginRedeem, RedeemCode, Idle
  <2> HIDE DEF AccessInv, TypeOK
  <2> QED
    BY <1>2, <2>1, <2>2, <2>3, <2>4, <2>5, <2>6 DEF OwnStep
<1>3. ASSUME UNCHANGED request
      PROVE  RevokesOthers'
  BY <1>3 DEF RevokesOthers
<1> QED
  BY <1>1, <1>2, <1>3 DEF RevokesOthers, Next, TimePasses, EndSession, CodeExpires, LockEnds,
     LimiterWindowEnds, vars

\* Nobody stops being an administrator by a step that neither sets a status
\* nor revokes a role.
LEMMA AdminsKept ==
  ASSUME AccessInv, [Next]_vars,
         ~\E r \in Request :
            \/ \E u \in User, status \in {"ACTIVE", "SUSPENDED", "DEACTIVATED"} :
                 SetStatus(r, u, status)
            \/ RevokeRole(r)
  PROVE  AdminsStay
<1> USE DEF AccessInv, TypeOK, UserRow
<1>1. ASSUME NEW r \in Request, NEW u \in User, NEW granted \in SUBSET Role, NEW c \in Code,
             CreateUser(r, u, granted, c)
      PROVE  AdminsStay
  BY <1>1 DEF CreateUser, AdminsStay, ActiveAdmin
<1>2. ASSUME NEW r \in Request, NEW file \in (SUBSET User) \ {{}}, NEW codeOf \in [file -> Code],
             ImportStudents(r, file, codeOf)
      PROVE  AdminsStay
  BY <1>2 DEF ImportStudents, AdminsStay, ActiveAdmin
<1>3. ASSUME NEW r \in Request, NEW u \in User, NEW role \in Role, GrantRole(r, u, role)
      PROVE  AdminsStay
  BY <1>3 DEF GrantRole, AdminsStay, ActiveAdmin
<1>4. ASSUME NEW r \in Request, LoginFails(r)
      PROVE  AdminsStay
  BY <1>4 DEF LoginFails, AdminsStay, ActiveAdmin
<1>5. ASSUME NEW r \in Request, NEW s \in Session, NEW previous, LoginSucceeds(r, s, previous)
      PROVE  AdminsStay
  BY <1>5 DEF LoginSucceeds, AdminsStay, ActiveAdmin
<1>6. ASSUME NEW r \in Request, ChangePassword(r)
      PROVE  AdminsStay
  BY <1>6 DEF ChangePassword, AdminsStay, ActiveAdmin
<1>7. ASSUME NEW r \in Request, NEW c \in Code, RedeemCode(r, c)
      PROVE  AdminsStay
  BY <1>7 DEF RedeemCode, AdminsStay, ActiveAdmin
<1>8. ASSUME NEW u \in User, LockEnds(u)
      PROVE  AdminsStay
  BY <1>8 DEF LockEnds, AdminsStay, ActiveAdmin
<1>9. ASSUME UNCHANGED <<users, roles>>
      PROVE  AdminsStay
  BY <1>9 DEF AdminsStay, ActiveAdmin
<1>10. ASSUME NEW r \in Request, AdminStep(r)
       PROVE  AdminsStay
  <2>1. CASE UNCHANGED <<users, roles>>
    BY <1>9, <2>1
  <2> HIDE DEF AccessInv, TypeOK, UserRow
  <2> QED
    BY <1>1, <1>2, <1>3, <1>10, <2>1 DEF AdminStep, CountAdmins, IssueCode
<1>11. ASSUME NEW r \in Request, OwnStep(r)
       PROVE  AdminsStay
  <2> HIDE DEF AccessInv, TypeOK, UserRow
  <2> QED
    BY <1>4, <1>5, <1>6, <1>7, <1>9, <1>11
       DEF OwnStep, ResolveSession, LoadIdentity, Finish, Logout, BeginLogin,
           VerifyOwnPassword, BeginReset, IssueReset, BeginRedeem
<1> HIDE DEF AccessInv, TypeOK, UserRow
<1> QED
  BY <1>8, <1>9, <1>10, <1>11
     DEF Next, TimePasses, EndSession, CodeExpires, LimiterWindowEnds, vars

\* The last administrator is lost only to a request of somebody who had stopped
\* being one while it was under way, for any number of administrators.
THEOREM AdminsCorrect == Spec => AdminLostOnlyToFormerAdmin
<1> DEFINE Former(r) == /\ request[r].step \in {"acting", "revoking"}
                        /\ request'[r] = Idle
                        /\ ~ActiveAdmin(request[r].user)
           Lost == AdminRemains /\ ~AdminRemains' => \E r \in Request : Former(r)
<1>1. AdminsStay => Lost
  BY DEF AdminsStay, AdminRemains
<1>2. ASSUME AccessInv, NEW r \in Request, NEW u \in User,
             NEW status \in {"ACTIVE", "SUSPENDED", "DEACTIVATED"}, SetStatus(r, u, status)
      PROVE  Lost
  <2>1. PICK me \in User : /\ me = request[r].user /\ me # u
                           /\ request[r].step = "acting" /\ request'[r] = Idle
    BY <1>2 DEF SetStatus, ByAdmin, MaySetStatus, AccessInv, TypeOK, RequestState, Idle
  <2>2. users'[me] = users[me] /\ roles' = roles
    BY <1>2, <2>1 DEF SetStatus, AccessInv, TypeOK
  <2>3. ActiveAdmin(me) => ActiveAdmin(me)'
    BY <2>2 DEF ActiveAdmin
  <2> QED
    BY <2>1, <2>3 DEF AdminRemains
<1>3. ASSUME AccessInv, RevokesOthers, NEW r \in Request, RevokeRole(r)
      PROVE  Lost
  <2>1. /\ request[r].step = "revoking" /\ request'[r] = Idle
        /\ roles' = [roles EXCEPT ![request[r].target] = @ \ {request[r].role}]
        /\ users' = users
    BY <1>3 DEF RevokeRole, AccessInv, TypeOK
  <2>2. PICK me \in User : /\ me = request[r].user
                           /\ request[r].role = Admin => request[r].target # me
    BY <1>3, <2>1 DEF RevokesOthers
  <2>3. Admin \in roles[me] => Admin \in roles'[me]
    <3>1. roles'[me] = IF me = request[r].target THEN roles[me] \ {request[r].role} ELSE roles[me]
      BY <1>3, <2>1 DEF AccessInv, TypeOK
    <3> QED
      BY <2>2, <3>1
  <2>4. ActiveAdmin(me) => ActiveAdmin(me)'
    BY <2>1, <2>3 DEF ActiveAdmin
  <2> QED
    BY <2>1, <2>2, <2>4 DEF AdminRemains
<1>4. AccessInv /\ RevokesOthers /\ [Next]_vars => [Lost]_vars
  <2> HIDE DEF Lost
  <2> QED
    BY <1>1, <1>2, <1>3, AdminsKept
<1>5. Spec => []RevokesOthers
  BY RevokesOthersInitial, RevokesOthersInductive, Initial, Inductive, PTL DEF Spec
<1>6. Spec => [][Lost]_vars
  BY <1>4, <1>5, Initial, Inductive, PTL DEF Spec
<1> QED
  BY <1>6 DEF AdminLostOnlyToFormerAdmin
=============================================================================
