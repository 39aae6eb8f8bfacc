------------------------------- MODULE Access -------------------------------
(***************************************************************************)
(* Accounts, roles, one-time codes and sessions (accounts.service.js,      *)
(* auth.service.js, middleware/session.js, middleware/rateLimit.js).       *)
(*                                                                         *)
(* A request is broken up where the code gives up the processor or the     *)
(* row: a principal is resolved in two reads and used later; login and     *)
(* redeemCode read the account, spend a while on the password and write;   *)
(* revokeRole counts the administrators and writes; requestPasswordReset   *)
(* has two statements and no lock on the account.  Everything else is one  *)
(* transaction under the account's row lock, hence one action.  A request  *)
(* that is refused has no effect: it goes back to idle by Finish.          *)
(*                                                                         *)
(* A password is a number, 0 for none.  The role of a session, which       *)
(* orients the pages, and the messes of staff roles are in Workspace.      *)
(***************************************************************************)
EXTENDS Naturals, FiniteSets

CONSTANTS
  User,            \* the accounts there may be
  Founder,         \* those that exist, with a password, at the start
  Role,            \* the roles in use
  Request,         \* requests in progress at the same time
  Session,         \* bound on the sessions ever opened
  Code,            \* bound on the codes ever issued
  Password,        \* the passwords people choose
  Forgetful,       \* bound: who may enter a password that is not his
  MaxFailedLogins  \* MAX_FAILED_LOGINS

Admin == "INSTITUTION_ADMIN"
Student == "STUDENT"

ASSUME ConstantAssumption ==
  /\ Founder \subseteq User
  /\ Founder # {}
  /\ Forgetful \subseteq User
  /\ {Admin, Student} \subseteq Role
  /\ Password \subseteq Nat \ {0}
  /\ Password # {}
  /\ MaxFailedLogins \in Nat \ {0}

ASSUME UserAssumption == IsFiniteSet(User)

VARIABLES
  users,     \* the rows of users; "ABSENT" where there is none
  roles,     \* role_assignments not revoked
  codes,     \* account_tokens
  sessions,  \* sessions
  failures,  \* the bucket of the limiter login-identifier
  request    \* what each request has read and not yet written

vars == <<users, roles, codes, sessions, failures, request>>

UserStatus == {"ABSENT", "INVITED", "ACTIVE", "SUSPENDED", "DEACTIVATED"}
Purpose == {"ACTIVATION", "PASSWORD_RESET"}
CodeState == {"unissued", "live", "used", "dead"}  \* dead: replaced or expired
SessionState == {"unused", "live", "revoked"}
Passwords == Password \cup {0}

UserRow == [status : UserStatus, password : Passwords,
            failed : 0..MaxFailedLogins, locked : BOOLEAN]
CodeRow == [user : User, purpose : Purpose, state : CodeState]
\* password is the one the session was opened with or kept under.  late says
\* that the account had changed between the login's read and its insert.
SessionRow == [user : User, state : SessionState, password : Passwords,
               late : BOOLEAN]

Idle == [step |-> "idle"]
RequestState ==
  {Idle}
  \cup [step : {"resolving"}, session : Session, user : User]
  \cup [step : {"acting"}, session : Session, user : User,
        roles : SUBSET Role]
  \cup [step : {"revoking"}, user : User, target : User,
        role : Role \ {Student}]
  \cup [step : {"verifying"}, user : User, guess : Password,
        hash : Passwords, status : UserStatus]
  \cup [step : {"redeeming"}, user : User, purpose : Purpose,
        password : Password]
  \cup [step : {"resetting"}, user : User, superseded : SUBSET Code]
  \cup [step : {"rehashing"}, session : Session, user : User,
        password : Password]

AnyUser == CHOOSE u \in User : TRUE
\* Rows that are never read again lose the columns nobody asks for.
SpentCode(state) ==
  [user |-> AnyUser, purpose |-> "ACTIVATION", state |-> state]
ClosedSession(state) ==
  [user |-> AnyUser, state |-> state, password |-> 0, late |-> FALSE]

Init ==
  /\ users = [u \in User |->
       IF u \in Founder
         THEN [status |-> "ACTIVE", password |-> CHOOSE p \in Password : TRUE,
               failed |-> 0, locked |-> FALSE]
         ELSE [status |-> "ABSENT", password |-> 0,
               failed |-> 0, locked |-> FALSE]]
  /\ roles = [u \in User |-> IF u \in Founder THEN {Admin} ELSE {}]
  /\ codes = [c \in Code |-> SpentCode("unissued")]
  /\ sessions = [s \in Session |-> ClosedSession("unused")]
  /\ failures = [u \in User |-> 0]
  /\ request = [r \in Request |-> Idle]

-----------------------------------------------------------------------------
(* Row locks and helpers. *)

\* SELECT ... FOR UPDATE on the account, held until the request commits.
UserRowFree(u) ==
  \A r \in Request :
    request[r].step = "revoking" => request[r].target # u

LiveCodes(u, p) ==
  {c \in Code : codes[c].user = u /\ codes[c].purpose = p
                /\ codes[c].state = "live"}

\* A defect to be caught: the codes there are stay as they are.
IssuedBeside(old, u, p, c) ==
  [codes EXCEPT ![c] = [user |-> u, purpose |-> p, state |-> "live"]]

\* issueAccountCode: c replaces the unused codes of its purpose.
IssuedOver(old, u, p, c) ==
  [d \in Code |->
     IF d = c THEN [user |-> u, purpose |-> p, state |-> "live"]
     ELSE IF d \in old THEN SpentCode("dead")
     ELSE codes[d]]

\* revokeUserSessions, but for the sessions in kept.
RevokeUserSessions(u, kept) ==
  [s \in Session |->
     IF /\ sessions[s].user = u
        /\ sessions[s].state = "live"
        /\ s \notin kept
       THEN ClosedSession("revoked")
       ELSE sessions[s]]

Administrators == {u \in User : Admin \in roles[u]}
\* Who can sign in and administer.
ActiveAdmin(u) == Admin \in roles[u] /\ users[u].status = "ACTIVE"

-----------------------------------------------------------------------------
(* sessionMiddleware: the session with its account, then the roles. *)

ResolveSession(r, s) ==
  /\ request[r] = Idle
  /\ sessions[s].state = "live"
  /\ users[sessions[s].user].status = "ACTIVE"
  /\ request' = [request EXCEPT ![r] =
       [step |-> "resolving", session |-> s, user |-> sessions[s].user]]
  /\ UNCHANGED <<users, roles, codes, sessions, failures>>

\* A request comes with a session that has expired, at any time by the clock,
\* or whose account is not active: the session is closed.
EndSession(s) ==
  /\ sessions[s].state = "live"
  /\ sessions' = [sessions EXCEPT ![s] = ClosedSession("revoked")]
  /\ UNCHANGED <<users, roles, codes, failures, request>>

LoadIdentity(r) ==
  LET q == request[r] IN
  /\ q.step = "resolving"
  /\ \/ /\ roles[q.user] = {}
        /\ sessions' = [sessions EXCEPT ![q.session] = ClosedSession("revoked")]
        /\ request' = [request EXCEPT ![r] = Idle]
     \/ /\ roles[q.user] # {}
        /\ request' = [request EXCEPT ![r] =
             [step |-> "acting", session |-> q.session, user |-> q.user,
              roles |-> roles[q.user]]]
        /\ UNCHANGED sessions
  /\ UNCHANGED <<users, roles, codes, failures>>

\* The request is refused, fails, or does something that is modelled elsewhere.
Finish(r) ==
  /\ request[r] # Idle
  /\ request' = [request EXCEPT ![r] = Idle]
  /\ UNCHANGED <<users, roles, codes, sessions, failures>>

\* requireRole("INSTITUTION_ADMIN") in front of every route of accounts.
ByAdmin(r) == request[r].step = "acting" /\ Admin \in request[r].roles

-----------------------------------------------------------------------------
(* Administration of accounts: what the API accepts of an administrator,     *)
(* and what it does.                                                         *)

MaySetStatus(me, u, status) ==
  /\ u # me
  /\ users[u].status # "ABSENT"
  /\ status = "ACTIVE" => users[u].password # 0

\* A student's role comes with the profile and stays.
MayGrant(u, role) ==
  users[u].status # "ABSENT" /\ role # Student /\ role \notin roles[u]

\* A defect to be caught: an administrator may remove himself, if there is
\* another, suspended or not.
MayRevokeSelfToo(me, u, role) ==
  /\ role \in roles[u] \ {Student}
  /\ role = Admin => Cardinality(Administrators) > 1

MayRevoke(me, u, role) ==
  /\ role \in roles[u] \ {Student}
  /\ role = Admin => u # me /\ Cardinality(Administrators) > 1

MayIssueCode(u, purpose) ==
  users[u].status = (IF purpose = "ACTIVATION" THEN "INVITED" ELSE "ACTIVE")

CreateUser(r, u, granted, c) ==
  /\ ByAdmin(r)
  /\ users[u].status = "ABSENT"
  /\ granted # {}
  /\ codes[c].state = "unissued"
  /\ users' = [users EXCEPT ![u].status = "INVITED"]
  /\ roles' = [roles EXCEPT ![u] = granted]
  /\ codes' = IssuedOver({}, u, "ACTIVATION", c)
  /\ request' = [request EXCEPT ![r] = Idle]
  /\ UNCHANGED <<sessions, failures>>

\* All rows or none: one name that is taken by now refuses the whole file.
ImportStudents(r, file, codeOf) ==
  /\ ByAdmin(r)
  /\ \A u \in file : users[u].status = "ABSENT"
  /\ \A u \in file : codes[codeOf[u]].state = "unissued"
  /\ \A u, v \in file : codeOf[u] = codeOf[v] => u = v
  /\ users' = [u \in User |-> IF u \in file
                                THEN [users[u] EXCEPT !.status = "INVITED"]
                                ELSE users[u]]
  /\ roles' = [u \in User |-> IF u \in file THEN {Student} ELSE roles[u]]
  /\ codes' = [c \in Code |->
       IF \E u \in file : codeOf[u] = c
         THEN [user |-> CHOOSE u \in file : codeOf[u] = c,
               purpose |-> "ACTIVATION", state |-> "live"]
         ELSE codes[c]]
  /\ request' = [request EXCEPT ![r] = Idle]
  /\ UNCHANGED <<sessions, failures>>

\* A defect to be caught: a suspension leaves the sessions open.
SetStatusKeepingSessions(r, u, status) ==
  /\ ByAdmin(r)
  /\ UserRowFree(u)
  /\ MaySetStatus(request[r].user, u, status)
  /\ users' = [users EXCEPT ![u].status = status, ![u].failed = 0,
                            ![u].locked = FALSE]
  /\ sessions' = IF status = "DEACTIVATED" THEN RevokeUserSessions(u, {})
                 ELSE sessions
  /\ request' = [request EXCEPT ![r] = Idle]
  /\ UNCHANGED <<roles, codes, failures>>

SetStatus(r, u, status) ==
  /\ ByAdmin(r)
  /\ UserRowFree(u)
  /\ MaySetStatus(request[r].user, u, status)
  /\ users' = [users EXCEPT ![u].status = status, ![u].failed = 0,
                            ![u].locked = FALSE]
  /\ sessions' = IF status = "ACTIVE" THEN sessions
                 ELSE RevokeUserSessions(u, {})
  /\ request' = [request EXCEPT ![r] = Idle]
  /\ UNCHANGED <<roles, codes, failures>>

GrantRole(r, u, role) ==
  /\ ByAdmin(r)
  /\ UserRowFree(u)
  /\ MayGrant(u, role)
  /\ roles' = [roles EXCEPT ![u] = @ \cup {role}]
  /\ request' = [request EXCEPT ![r] = Idle]
  /\ UNCHANGED <<users, codes, sessions, failures>>

\* revokeRole up to the count of the administrators.  The lock is on the account
\* of the target only.
CountAdmins(r, u, role) ==
  /\ ByAdmin(r)
  /\ UserRowFree(u)
  /\ MayRevoke(request[r].user, u, role)
  /\ request' = [request EXCEPT ![r] =
       [step |-> "revoking", user |-> request[r].user, target |-> u,
        role |-> role]]
  /\ UNCHANGED <<users, roles, codes, sessions, failures>>

RevokeRole(r) ==
  LET q == request[r] IN
  /\ q.step = "revoking"
  /\ roles' = [roles EXCEPT ![q.target] = @ \ {q.role}]
  /\ request' = [request EXCEPT ![r] = Idle]
  /\ UNCHANGED <<users, codes, sessions, failures>>

IssueCode(r, u, purpose, c) ==
  /\ ByAdmin(r)
  /\ UserRowFree(u)
  /\ MayIssueCode(u, purpose)
  /\ codes[c].state = "unissued"
  /\ codes' = IssuedOver(LiveCodes(u, purpose), u, purpose, c)
  /\ request' = [request EXCEPT ![r] = Idle]
  /\ UNCHANGED <<users, roles, sessions, failures>>

-----------------------------------------------------------------------------
(* Sessions and passwords of one's own. *)

Logout(r) ==
  /\ request[r].step = "acting"
  /\ sessions[request[r].session].state = "live"
  /\ sessions' = [sessions EXCEPT
                    ![request[r].session] = ClosedSession("revoked")]
  /\ request' = [request EXCEPT ![r] = Idle]
  /\ UNCHANGED <<users, roles, codes, failures>>

\* login up to the verification of the password, which takes a while.
BeginLogin(r, u, guess) ==
  /\ request[r] = Idle
  /\ failures[u] < MaxFailedLogins
  /\ users[u].status # "ABSENT"
  /\ ~users[u].locked
  /\ guess = users[u].password \/ u \in Forgetful
  /\ request' = [request EXCEPT ![r] =
       [step |-> "verifying", user |-> u, guess |-> guess,
        hash |-> users[u].password, status |-> users[u].status]]
  /\ UNCHANGED <<users, roles, codes, sessions, failures>>

LoginFails(r) ==
  LET q == request[r] IN
  /\ q.step = "verifying"
  /\ q.guess # q.hash
  /\ UserRowFree(q.user)
  /\ failures' = [failures EXCEPT ![q.user] = @ + 1]
  /\ users' = [users EXCEPT
       ![q.user].failed = IF @ < MaxFailedLogins THEN @ + 1 ELSE @,
       ![q.user].locked = @ \/ users[q.user].failed + 1 >= MaxFailedLogins]
  /\ request' = [request EXCEPT ![r] = Idle]
  /\ UNCHANGED <<roles, codes, sessions>>

\* The session the browser presented, if any, is replaced.
LoginSucceeds(r, s, previous) ==
  LET q == request[r] IN
  /\ q.step = "verifying"
  /\ q.guess = q.hash
  /\ q.status = "ACTIVE"
  /\ roles[q.user] # {}
  /\ UserRowFree(q.user)
  /\ sessions[s].state = "unused"
  /\ sessions' = [t \in Session |->
       IF t = s
         THEN [user |-> q.user, state |-> "live", password |-> q.guess,
               late |-> \/ q.guess # users[q.user].password
                        \/ users[q.user].status # "ACTIVE"]
         ELSE IF t \in previous THEN ClosedSession("revoked")
         ELSE sessions[t]]
  /\ users' = [users EXCEPT ![q.user].failed = 0, ![q.user].locked = FALSE]
  /\ failures' = [failures EXCEPT ![q.user] = 0]
  /\ request' = [request EXCEPT ![r] = Idle]
  /\ UNCHANGED <<roles, codes>>

\* changePassword, once the current password is verified.
VerifyOwnPassword(r, new) ==
  /\ request[r].step = "acting"
  /\ request' = [request EXCEPT ![r] =
       [step |-> "rehashing", session |-> request[r].session,
        user |-> request[r].user, password |-> new]]
  /\ UNCHANGED <<users, roles, codes, sessions, failures>>

ChangePassword(r) ==
  LET q == request[r] IN
  /\ q.step = "rehashing"
  /\ UserRowFree(q.user)
  /\ users' = [users EXCEPT ![q.user].password = q.password]
  /\ sessions' =
       LET left == RevokeUserSessions(q.user, {q.session}) IN
       IF left[q.session].state = "live"
         THEN [left EXCEPT ![q.session].password = q.password]
         ELSE left
  /\ request' = [request EXCEPT ![r] = Idle]
  /\ UNCHANGED <<roles, codes, failures>>

\* requestPasswordReset: the first statement supersedes the codes there are when
\* it begins, the second adds one.  Nothing locks the account: another request
\* at the same time waits at most for the rows that both supersede, and does not
\* see the row that the other adds.
BeginReset(r, u) ==
  /\ request[r] = Idle
  /\ users[u].status = "ACTIVE"
  /\ request' = [request EXCEPT ![r] =
       [step |-> "resetting", user |-> u,
        superseded |-> LiveCodes(u, "PASSWORD_RESET")]]
  /\ UNCHANGED <<users, roles, codes, sessions, failures>>

\* What the update still finds unused, the insert, which waits for the account
\* it refers to, and the commit.
IssueReset(r, c) ==
  LET q   == request[r]
      old == {d \in q.superseded : codes[d].state = "live"}
  IN
  /\ q.step = "resetting"
  /\ UserRowFree(q.user)
  /\ codes[c].state = "unissued"
  /\ codes' = IssuedOver(old, q.user, "PASSWORD_RESET", c)
  /\ request' = [request EXCEPT ![r] = Idle]
  /\ UNCHANGED <<users, roles, sessions, failures>>

\* redeemCode up to the transaction: the status is checked on this read only.
BeginRedeem(r, u, purpose, new) ==
  /\ request[r] = Idle
  /\ users[u].status = (IF purpose = "ACTIVATION" THEN "INVITED" ELSE "ACTIVE")
  /\ request' = [request EXCEPT ![r] =
       [step |-> "redeeming", user |-> u, purpose |-> purpose,
        password |-> new]]
  /\ UNCHANGED <<users, roles, codes, sessions, failures>>

\* A defect to be caught: the code's state is not looked at.
CodeIsKnown(c, q) == codes[c].state # "unissued"

CodeIsGood(c, q) == c \in LiveCodes(q.user, q.purpose)

RedeemCode(r, c) ==
  LET q == request[r] IN
  /\ q.step = "redeeming"
  /\ CodeIsGood(c, q)
  /\ UserRowFree(q.user)
  /\ codes' = [codes EXCEPT ![c] = SpentCode("used")]
  /\ users' = [users EXCEPT ![q.user] =
       [status |-> "ACTIVE", password |-> q.password, failed |-> 0,
        locked |-> FALSE]]
  /\ sessions' = RevokeUserSessions(q.user, {})
  /\ request' = [request EXCEPT ![r] = Idle]
  /\ UNCHANGED <<roles, failures>>

-----------------------------------------------------------------------------
(* Time: each window ends sooner or later. *)

CodeExpires(c) ==
  /\ codes[c].state = "live"
  /\ codes' = [codes EXCEPT ![c] = SpentCode("dead")]
  /\ UNCHANGED <<users, roles, sessions, failures, request>>

\* locked_until passes.  failed_login_count stays.
LockEnds(u) ==
  /\ users[u].locked
  /\ UserRowFree(u)
  /\ users' = [users EXCEPT ![u].locked = FALSE]
  /\ UNCHANGED <<roles, codes, sessions, failures, request>>

LimiterWindowEnds(u) ==
  /\ failures[u] > 0
  /\ failures' = [failures EXCEPT ![u] = 0]
  /\ UNCHANGED <<users, roles, codes, sessions, request>>

-----------------------------------------------------------------------------

AdminStep(r) ==
  \/ \E u \in User, granted \in SUBSET Role, c \in Code :
       CreateUser(r, u, granted, c)
  \/ \E file \in (SUBSET User) \ {{}} : \E codeOf \in [file -> Code] :
       ImportStudents(r, file, codeOf)
  \/ \E u \in User, status \in {"ACTIVE", "SUSPENDED", "DEACTIVATED"} :
       SetStatus(r, u, status)
  \/ \E u \in User, role \in Role :
       GrantRole(r, u, role) \/ CountAdmins(r, u, role)
  \/ RevokeRole(r)
  \/ \E u \in User, purpose \in Purpose, c \in Code :
       IssueCode(r, u, purpose, c)

OwnStep(r) ==
  \/ \E s \in Session : ResolveSession(r, s)
  \/ LoadIdentity(r)
  \/ Finish(r)
  \/ Logout(r)
  \/ \E u \in User, guess \in Password : BeginLogin(r, u, guess)
  \/ LoginFails(r)
  \/ \E s \in Session :
       \E previous \in {{}} \cup {{t} : t \in {x \in Session :
                                          sessions[x].state = "live"}} :
         LoginSucceeds(r, s, previous)
  \/ \E new \in Password : VerifyOwnPassword(r, new)
  \/ ChangePassword(r)
  \/ \E u \in User : BeginReset(r, u)
  \/ \E c \in Code : IssueReset(r, c)
  \/ \E u \in User, purpose \in Purpose, new \in Password :
       BeginRedeem(r, u, purpose, new)
  \/ \E c \in Code : RedeemCode(r, c)

TimePasses ==
  \/ \E s \in Session : EndSession(s)
  \/ \E c \in Code : CodeExpires(c)
  \/ \E u \in User : LockEnds(u) \/ LimiterWindowEnds(u)

Next ==
  \/ \E r \in Request : AdminStep(r) \/ OwnStep(r)
  \/ TimePasses

Spec == Init /\ [][Next]_vars

-----------------------------------------------------------------------------
(* Properties. *)

\* The CHECK of users: nobody is active without a password.  An invited
\* account has none, so it cannot sign in before it is activated; no order of
\* status changes, codes and redemptions makes an update the database refuses.
PasswordMatchesStatus ==
  \A u \in User :
    /\ users[u].status = "ACTIVE" => users[u].password # 0
    /\ users[u].status \in {"ABSENT", "INVITED"} => users[u].password = 0

\* The columns have their types and satisfy the CHECKs of their tables,
\* whatever administrators, logins and codes did at the same time.
TypeOK ==
  /\ users \in [User -> UserRow]
  /\ roles \in [User -> SUBSET Role]
  /\ codes \in [Code -> CodeRow]
  /\ sessions \in [Session -> SessionRow]
  /\ failures \in [User -> Nat]
  /\ request \in [Request -> RequestState]
  /\ PasswordMatchesStatus

\* Suspension, activation, reset and change of a password sign the account
\* out: a session that is still accepted was opened under the password the
\* account has now, while the account was active.  The exception is a login
\* that had read the account before and inserted its session afterwards.
SessionsEndWithCredentials ==
  \A s \in Session : sessions[s].state = "live" =>
    \/ sessions[s].late
    \/ /\ sessions[s].password = users[sessions[s].user].password
       /\ users[sessions[s].user].status = "ACTIVE"

\* What has been used, replaced or has expired never counts again, however many
\* requests present it.
SpentStaysSpent ==
  \A c \in Code : codes[c].state \in {"used", "dead"} => codes'[c] = codes[c]

\* A password changes by a code that was unused until then, or by its owner.
PasswordChangesWithCause ==
  \A u \in User : users'[u].password # users[u].password =>
    \/ \E c \in Code : /\ codes[c].user = u
                       /\ codes[c].state = "live"
                       /\ codes'[c].state = "used"
    \/ \E r \in Request : /\ request[r].step = "rehashing"
                          /\ request[r].user = u
                          /\ request'[r] = Idle

\* Codes c and d of one account and purpose are both usable after the step.
BothUsable(c, d) ==
  /\ codes'[c].state = "live" /\ codes'[d].state = "live"
  /\ codes'[c].user = codes'[d].user
  /\ codes'[c].purpose = codes'[d].purpose

\* The step is the end of a reset that had not seen code d.
OverlookedByReset(d) ==
  \E r \in Request : /\ request[r].step = "resetting"
                     /\ request'[r] = Idle
                     /\ d \notin request[r].superseded

\* A code replaces the unused ones of its purpose; only a reset leaves one, if
\* that was issued after the reset had looked for them.
NewCodeReplacesOlder ==
  \A c, d \in Code :
    c # d /\ codes[c].state # "live" /\ BothUsable(c, d) => OverlookedByReset(d)

\* A suspended account comes back by another administrator, or by a redemption,
\* which read the account before it was suspended.
ReactivatedWithCause ==
  \A u \in User :
    users[u].status \in {"SUSPENDED", "DEACTIVATED"} /\ users'[u].status = "ACTIVE" =>
      \E r \in Request :
        /\ request'[r] = Idle
        /\ \/ ByAdmin(r) /\ request[r].user # u
           \/ request[r].step = "redeeming" /\ request[r].user = u

\* One-time codes, whatever resets, redemptions and administrators do at the
\* same time: each counts once, a new one replaces the older ones but for one
\* issued meanwhile, and nothing else than a code replaces a password its owner
\* has forgotten or takes an account back from a suspension unasked.
CodesAreSpentOnce ==
  [][/\ SpentStaysSpent
     /\ PasswordChangesWithCause
     /\ NewCodeReplacesOlder
     /\ ReactivatedWithCause]_vars

\* Somebody can sign in and administer.
AdminRemains == \E u \in User : ActiveAdmin(u)

\* The checks of setStatus and revokeRole fail in one way only: the last
\* administrator is lost to a request of somebody who had stopped being one
\* while the request was under way.
AdminLostOnlyToFormerAdmin ==
  [][AdminRemains /\ ~AdminRemains' =>
       \E r \in Request : /\ request[r].step \in {"acting", "revoking"}
                          /\ request'[r] = Idle
                          /\ ~ActiveAdmin(request[r].user)]_vars
=============================================================================
