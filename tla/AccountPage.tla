---------------------------- MODULE AccountPage ----------------------------
(***************************************************************************)
(* What the page of one account offers an administrator (AccountDetail),   *)
(* computed from the same rows as the API's checks, by rules of its own.   *)
(***************************************************************************)
EXTENDS Access

\* The buttons that change the status, by the status they ask for.
StatusButtons(me, u) ==
  IF u = me \/ users[u].status = "ABSENT" THEN {}
  ELSE (IF users[u].status = "ACTIVE" THEN {"SUSPENDED"} ELSE {})
       \cup (IF users[u].status \in {"SUSPENDED", "DEACTIVATED"}
               THEN {"ACTIVE"} ELSE {})
       \cup (IF users[u].status # "DEACTIVATED" THEN {"DEACTIVATED"} ELSE {})

\* "New activation code" and "Issue reset code".
CodeButtons(me, u) ==
  CASE u = me                        -> {}
    [] users[u].status = "INVITED"   -> {"ACTIVATION"}
    [] users[u].status = "ACTIVE"    -> {"PASSWORD_RESET"}
    [] OTHER                         -> {}

\* The dialog lists every role of the staff, those held as well.
GrantOptions(me, u) == IF u = me THEN {} ELSE Role \ {Student}

RevokeButtons(me, u) ==
  {role \in roles[u] \ {Student} : ~(u = me /\ role = Admin)}

NeverActivated(u) == users[u].password = 0

\* The page and the API agree on an account that exists, for whoever can
\* administer: an offer is accepted and what is accepted of another's account
\* is offered, but for three things.  Reactivate is offered and refused for an
\* account that was deactivated before it was activated, and no code is offered
\* for it either; a role already held can be chosen and is refused; and the API
\* would suspend an account that is not active.
AccountPageFits ==
  \A me, u \in User :
    ActiveAdmin(me) /\ users[u].status # "ABSENT" =>
      /\ \A status \in StatusButtons(me, u) :
           MaySetStatus(me, u, status) \/ (status = "ACTIVE" /\ NeverActivated(u))
      /\ \A status \in {"ACTIVE", "DEACTIVATED"} \ {users[u].status} :
           MaySetStatus(me, u, status) => status \in StatusButtons(me, u)
      /\ \A purpose \in Purpose :
           u # me => (purpose \in CodeButtons(me, u) <=> MayIssueCode(u, purpose))
      /\ \A role \in GrantOptions(me, u) : MayGrant(u, role) \/ role \in roles[u]
      /\ \A role \in Role :
           /\ MayRevoke(me, u, role) => role \in RevokeButtons(me, u)
           /\ role \in RevokeButtons(me, u) => MayRevoke(me, u, role)
=============================================================================
