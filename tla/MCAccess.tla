------------------------------ MODULE MCAccess ------------------------------
(***************************************************************************)
(* Instances of Access, with its page, for TLC.                            *)
(***************************************************************************)
EXTENDS AccountPage, TLC

MCRole == {"INSTITUTION_ADMIN", "STUDENT"}

\* The bound on a behaviour: when all codes are issued, and may race each other,
\* no wrong password is being counted and a session is left to open.
AllIssued == \A c \in Code : codes[c].state # "unissued"
AllOpened == \A s \in Session : sessions[s].state # "unused"
Mistyped ==
  \/ \E u \in User : users[u].failed + failures[u] > 0
  \/ \E r \in Request : /\ request[r].step = "verifying"
                        /\ request[r].guess # request[r].hash

MCBound == ~(AllIssued /\ (AllOpened \/ Mistyped))

\* Sessions, codes and requests are interchangeable.
MCSymmetry ==
  Permutations(Session) \cup Permutations(Code) \cup Permutations(Request)
=============================================================================
