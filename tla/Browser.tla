------------------------------ MODULE Browser ------------------------------
(***************************************************************************)
(* The tabs of one browser (lib/api.ts, lib/session.tsx) and the sessions  *)
(* the server opened for it.  The tabs share the session cookie; each has  *)
(* its own idea of who is signed in and its own token for requests that    *)
(* change something.  The server compares the token with the session of    *)
(* the cookie (csrf.js); the client answers a refusal by fetching another  *)
(* token and sending the request again, once.                              *)
(*                                                                         *)
(* A request that changes something is three steps: it is sent, with the   *)
(* cookie and the token of that moment; the server handles it; its answer  *)
(* arrives.  Signing in and out and the fetch of the session are one step. *)
(***************************************************************************)
EXTENDS Naturals

CONSTANTS
  Tab,        \* the tabs
  Account,    \* the people who use this browser
  MaxSession  \* bound on the sessions opened in it

Nobody == "nobody"

ASSUME BrowserAssumption == MaxSession \in Nat /\ Nobody \notin Account

VARIABLES
  owner,    \* the account of each session opened so far
  live,     \* the sessions not ended
  cookie,   \* the session of the cookie; 0 for none
  tab,      \* the account each tab shows and the session of its token
  sent,     \* the request of each tab
  actions   \* what was done: for whom it was meant, as whom it was done

browserVars == <<owner, live, cookie, tab, sent, actions>>

SessionId == 0..MaxSession
Idle == [stage |-> "idle"]

BrowserInit ==
  /\ owner = [s \in 1..MaxSession |-> Nobody]
  /\ live = {}
  /\ cookie = 0
  /\ tab = [t \in Tab |-> [shown |-> Nobody, token |-> 0]]
  /\ sent = [t \in Tab |-> Idle]
  /\ actions = {}

Unopened == {s \in 1..MaxSession : owner[s] = Nobody}
SignedIn == cookie \in live

\* login revokes the session of the cookie that came with it.
SignIn(t, a) ==
  /\ tab[t].shown = Nobody
  /\ \E s \in Unopened :
       /\ owner' = [owner EXCEPT ![s] = a]
       /\ live' = (live \ {cookie}) \cup {s}
       /\ cookie' = s
       /\ tab' = [tab EXCEPT ![t] = [shown |-> a, token |-> s]]
  /\ UNCHANGED <<sent, actions>>

\* The tab signs out whether its request succeeds or not.  A token out of date
\* is renewed and the request sent again, so the session that ends is the one
\* of the cookie.
SignOut(t) ==
  /\ tab[t].shown # Nobody
  /\ tab' = [tab EXCEPT ![t] = [shown |-> Nobody, token |-> 0]]
  /\ \/ live' = live \ {cookie} /\ cookie' = 0
     \/ UNCHANGED <<live, cookie>>
  /\ UNCHANGED <<owner, sent, actions>>

\* By the clock, or by an administrator.
SessionEnds(s) ==
  /\ s \in live
  /\ live' = live \ {s}
  /\ UNCHANGED <<owner, cookie, tab, sent, actions>>

\* fetchSession: the tab follows the cookie, to another account too.  The
\* answer to a cookie that is no good clears it.
RefetchSession(t) ==
  /\ tab' = [tab EXCEPT ![t] =
       IF SignedIn THEN [shown |-> owner[cookie], token |-> cookie]
                   ELSE [shown |-> Nobody, token |-> 0]]
  /\ cookie' = IF SignedIn THEN cookie ELSE 0
  /\ UNCHANGED <<owner, live, sent, actions>>

-----------------------------------------------------------------------------
Send(t) ==
  /\ sent[t].stage = "idle"
  /\ tab[t].shown # Nobody
  /\ sent' = [sent EXCEPT ![t] =
       [stage |-> "sent", meant |-> tab[t].shown, cookie |-> cookie,
        token |-> tab[t].token, retried |-> FALSE]]
  /\ UNCHANGED <<owner, live, cookie, tab, actions>>

\* A defect to be caught: any token of a session of this browser will do.
TokenOfSomeSession(r) == r.token # 0

TokenFits(r) == r.token = r.cookie

\* sessionMiddleware, csrfProtection, requireAuth and the route.
Outcome(r) ==
  IF r.cookie \notin live THEN "signed out"
  ELSE IF TokenFits(r) THEN "done"
  ELSE "refused"

Handle(t) ==
  /\ sent[t].stage = "sent"
  /\ LET r == sent[t]
         outcome == Outcome(r)
     IN  /\ sent' = [sent EXCEPT ![t].stage = outcome]
         /\ actions' = IF outcome = "done"
              THEN actions \cup {[meant |-> r.meant, done |-> owner[r.cookie],
                                  retried |-> r.retried, token |-> r.token]}
              ELSE actions
  /\ UNCHANGED <<owner, live, cookie, tab>>

\* onUnauthorized: the tab signs out and keeps its token.  The answer clears
\* the cookie, also one that was set since the request was sent.
ArriveSignedOut(t) ==
  /\ sent[t].stage = "signed out"
  /\ tab' = [tab EXCEPT ![t].shown = Nobody]
  /\ cookie' = IF sent[t].cookie = 0 THEN cookie ELSE 0
  /\ sent' = [sent EXCEPT ![t] = Idle]
  /\ UNCHANGED <<owner, live, actions>>

ArriveDone(t) ==
  /\ sent[t].stage = "done"
  /\ sent' = [sent EXCEPT ![t] = Idle]
  /\ UNCHANGED <<owner, live, cookie, tab, actions>>

\* refreshCsrf, and the request again, with the cookie there is by now.
Retry(t) ==
  /\ sent[t].stage = "refused"
  /\ ~sent[t].retried /\ SignedIn
  /\ tab' = [tab EXCEPT ![t].token = cookie]
  /\ sent' = [sent EXCEPT ![t] =
       [@ EXCEPT !.stage = "sent", !.cookie = cookie, !.token = cookie,
                 !.retried = TRUE]]
  /\ UNCHANGED <<owner, live, cookie, actions>>

GiveUp(t) ==
  /\ sent[t].stage = "refused"
  /\ sent[t].retried \/ ~SignedIn
  /\ cookie' = IF SignedIn \/ sent[t].retried THEN cookie ELSE 0
  /\ sent' = [sent EXCEPT ![t] = Idle]
  /\ UNCHANGED <<owner, live, tab, actions>>

TabStep(t) ==
  \/ \E a \in Account : SignIn(t, a)
  \/ SignOut(t)
  \/ RefetchSession(t)
  \/ Send(t)
  \/ Handle(t)
  \/ ArriveSignedOut(t)
  \/ ArriveDone(t)
  \/ Retry(t)
  \/ GiveUp(t)

BrowserNext ==
  \/ \E t \in Tab : TabStep(t)
  \/ \E s \in live : SessionEnds(s)

BrowserSpec == BrowserInit /\ [][BrowserNext]_browserVars

-----------------------------------------------------------------------------
\* What is done in a tab is done as the account the tab showed when it was
\* asked for, whoever signs in and out in the other tabs meanwhile.  The
\* exception is a token that came with a retry: that request, and those the
\* tab sends until it fetches its session again, are done as whoever has the
\* cookie.
ActsAsShown ==
  \A a \in actions :
    a.done = a.meant \/ \E b \in actions : b.retried /\ b.token = a.token
=============================================================================
