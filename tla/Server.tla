------------------------------- MODULE Server -------------------------------
(***************************************************************************)
(* The API processes: their pools of database connections, the requests    *)
(* and the ticks of the scheduler that draw on them, the advisory lock     *)
(* that lets one tick work at a time, and the way a process stops          *)
(* (db.js, scheduler.js, server.js, app.js).                               *)
(*                                                                         *)
(* A request asks for one connection at a time: withTransaction passes its *)
(* own on to every query.  A tick keeps one connection, with the lock, and *)
(* its jobs ask for another.                                               *)
(***************************************************************************)
EXTENDS Naturals, FiniteSets

CONSTANTS
  Instance,   \* the API processes
  Handler,    \* the requests served at the same time
  PoolMax,    \* DB_POOL_MAX
  MaxOutages  \* bound on how often the database goes away

ASSUME ServerAssumption == PoolMax \in Nat \ {0} /\ MaxOutages \in Nat

VARIABLES
  process,  \* each process, from its start to its exit
  tick,     \* what the promise `running` of each process stands for
  job,      \* the connection of the job in the tick
  lock,     \* the process whose tick has the advisory lock, if any
  request,  \* each request: where it is served, and its connection
  dbUp,     \* whether the database answers
  outages   \* how often it did not

serverVars == <<process, tick, job, lock, request, dbUp, outages>>

NoRequest == [at |-> {}, connection |-> "none"]

ServerInit ==
  /\ process = [i \in Instance |-> "up"]
  /\ tick = [i \in Instance |-> "none"]
  /\ job = [i \in Instance |-> "none"]
  /\ lock = {}
  /\ request = [h \in Handler |-> NoRequest]
  /\ dbUp = TRUE
  /\ outages = 0

Served(i) == {h \in Handler : i \in request[h].at}
TickHolds(i) == tick[i] \in {"locking", "jobs"}

InUse(i) ==
  Cardinality({h \in Served(i) : request[h].connection = "held"})
  + Cardinality({x \in {tick[i]} : TickHolds(i)})
  + Cardinality({x \in {job[i]} : x = "held"})

\* pool.connect() resolves; otherwise it rejects after five seconds.
Available(i) == dbUp /\ InUse(i) < PoolMax

-----------------------------------------------------------------------------
(* Requests. *)

Accepts(i) == process[i] \in {"up", "stopping"}

Arrive(h, i) ==
  /\ request[h] = NoRequest
  /\ Accepts(i)
  /\ request' = [request EXCEPT ![h] = [at |-> {i}, connection |-> "waiting"]]
  /\ UNCHANGED <<process, tick, job, lock, dbUp, outages>>

Acquire(h, i) ==
  /\ i \in request[h].at
  /\ request[h].connection = "waiting"
  /\ Available(i)
  /\ request' = [request EXCEPT ![h].connection = "held"]
  /\ UNCHANGED <<process, tick, job, lock, dbUp, outages>>

\* COMMIT or ROLLBACK and release, or the wait for a connection timed out.
Finish(h) ==
  /\ request[h] # NoRequest
  /\ request[h].connection = "waiting" =>
       \A i \in request[h].at : ~Available(i)
  /\ request' = [request EXCEPT ![h] = NoRequest]
  /\ UNCHANGED <<process, tick, job, lock, dbUp, outages>>

-----------------------------------------------------------------------------
(* The scheduler. *)

\* The interval timer; while `running` is set the tick is the one under way.
TimerFires(i) ==
  /\ process[i] = "up"
  /\ tick[i] = "none"
  /\ tick' = [tick EXCEPT ![i] = "connecting"]
  /\ UNCHANGED <<process, job, lock, request, dbUp, outages>>

TickConnects(i) ==
  /\ tick[i] = "connecting"
  /\ Available(i)
  /\ tick' = [tick EXCEPT ![i] = "locking"]
  /\ UNCHANGED <<process, job, lock, request, dbUp, outages>>

\* pool.connect() stands before the try: when it rejects, `running` keeps the
\* rejected promise, and every later tick returns it.
TickCannotConnect(i) ==
  /\ tick[i] = "connecting"
  /\ ~Available(i)
  /\ tick' = [tick EXCEPT ![i] = "rejected"]
  /\ UNCHANGED <<process, job, lock, request, dbUp, outages>>

\* A defect to be caught: the answer of pg_try_advisory_lock is not looked at.
LockIsFreeUnread == TRUE

LockIsFree == lock = {}

\* pg_try_advisory_lock; without it, the tick releases its connection.
TryLock(i) ==
  /\ tick[i] = "locking"
  /\ IF LockIsFree
       THEN tick' = [tick EXCEPT ![i] = "jobs"] /\ lock' = lock \cup {i}
       ELSE tick' = [tick EXCEPT ![i] = "none"] /\ lock' = lock
  /\ UNCHANGED <<process, job, request, dbUp, outages>>

JobAsks(i) ==
  /\ tick[i] = "jobs" /\ job[i] = "none"
  /\ job' = [job EXCEPT ![i] = "waiting"]
  /\ UNCHANGED <<process, tick, lock, request, dbUp, outages>>

JobConnects(i) ==
  /\ job[i] = "waiting"
  /\ Available(i)
  /\ job' = [job EXCEPT ![i] = "held"]
  /\ UNCHANGED <<process, tick, lock, request, dbUp, outages>>

\* A job that failed is logged, and the next one begins.
JobEnds(i) ==
  /\ job[i] = "held" \/ (job[i] = "waiting" /\ ~Available(i))
  /\ job' = [job EXCEPT ![i] = "none"]
  /\ UNCHANGED <<process, tick, lock, request, dbUp, outages>>

\* All jobs are done, or the list of due slots could not be read.
TickEnds(i) ==
  /\ tick[i] = "jobs" /\ job[i] = "none"
  /\ tick' = [tick EXCEPT ![i] = "none"]
  /\ lock' = lock \ {i}
  /\ UNCHANGED <<process, job, request, dbUp, outages>>

TickStep(i) ==
  \/ TimerFires(i)
  \/ TickConnects(i)
  \/ TickCannotConnect(i)
  \/ TryLock(i)
  \/ JobAsks(i)
  \/ JobConnects(i)
  \/ JobEnds(i)
  \/ TickEnds(i)

-----------------------------------------------------------------------------
(* Stops and outages. *)

\* SIGTERM: the timer is cleared, and stopScheduler awaits `running`.
Shutdown(i) ==
  /\ process[i] = "up"
  /\ process' = [process EXCEPT ![i] = "stopping"]
  /\ UNCHANGED <<tick, job, lock, request, dbUp, outages>>

\* A defect to be caught: stopScheduler does not await the tick under way.
TickIsOverUnawaited(i) == tick[i] # "rejected"

\* A rejected promise makes shutdown itself reject: it goes no further.
TickIsOver(i) == tick[i] = "none"

\* server.close: no new connections; and the ten seconds begin.
CloseServer(i) ==
  /\ process[i] = "stopping"
  /\ TickIsOver(i)
  /\ process' = [process EXCEPT ![i] = "closing"]
  /\ UNCHANGED <<tick, job, lock, request, dbUp, outages>>

\* The last request is answered: closePool, and exit(0).
ExitInOrder(i) ==
  /\ process[i] = "closing"
  /\ Served(i) = {}
  /\ process' = [process EXCEPT ![i] = "exited"]
  /\ UNCHANGED <<tick, job, lock, request, dbUp, outages>>

\* exit(1) after ten seconds, or the process is killed: the database ends its
\* sessions, and their locks with them.
Killed(i) ==
  /\ process[i] \in {"up", "stopping", "closing"}
  /\ process' = [process EXCEPT ![i] = "killed"]
  /\ tick' = [tick EXCEPT ![i] = "none"]
  /\ job' = [job EXCEPT ![i] = "none"]
  /\ lock' = lock \ {i}
  /\ request' = [h \in Handler |-> IF h \in Served(i) THEN NoRequest
                                                      ELSE request[h]]
  /\ UNCHANGED <<dbUp, outages>>

Restart(i) ==
  /\ process[i] \in {"exited", "killed"}
  /\ dbUp
  /\ process' = [process EXCEPT ![i] = "up"]
  /\ UNCHANGED <<tick, job, lock, request, dbUp, outages>>

\* Every connection breaks: requests fail, and the ticks that have one end.
DatabaseGoes ==
  /\ dbUp /\ outages < MaxOutages
  /\ dbUp' = FALSE
  /\ outages' = outages + 1
  /\ lock' = {}
  /\ job' = [i \in Instance |-> "none"]
  /\ tick' = [i \in Instance |-> IF TickHolds(i) THEN "none" ELSE tick[i]]
  /\ request' = [h \in Handler |-> IF request[h].connection = "held"
                                     THEN NoRequest ELSE request[h]]
  /\ UNCHANGED process

DatabaseReturns ==
  /\ ~dbUp
  /\ dbUp' = TRUE
  /\ UNCHANGED <<process, tick, job, lock, request, outages>>

ServerNext ==
  \/ \E h \in Handler, i \in Instance : Arrive(h, i) \/ Acquire(h, i)
  \/ \E h \in Handler : Finish(h)
  \/ \E i \in Instance :
       \/ TickStep(i)
       \/ Shutdown(i)
       \/ CloseServer(i)
       \/ ExitInOrder(i)
       \/ Killed(i)
       \/ Restart(i)
  \/ DatabaseGoes
  \/ DatabaseReturns

ServerSpec == ServerInit /\ [][ServerNext]_serverVars

\* The timer fires again and again, connections are granted or refused, and
\* the database returns; requests and jobs end, for their queries do.
ServerFairness ==
  /\ WF_serverVars(DatabaseReturns)
  /\ \A h \in Handler : WF_serverVars(Finish(h))
  /\ \A i \in Instance : WF_serverVars(TickStep(i))

FairServerSpec == ServerSpec /\ ServerFairness

-----------------------------------------------------------------------------
\* Several processes are safe: one tick works at a time, through restarts and
\* outages ("only one instance runs it").
OneTickAtATime ==
  \A i, j \in Instance : tick[i] = "jobs" /\ tick[j] = "jobs" => i = j

\* Graceful shutdown drains: a process that exits in order cuts off neither a
\* request nor a tick.
ExitsCutNothing ==
  [][\A i \in Instance :
       process'[i] = "exited" /\ process[i] # "exited" =>
         Served(i) = {} /\ tick[i] = "none" /\ i \notin lock]_serverVars

\* "jobs/scheduler.js runs every SCHEDULER_INTERVAL_SECONDS inside the API
\* process": a process that stays up goes on ticking.
SchedulerKeepsRunning ==
  \A i \in Instance :
    <>[](process[i] = "up") => []<>(tick[i] = "locking")
=============================================================================
