------------------------------ MODULE Migrator ------------------------------
(***************************************************************************)
(* Schema migrations applied by deployments that may run at the same time, *)
(* from different releases, and die at any step (migrator.js, migrate.js). *)
(* A migration is a version and a checksum; a release is the migrations in *)
(* its files, in order.                                                    *)
(***************************************************************************)
EXTENDS Naturals, Sequences, Functions

CONSTANTS
  Deployment,  \* runs of scripts/migrate.js
  Release      \* sequences of migrations [version, checksum]

Migration == [version : Nat, checksum : STRING]

ASSUME ReleaseAssumption == Release \subseteq Seq(Migration)

VARIABLES
  legacy,  \* the database holds the tables of the old scripts/initDb.js
  ledger,  \* whether schema_migrations exists, and its rows
  schema,  \* the migrations whose statements are committed, in order
  deploy   \* each deployment: its stage, its files and which are pending

migratorVars == <<legacy, ledger, schema, deploy>>

NotDeploying == [stage |-> "idle", files |-> <<>>, pending |-> {}]
NoLedger == [exists |-> FALSE, rows |-> {}]

MigratorInit ==
  /\ legacy \in BOOLEAN
  /\ ledger = NoLedger
  /\ schema = <<>>
  /\ deploy = [d \in Deployment |-> NotDeploying]

-----------------------------------------------------------------------------

HasLock(d) == deploy[d].stage \in {"locked", "applying"}

\* A defect to be caught: no advisory lock.
LockIgnored(d) == ~HasLock(d)

LockFree(d) == \A e \in Deployment : ~HasLock(e)

TakeLock(d, files) ==
  /\ deploy[d].stage \in {"idle", "failed", "done"} /\ LockFree(d)
  /\ deploy' = [deploy EXCEPT ![d] = [stage |-> "locked", files |-> files, pending |-> {}]]
  /\ UNCHANGED <<legacy, ledger, schema>>

\* ensureLedger; also what the readiness probe and db:status do, without the lock.
EnsureLedger ==
  /\ ~(legacy /\ ~ledger.exists)
  /\ ledger' = [ledger EXCEPT !.exists = TRUE]

MigrationStatus ==
  /\ EnsureLedger
  /\ UNCHANGED <<legacy, schema, deploy>>

Row(m) == {row \in ledger.rows : row.version = m.version}
Drift(files) == \E m \in Range(files) : Row(m) \notin {{}, {m}}
Pending(files) == {i \in DOMAIN files : Row(files[i]) = {}}

\* Every deployment that ends releases the lock.
Fail(d) ==
  /\ deploy' = [deploy EXCEPT ![d].stage = "failed", ![d].pending = {}]
  /\ UNCHANGED <<legacy, ledger, schema>>

ReadStatus(d) ==
  /\ deploy[d].stage = "locked"
  /\ EnsureLedger
  /\ ~Drift(deploy[d].files)
  /\ deploy' = [deploy EXCEPT ![d].stage = "applying", ![d].pending = Pending(deploy[d].files)]
  /\ UNCHANGED <<legacy, schema>>

RefuseLegacy(d) ==
  /\ deploy[d].stage = "locked" /\ legacy /\ ~ledger.exists
  /\ Fail(d)

RefuseDrift(d) ==
  /\ deploy[d].stage = "locked" /\ Drift(deploy[d].files)
  /\ Fail(d)

\* One transaction; the version is the primary key of the ledger.
ApplyNext(d, i) ==
  LET m == deploy[d].files[i] IN
  /\ deploy[d].stage = "applying"
  /\ i \in deploy[d].pending /\ \A j \in deploy[d].pending : i <= j
  /\ Row(m) = {}
  /\ schema' = Append(schema, m)
  /\ ledger' = [ledger EXCEPT !.rows = @ \cup {m}]
  /\ deploy' = [deploy EXCEPT ![d].pending = @ \ {i}]
  /\ UNCHANGED legacy

\* A statement fails and is rolled back, or the process dies.
ApplyFails(d) == HasLock(d) /\ Fail(d)

FinishDeployment(d) ==
  /\ deploy[d].stage = "applying" /\ deploy[d].pending = {}
  /\ deploy' = [deploy EXCEPT ![d].stage = "done"]
  /\ UNCHANGED <<legacy, ledger, schema>>

MigratorNext ==
  \/ MigrationStatus
  \/ \E d \in Deployment :
       \/ \E files \in Release : TakeLock(d, files)
       \/ ReadStatus(d) \/ RefuseLegacy(d) \/ RefuseDrift(d)
       \/ \E i \in deploy[d].pending : ApplyNext(d, i)
       \/ ApplyFails(d) \/ FinishDeployment(d)

MigratorSpec == MigratorInit /\ [][MigratorNext]_migratorVars

-----------------------------------------------------------------------------

\* What a deployment is about to apply nobody else has applied meanwhile; its
\* own release may name two files after one version.
PendingIsFree ==
  \A d \in Deployment : deploy[d].stage = "applying" =>
    \A i \in deploy[d].pending :
      \/ Row(deploy[d].files[i]) = {}
      \/ \E j \in 1..i - 1 : Row(deploy[d].files[i]) = {deploy[d].files[j]}

\* What it reports as done is there with the checksums of its own files.
DoneIsApplied ==
  \A d \in Deployment :
    deploy[d].stage = "done" => Range(deploy[d].files) \subseteq ledger.rows

\* The ledger lists what was committed, each version once.
LedgerIsSchema ==
  /\ ledger.rows = Range(schema)
  /\ \A i, j \in DOMAIN schema : schema[i].version = schema[j].version => i = j

\* Deployments of different releases, at the same time and cut off anywhere, do
\* not get in each other's way, and nothing is mixed into a legacy database.
DeploymentsDoNotRace ==
  /\ PendingIsFree
  /\ DoneIsApplied
  /\ LedgerIsSchema
  /\ legacy => schema = <<>>
=============================================================================
