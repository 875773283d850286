------------------------------ MODULE Deployment ------------------------------
(***************************************************************************)
(* A release going out: the Job that migrates the database, the API pods    *)
(* that wait for it, fill an empty database with sample data and serve     *)
(* (migrations/env.py, scripts/wait_for_migrations.py, docker-entrypoint.sh, *)
(* scripts/populate_db.py, k8s/base).                                      *)
(*                                                                         *)
(* Two pods start together (minReplicas of hpa.yaml), and a new Job may run *)
(* while the pod of the one it replaces is still there.  DDL holds its     *)
(* locks until the transaction ends, so that of two migrations one waits.   *)
(* Of the data only the clients and the vehicles with the plates of the    *)
(* sample are kept.                                                        *)
(***************************************************************************)
EXTENDS Schema, FiniteSets

CONSTANTS
  Job,           \* the pods of migration Jobs
  Pod,           \* the API pods of the release
  Person,        \* the clients of the sample
  Plate,         \* the plates of its vehicles, written in populate_db.py
  OwnerOf,       \* whose vehicle each of them is
  Customer,      \* clients that come by themselves
  None,
  BackoffLimit,  \* retries of a Job, 4 in k8s/base/migration-job.yaml
  MaxFailures    \* bound on crashes

ASSUME DeploymentAssumption ==
  /\ Plate # {}
  /\ OwnerOf \in [Plate -> Person]
  /\ (Pod \X Person) \cap Customer = {}
  /\ None \notin (Pod \X Person) \union Customer
  /\ Plate \cap ((Pod \X Person) \union Customer) = {}
  /\ BackoffLimit \in Nat
  /\ MaxFailures \in Nat

Sample(p) == {p} \X Person
Client == (Pod \X Person) \union Customer

VARIABLES
  version, schema,  \* alembic_version and the tables, as committed
  job, txn,         \* where each Job is, and its transaction
  tries,            \* how often it was started
  pod,              \* where each API pod is
  clients,          \* the clients, as committed
  vehicle,          \* whose vehicle has the plate; None where there is none
  failures,         \* history: crashes
  pruned            \* history: the clients and plates deleted over the API

migration == <<version, schema, job, txn, tries>>
rows == <<clients, vehicle, pruned>>
vars == <<migration, pod, rows, failures>>

NoTxn == [at |-> 0, moved |-> FALSE, schema |-> Empty]

\* A new installation, or the database an earlier release left.
Init == /\ version \in Version
        /\ schema \in SchemaAt[version]
        /\ job = [j \in Job |-> "idle"]
        /\ txn = [j \in Job |-> NoTxn]
        /\ tries = [j \in Job |-> 0]
        /\ pod = [p \in Pod |-> "off"]
        /\ clients \in {{}} \union (IF version = 0 THEN {} ELSE {Customer})
        /\ vehicle = [l \in Plate |-> None]
        /\ failures = 0
        /\ pruned = {}

-----------------------------------------------------------------------------
(* Migrations.  All revisions are one transaction (migrations/env.py).      *)

\* alembic downgrade -1, with nothing of the release running.
Revert ==
  /\ version > 0
  /\ \A j \in Job : tries[j] = 0
  /\ \A p \in Pod : pod[p] = "off"
  /\ schema' \in Migrated(schema, Downgrade[version])
  /\ version' = version - 1
  /\ clients' = IF version = 1 THEN {} ELSE clients
  /\ UNCHANGED <<job, txn, tries, pod, vehicle, failures, pruned>>

\* alembic upgrade head reads the version it starts from.
Begin(j) ==
  /\ job[j] = "idle"
  /\ tries[j] <= BackoffLimit
  /\ tries' = [tries EXCEPT ![j] = @ + 1]
  /\ job' = [job EXCEPT ![j] = "running"]
  /\ txn' = [txn EXCEPT ![j] = [NoTxn EXCEPT !.at = version]]
  /\ UNCHANGED <<version, schema, pod, rows, failures>>

\* What the next revision makes of the tables as the transaction sees them.
Results(j) == Migrated(IF txn[j].moved THEN txn[j].schema ELSE schema,
                       Upgrade[txn[j].at + 1])

MayMigrate(j) ==
  /\ job[j] = "running"
  /\ txn[j].at < HeadVersion
  /\ \A k \in Job \ {j} : ~txn[k].moved

\* Mutant: each revision is committed by itself, and the version with the last.
Migrate_CommitsEach(j) ==
  /\ MayMigrate(j)
  /\ \E s \in Results(j) :
       /\ txn' = [txn EXCEPT ![j] = [at |-> @.at + 1, moved |-> TRUE, schema |-> s]]
       /\ schema' = s
  /\ UNCHANGED <<version, job, tries, pod, rows, failures>>

Migrate(j) ==
  /\ MayMigrate(j)
  /\ \E s \in Results(j) :
       txn' = [txn EXCEPT ![j] = [at |-> @.at + 1, moved |-> TRUE, schema |-> s]]
  /\ UNCHANGED <<version, schema, job, tries, pod, rows, failures>>

\* The transaction is rolled back; the kubelet starts the container again.
Abandon(j) ==
  /\ job' = [job EXCEPT ![j] = "idle"]
  /\ txn' = [txn EXCEPT ![j] = NoTxn]
  /\ UNCHANGED <<version, schema, tries, pod, rows>>

\* An operation is refused: another Job has been here since the version was read.
MigrateFails(j) ==
  /\ MayMigrate(j)
  /\ Results(j) = {}
  /\ Abandon(j)
  /\ UNCHANGED failures

CrashJob(j) ==
  /\ job[j] = "running"
  /\ failures < MaxFailures
  /\ failures' = failures + 1
  /\ Abandon(j)

CommitMigration(j) ==
  /\ job[j] = "running"
  /\ txn[j].at = HeadVersion
  /\ \/ txn[j].moved /\ schema' = txn[j].schema /\ version' = HeadVersion
     \/ ~txn[j].moved /\ UNCHANGED <<schema, version>>
  /\ job' = [job EXCEPT ![j] = "complete"]
  /\ txn' = [txn EXCEPT ![j] = NoTxn]
  /\ UNCHANGED <<tries, pod, rows, failures>>

-----------------------------------------------------------------------------
(* An API pod, from its init container to the server.                      *)

Goto(p, place) == pod' = [pod EXCEPT ![p] = place]

Create(p) ==
  /\ pod[p] = "off"
  /\ Goto(p, "waiting")
  /\ UNCHANGED <<migration, rows, failures>>

\* Mutant: any revision will do.
Migrations_Any == version > 0

\* wait_for_migrations: the revision of the database is the head of the image.
Migrations == version = HeadVersion

WaitForMigrations(p) ==
  /\ pod[p] = "waiting"
  /\ Migrations
  /\ Goto(p, "starting")
  /\ UNCHANGED <<migration, rows, failures>>

\* Mutant: the sample data is inserted without a look at what is there.
Count_Unasked(p) ==
  /\ pod[p] = "starting"
  /\ Goto(p, "seeding")
  /\ UNCHANGED <<migration, rows, failures>>

\* populate_database reads how many clients there are.
Count(p) ==
  /\ pod[p] = "starting"
  /\ Goto(p, IF clients = {} THEN "seeding" ELSE "serving")
  /\ UNCHANGED <<migration, rows, failures>>

Free(l) == vehicle[l] = None

\* Both flushes: clients with random documents, vehicles with fixed plates, whose
\* unique key waits for an insert that is not committed yet.
Insert(p) ==
  /\ pod[p] = "seeding"
  /\ \A q \in Pod : pod[q] # "seeded"
  /\ \A l \in Plate : Free(l)
  /\ Goto(p, "seeded")
  /\ UNCHANGED <<migration, rows, failures>>

\* Mutant: the clients stay when the vehicles cannot be inserted.
InsertFails_KeepsClients(p) ==
  /\ pod[p] = "seeding"
  /\ \A q \in Pod : pod[q] # "seeded"
  /\ \E l \in Plate : ~Free(l)
  /\ clients' = clients \union Sample(p)
  /\ Goto(p, "starting")
  /\ UNCHANGED <<migration, vehicle, pruned, failures>>

\* A plate is there already: rollback, the script raises and the entrypoint exits.
\* The container, not the pod, is started again.
InsertFails(p) ==
  /\ pod[p] = "seeding"
  /\ \A q \in Pod : pod[q] # "seeded"
  /\ \E l \in Plate : ~Free(l)
  /\ Goto(p, "starting")
  /\ UNCHANGED <<migration, rows, failures>>

CommitSample(p) ==
  /\ pod[p] = "seeded"
  /\ clients' = clients \union Sample(p)
  /\ vehicle' = [l \in Plate |-> <<p, OwnerOf[l]>>]
  /\ Goto(p, "serving")
  /\ UNCHANGED <<migration, pruned, failures>>

\* The container ends, or the pod with its init container.
CrashPod(p) ==
  /\ pod[p] \in {"starting", "seeding", "seeded", "serving"}
  /\ failures < MaxFailures
  /\ failures' = failures + 1
  /\ Goto(p, "starting") \/ Goto(p, "waiting")
  /\ UNCHANGED <<migration, rows>>

-----------------------------------------------------------------------------
(* Requests to a pod that serves.                                          *)

Serving == \E p \in Pod : pod[p] = "serving"

\* A customer comes; who was deleted does not come back, as a bound.
Register(c) ==
  /\ Serving
  /\ c \notin clients \union pruned
  /\ clients' = clients \union {c}
  /\ UNCHANGED <<migration, pod, vehicle, pruned, failures>>

\* Somebody's vehicle has a plate of the sample.
AddVehicle(c, l) ==
  /\ Serving
  /\ c \in clients
  /\ Free(l) /\ \A q \in Pod : pod[q] # "seeded"
  /\ vehicle' = [vehicle EXCEPT ![l] = c]
  /\ UNCHANGED <<migration, pod, clients, pruned, failures>>

\* The vehicles go with the client.
DeleteClient(c) ==
  /\ Serving
  /\ c \in clients
  /\ clients' = clients \ {c}
  /\ vehicle' = [l \in Plate |-> IF vehicle[l] = c THEN None ELSE vehicle[l]]
  /\ pruned' = pruned \union {c}
  /\ UNCHANGED <<migration, pod, failures>>

DeleteVehicle(l) ==
  /\ Serving
  /\ ~Free(l)
  /\ vehicle' = [vehicle EXCEPT ![l] = None]
  /\ pruned' = pruned \union {l}
  /\ UNCHANGED <<migration, pod, clients, failures>>

-----------------------------------------------------------------------------

JobStep(j) == Begin(j) \/ Migrate(j) \/ MigrateFails(j) \/ CommitMigration(j)

PodStep(p) == \/ WaitForMigrations(p) \/ Count(p)
              \/ Insert(p) \/ InsertFails(p) \/ CommitSample(p)

Next == \/ Revert
        \/ \E j \in Job : JobStep(j) \/ CrashJob(j)
        \/ \E p \in Pod : Create(p) \/ PodStep(p) \/ CrashPod(p)
        \/ \E c \in Customer : Register(c)
        \/ \E c \in Client : DeleteClient(c) \/ \E l \in Plate : AddVehicle(c, l)
        \/ \E l \in Plate : DeleteVehicle(l)

\* Kubernetes starts what it is asked to run, and what failed again.
Fairness == /\ \A j \in Job : WF_vars(JobStep(j))
            /\ \A p \in Pod : WF_vars(PodStep(p))

Spec == Init /\ [][Next]_vars
FairSpec == Spec /\ Fairness
=============================================================================
