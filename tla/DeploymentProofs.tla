--------------------------- MODULE DeploymentProofs ---------------------------
(***************************************************************************)
(* A release going out, for any number of Jobs, pods, clients and plates,   *)
(* and any number of crashes.                                              *)
(***************************************************************************)
EXTENDS DeploymentProperties, TLAPS

-----------------------------------------------------------------------------
(* The sample data: the pods need no lock of their own, because the plates  *)
(* are fixed and their unique key is.                                      *)

\* The samples of two pods, and the customers, are different clients, and each
\* of them can be told from no client.
LEMMA SamplesApart ==
  /\ \A p \in Pod : Sample(p) \cap Customer = {} /\ Sample(p) \subseteq Client
  /\ \A p, q \in Pod : p # q => Sample(p) \cap Sample(q) = {}
  /\ None \notin Client
  /\ \A p \in Pod, l \in Plate : <<p, OwnerOf[l]>> \in Client
BY DeploymentAssumption DEF DeploymentAssumption, Sample, Client

LEMMA SampleInit == Init => SampleInv
<1> SUFFICES ASSUME Init PROVE SampleInv
  OBVIOUS
<1>1. RowsOK
  BY DEF Init, RowsOK, PodPlace, Client
<1>2. OneSeeds
  BY DEF Init, OneSeeds
<1>3. Sampled = {}
  BY SamplesApart DEF Init, Sampled
<1> QED
  BY <1>1, <1>2, <1>3 DEF SampleInv, SampleDataOnce

\* Steps that leave the data alone and let no pod reach its inserts.
LEMMA QuietStep ==
  ASSUME SampleInv, UNCHANGED rows,
         pod' \in [Pod -> PodPlace],
         \A p \in Pod : pod'[p] = "seeded" => pod[p] = "seeded"
  PROVE  SampleInv'
<1>1. UNCHANGED <<clients, vehicle, pruned>>
  BY DEF rows
<1>2. RowsOK'
  BY <1>1 DEF SampleInv, RowsOK
<1>3. OneSeeds'
  BY <1>1 DEF SampleInv, OneSeeds, Free
<1>4. SampleDataOnce'
  BY <1>1 DEF SampleInv, SampleDataOnce, Sampled
<1> QED
  BY <1>2, <1>3, <1>4 DEF SampleInv

\* A pod that goes anywhere but to its inserts, with the data left alone.
LEMMA QuietGoto ==
  ASSUME SampleInv, NEW p \in Pod, NEW place \in PodPlace \ {"seeded"},
         Goto(p, place), UNCHANGED rows
  PROVE  SampleInv'
<1>1. pod' = [pod EXCEPT ![p] = place] /\ pod \in [Pod -> PodPlace]
  BY DEF Goto, SampleInv, RowsOK
<1>2. pod' \in [Pod -> PodPlace]
  BY <1>1
<1>3. \A q \in Pod : pod'[q] = "seeded" => pod[q] = "seeded"
  BY <1>1
<1> QED
  BY <1>2, <1>3, QuietStep

LEMMA MigrationKeepsSample ==
  ASSUME SampleInv, Revert \/ \E j \in Job : JobStep(j) \/ CrashJob(j)
  PROVE  SampleInv'
<1>1. CASE Revert
  <2>1. /\ UNCHANGED <<pod, vehicle, pruned>>
        /\ clients' = {} \/ clients' = clients
    BY <1>1 DEF Revert
  <2>2. CASE clients' = clients
    BY <2>1, <2>2, QuietStep DEF SampleInv, RowsOK, rows
  <2>3. CASE clients' = {}
    <3>1. RowsOK' /\ OneSeeds'
      BY <2>1, <2>3 DEF SampleInv, RowsOK, OneSeeds, Free
    <3>2. Sampled' = {}
      BY <2>3 DEF Sampled
    <3> QED
      BY <3>1, <3>2 DEF SampleInv, SampleDataOnce
  <2> QED
    BY <2>1, <2>2, <2>3
<1>2. ASSUME NEW j \in Job, JobStep(j) \/ CrashJob(j)
      PROVE  SampleInv'
  <2>1. UNCHANGED <<pod, rows>>
    BY <1>2 DEF JobStep, Begin, Migrate, MigrateFails, CrashJob, Abandon, CommitMigration
  <2> QED
    BY <2>1, QuietStep DEF SampleInv, RowsOK
<1> QED
  BY <1>1, <1>2

LEMMA InsertKeepsSample ==
  ASSUME SampleInv, NEW p \in Pod, Insert(p)
  PROVE  SampleInv'
<1>1. /\ \A q \in Pod : pod[q] # "seeded"
      /\ \A l \in Plate : Free(l)
      /\ pod' = [pod EXCEPT ![p] = "seeded"]
      /\ UNCHANGED <<clients, vehicle, pruned>>
  BY DEF Insert, Goto, rows
<1>2. pod \in [Pod -> PodPlace]
  BY DEF SampleInv, RowsOK
<1>3. RowsOK'
  BY <1>1 DEF SampleInv, RowsOK, PodPlace
<1>4. OneSeeds'
  BY <1>1, <1>2 DEF OneSeeds, Free
<1>5. SampleDataOnce'
  BY <1>1 DEF SampleInv, SampleDataOnce, Sampled
<1> QED
  BY <1>3, <1>4, <1>5 DEF SampleInv

LEMMA CommitKeepsSample ==
  ASSUME SampleInv, NEW p \in Pod, CommitSample(p)
  PROVE  SampleInv'
<1>1. /\ pod[p] = "seeded"
      /\ clients' = clients \union Sample(p)
      /\ vehicle' = [l \in Plate |-> <<p, OwnerOf[l]>>]
      /\ pod' = [pod EXCEPT ![p] = "serving"]
      /\ pruned' = pruned
  BY DEF CommitSample, Goto
<1>2. pod \in [Pod -> PodPlace] /\ clients \subseteq Client
  BY DEF SampleInv, RowsOK
<1>3. RowsOK'
  <2>1. pod' \in [Pod -> PodPlace]
    BY <1>1, <1>2 DEF PodPlace
  <2>2. clients' \subseteq Client
    BY <1>1, <1>2, SamplesApart
  <2>3. vehicle' \in [Plate -> Client \union {None}]
    BY <1>1, SamplesApart
  <2> QED
    BY <2>1, <2>2, <2>3 DEF RowsOK
<1>4. OneSeeds'
  <2>1. \A q \in Pod : pod'[q] # "seeded"
    BY <1>1, <1>2 DEF SampleInv, OneSeeds
  <2> QED
    BY <2>1 DEF OneSeeds
<1>5. ASSUME pruned = {}
      PROVE  Sampled = {}
  <2>1. PICK l \in Plate : Free(l)
    BY <1>1, DeploymentAssumption DEF DeploymentAssumption, SampleInv, OneSeeds
  <2> SUFFICES ASSUME NEW q \in Sampled PROVE FALSE
    OBVIOUS
  <2>2. q \in Pod /\ vehicle[l] = <<q, OwnerOf[l]>>
    BY <1>5 DEF SampleInv, SampleDataOnce, Sampled
  <2> QED
    BY <2>1, <2>2, SamplesApart DEF Free
<1>6. SampleDataOnce'
  <2> SUFFICES ASSUME pruned = {}
               PROVE  /\ \A q \in Sampled' : q = p
                      /\ Sample(p) \subseteq clients'
                      /\ \A l \in Plate : vehicle'[l] = <<p, OwnerOf[l]>>
    BY <1>1 DEF SampleDataOnce
  <2>1. \A q \in Sampled' : q = p
    <3> SUFFICES ASSUME NEW q \in Pod, q # p, Sample(q) \cap clients' # {}
                 PROVE  FALSE
      BY DEF Sampled
    <3>1. Sample(q) \cap clients = {}
      BY <1>5 DEF Sampled
    <3> QED
      BY <1>1, <3>1, SamplesApart
  <2> QED
    BY <1>1, <2>1
<1> QED
  BY <1>3, <1>4, <1>6 DEF SampleInv

LEMMA PodKeepsSample ==
  ASSUME SampleInv, NEW p \in Pod, Create(p) \/ PodStep(p) \/ CrashPod(p)
  PROVE  SampleInv'
<1>1. CASE Create(p)
  BY <1>1, QuietGoto DEF Create, PodPlace
<1>2. CASE WaitForMigrations(p)
  BY <1>2, QuietGoto DEF WaitForMigrations, PodPlace
<1>3. CASE Count(p)
  BY <1>3, QuietGoto DEF Count, PodPlace
<1>4. CASE InsertFails(p)
  BY <1>4, QuietGoto DEF InsertFails, PodPlace
<1>5. CASE CrashPod(p)
  BY <1>5, QuietGoto DEF CrashPod, PodPlace
<1> QED
  BY <1>1, <1>2, <1>3, <1>4, <1>5, InsertKeepsSample, CommitKeepsSample DEF PodStep

LEMMA RegisterKeepsSample ==
  ASSUME SampleInv, NEW c \in Customer, Register(c)
  PROVE  SampleInv'
<1>1. clients' = clients \union {c} /\ UNCHANGED <<pod, vehicle, pruned>>
  BY DEF Register
<1>2. RowsOK' /\ OneSeeds'
  BY <1>1 DEF SampleInv, RowsOK, OneSeeds, Free, Client
<1>3. Sampled' = Sampled
  BY <1>1, SamplesApart DEF Sampled
<1>4. SampleDataOnce'
  BY <1>1, <1>3 DEF SampleInv, SampleDataOnce
<1> QED
  BY <1>2, <1>4 DEF SampleInv

LEMMA AddVehicleKeepsSample ==
  ASSUME SampleInv, NEW c \in Client, NEW l \in Plate, AddVehicle(c, l)
  PROVE  SampleInv'
<1>1. /\ vehicle' = [vehicle EXCEPT ![l] = c]
      /\ Free(l) /\ \A q \in Pod : pod[q] # "seeded"
      /\ UNCHANGED <<pod, clients, pruned>>
  BY DEF AddVehicle
<1>2. RowsOK' /\ OneSeeds'
  BY <1>1 DEF SampleInv, RowsOK, OneSeeds
<1>3. ASSUME pruned = {}, NEW q \in Sampled
      PROVE  FALSE
  <2>1. q \in Pod /\ vehicle[l] = <<q, OwnerOf[l]>>
    BY <1>3 DEF SampleInv, SampleDataOnce, Sampled
  <2> QED
    BY <1>1, <2>1, SamplesApart DEF Free
<1>4. SampleDataOnce'
  BY <1>1, <1>3 DEF SampleDataOnce, Sampled
<1> QED
  BY <1>2, <1>4 DEF SampleInv

\* After a deletion nothing is promised but the key.
LEMMA DeleteKeepsSample ==
  ASSUME SampleInv,
         (\E c \in Client : DeleteClient(c)) \/ (\E l \in Plate : DeleteVehicle(l))
  PROVE  SampleInv'
<1>1. /\ pod' = pod /\ clients' \subseteq clients /\ pruned' # {}
      /\ vehicle' \in [Plate -> Client \union {None}]
      /\ \A l \in Plate : Free(l) => Free(l)'
  BY DEF DeleteClient, DeleteVehicle, SampleInv, RowsOK, Free
<1> QED
  BY <1>1 DEF SampleInv, RowsOK, OneSeeds, SampleDataOnce

LEMMA SampleStep == SampleInv /\ [Next]_vars => SampleInv'
<1> SUFFICES ASSUME SampleInv, [Next]_vars PROVE SampleInv'
  OBVIOUS
<1>1. CASE UNCHANGED vars
  BY <1>1, QuietStep DEF vars, rows, SampleInv, RowsOK
<1>2. CASE Next
  BY <1>2, MigrationKeepsSample, PodKeepsSample, RegisterKeepsSample,
     AddVehicleKeepsSample, DeleteKeepsSample DEF Next
<1> QED
  BY <1>1, <1>2

\* However many pods start together, crash and start again, the sample data is
\* there once and whole until somebody deletes something: what populate_db
\* counts may be out of date, the plates it inserts are not.
THEOREM SampleDataOnceHolds == Spec => []SampleDataOnce
<1>1. SampleInv => SampleDataOnce
  BY DEF SampleInv
<1> QED
  BY <1>1, SampleInit, SampleStep, PTL DEF Spec

-----------------------------------------------------------------------------
(* The schema: what the revisions make of it from version to version.      *)

\* The schemas of the next version.
Applying(schemas, v) == UNION {Migrated(s, Upgrade[v]) : s \in schemas}

LEMMA SchemaAtUnfolds ==
  SchemaAt = [v \in Version |-> IF v = 0 THEN {Empty} ELSE Applying(SchemaAt[v - 1], v)]
<1> DEFINE F(f) == f = [v \in Version |-> IF v = 0 THEN {Empty} ELSE Applying(f[v - 1], v)]
<1>1. \E f : F(f)
  <2> DEFINE f1 == Applying({Empty}, 1)
             f2 == Applying(f1, 2)
             f3 == Applying(f2, 3)
             f4 == Applying(f3, 4)
             f == [v \in Version |-> IF v = 0 THEN {Empty} ELSE IF v = 1 THEN f1
                                     ELSE IF v = 2 THEN f2 ELSE IF v = 3 THEN f3 ELSE f4]
  <2>1. Version = {0, 1, 2, 3, 4}
    BY DEF Version, HeadVersion
  <2>2. f[0] = {Empty} /\ f[1] = f1 /\ f[2] = f2 /\ f[3] = f3 /\ f[4] = f4
    BY <2>1
  <2>3. ASSUME NEW v \in Version
        PROVE  f[v] = IF v = 0 THEN {Empty} ELSE Applying(f[v - 1], v)
    BY <2>1, <2>2
  <2> HIDE DEF f
  <2>4. f = [v \in Version |-> f[v]]
    BY DEF f
  <2>5. F(f)
    BY <2>3, <2>4
  <2> HIDE DEF F
  <2> QED
    BY <2>5
<1>2. SchemaAt = CHOOSE f : F(f)
  BY DEF SchemaAt, Applying
<1>3. F(SchemaAt)
  <2> HIDE DEF F
  <2> QED
    BY <1>1, <1>2
<1> QED
  BY <1>3

\* Those of a migration that was overtaken.
Overtaking(schemas, v) == Applying({Models} \union schemas, v)

LEMMA OvertakenUnfolds ==
  Overtaken = [v \in Version |-> IF v = 0 THEN {} ELSE Overtaking(Overtaken[v - 1], v)]
<1> DEFINE F(f) == f = [v \in Version |-> IF v = 0 THEN {} ELSE Overtaking(f[v - 1], v)]
<1>1. \E f : F(f)
  <2> DEFINE f1 == Overtaking({}, 1)
             f2 == Overtaking(f1, 2)
             f3 == Overtaking(f2, 3)
             f4 == Overtaking(f3, 4)
             f == [v \in Version |-> IF v = 0 THEN {} ELSE IF v = 1 THEN f1
                                     ELSE IF v = 2 THEN f2 ELSE IF v = 3 THEN f3 ELSE f4]
  <2>1. Version = {0, 1, 2, 3, 4}
    BY DEF Version, HeadVersion
  <2>2. f[0] = {} /\ f[1] = f1 /\ f[2] = f2 /\ f[3] = f3 /\ f[4] = f4
    BY <2>1
  <2>3. ASSUME NEW v \in Version
        PROVE  f[v] = IF v = 0 THEN {} ELSE Overtaking(f[v - 1], v)
    BY <2>1, <2>2
  <2> HIDE DEF f
  <2>4. f = [v \in Version |-> f[v]]
    BY DEF f
  <2>5. F(f)
    BY <2>3, <2>4
  <2> HIDE DEF F
  <2> QED
    BY <2>5
<1>2. Overtaken = CHOOSE f : F(f)
  BY DEF Overtaken, Overtaking, Applying
<1>3. F(Overtaken)
  <2> HIDE DEF F
  <2> QED
    BY <1>1, <1>2
<1> QED
  BY <1>3

LEMMA NextVersion ==
  ASSUME NEW v \in Version, v < HeadVersion
  PROVE  /\ v + 1 \in Version
         /\ \A s \in SchemaAt[v] : Migrated(s, Upgrade[v + 1]) \subseteq SchemaAt[v + 1]
         /\ \A s \in {Models} \union Overtaken[v] :
              Migrated(s, Upgrade[v + 1]) \subseteq Overtaken[v + 1]
<1>1. v + 1 \in Version /\ v + 1 # 0 /\ (v + 1) - 1 = v
  BY DEF Version, HeadVersion
<1>2. SchemaAt[v + 1] = Applying(SchemaAt[v], v + 1)
  BY <1>1, SchemaAtUnfolds
<1>3. Overtaken[v + 1] = Overtaking(Overtaken[v], v + 1)
  BY <1>1, OvertakenUnfolds
<1> QED
  BY <1>1, <1>2, <1>3 DEF Applying, Overtaking

\* The head has the one schema of the models.
LEMMA AtHead ==
  /\ HeadVersion \in Version /\ 0 \in Version /\ HeadVersion > 0
  /\ SchemaAt[HeadVersion] = {Models} /\ Overtaken[HeadVersion] = {}
  /\ \A v \in Version : v <= HeadVersion
BY RevisionsAssumption DEF RevisionsFit, Version, HeadVersion

\* Every schema that a migration works on is one of a version or of one that
\* was overtaken.
LEMMA AnySchemas ==
  /\ \A v \in Version : SchemaAt[v] \union Overtaken[v] \subseteq AnySchema
  /\ Empty \in AnySchema
  /\ NoTxn \in [at : Version, moved : BOOLEAN, schema : AnySchema]
  /\ \A v \in Version :
       [NoTxn EXCEPT !.at = v] = [at |-> v, moved |-> FALSE, schema |-> Empty]
<1>1. 0 \in Version /\ SchemaAt[0] = {Empty}
  BY SchemaAtUnfolds DEF Version, HeadVersion
<1>2. \A v \in Version : SchemaAt[v] \union Overtaken[v] \subseteq AnySchema
  BY DEF AnySchema
<1>3. Empty \in AnySchema
  BY <1>1, <1>2
<1>4. /\ NoTxn = [at |-> 0, moved |-> FALSE, schema |-> Empty]
      /\ NoTxn \in [at : Version, moved : BOOLEAN, schema : AnySchema]
  BY <1>1, <1>3 DEF NoTxn
<1>5. ASSUME NEW v \in Version
      PROVE  [NoTxn EXCEPT !.at = v] = [at |-> v, moved |-> FALSE, schema |-> Empty]
  <2>1. NoTxn \in [at : Version, moved : BOOLEAN, schema : AnySchema]
    BY <1>4
  <2>2. [NoTxn EXCEPT !.at = v]
          = [at |-> v, moved |-> NoTxn.moved, schema |-> NoTxn.schema]
    BY <2>1
  <2>3. NoTxn.moved = FALSE /\ NoTxn.schema = Empty
    BY DEF NoTxn
  <2> QED
    BY <2>2, <2>3
<1> QED
  BY <1>2, <1>3, <1>4, <1>5

-----------------------------------------------------------------------------
(* The schema in a release.                                                *)

LEMMA MigrationInit == Init => MigrationInv
<1> SUFFICES ASSUME Init PROVE MigrationInv
  OBVIOUS
<1>1. MigrationOK
  BY AnySchemas DEF Init, MigrationOK
<1>2. VersionTellsSchema
  BY DEF Init, VersionTellsSchema
<1>3. StartsFromVersion /\ OneMoves
  BY DEF Init, StartsFromVersion, OneMoves, NoTxn
<1>4. PassedAtHead
  BY DEF Init, PassedAtHead, Passed
<1> QED
  BY <1>1, <1>2, <1>3, <1>4 DEF MigrationInv

\* A step that leaves the migrations alone.
LEMMA MigrationsRest ==
  ASSUME MigrationInv, UNCHANGED migration,
         \A p \in Pod : Passed(p)' => Passed(p) \/ version = HeadVersion
  PROVE  MigrationInv'
<1>1. UNCHANGED <<version, schema, job, txn, tries>>
  BY DEF migration
<1> QED
  BY <1>1 DEF MigrationInv, MigrationOK, VersionTellsSchema, StartsFromVersion, OneMoves,
     PassedAtHead

\* Before anything of the release runs no Job has begun and no pod is there.
LEMMA RevertKeepsSchema ==
  ASSUME MigrationInv, Revert
  PROVE  MigrationInv'
<1>1. /\ version \in Version /\ version > 0 /\ version' = version - 1
      /\ \A j \in Job : tries[j] = 0
      /\ \A p \in Pod : pod[p] = "off"
      /\ schema \in SchemaAt[version] /\ schema' \in Migrated(schema, Downgrade[version])
      /\ UNCHANGED <<job, txn, tries, pod>>
  BY DEF Revert, MigrationInv, MigrationOK, VersionTellsSchema
<1>2. \A j \in Job : job[j] = "idle" /\ ~txn[j].moved
  BY <1>1 DEF MigrationInv, MigrationOK, StartsFromVersion, OneMoves
<1>3. version' \in Version /\ version \in 1..HeadVersion
  BY <1>1 DEF Version, HeadVersion
<1>4. MigrationOK'
  BY <1>1, <1>3 DEF MigrationInv, MigrationOK
<1>5. VersionTellsSchema'
  BY <1>1, <1>3, RevisionsAssumption DEF RevisionsFit, VersionTellsSchema
<1>6. StartsFromVersion'
  BY <1>1, <1>2 DEF StartsFromVersion
<1>7. OneMoves'
  BY <1>1, <1>2 DEF OneMoves
<1>8. PassedAtHead'
  BY <1>1 DEF PassedAtHead, Passed
<1> QED
  BY <1>4, <1>5, <1>6, <1>7, <1>8 DEF MigrationInv

LEMMA BeginKeepsSchema ==
  ASSUME MigrationInv, NEW j \in Job, Begin(j)
  PROVE  MigrationInv'
<1>1. /\ job[j] = "idle" /\ job' = [job EXCEPT ![j] = "running"]
      /\ tries' = [tries EXCEPT ![j] = @ + 1]
      /\ txn' = [txn EXCEPT ![j] = [NoTxn EXCEPT !.at = version]]
      /\ UNCHANGED <<version, schema, pod>>
  BY DEF Begin
<1>2. [NoTxn EXCEPT !.at = version] = [at |-> version, moved |-> FALSE, schema |-> Empty]
  BY AnySchemas DEF MigrationInv, MigrationOK
<1>3. txn' = [k \in Job |-> IF k = j THEN [at |-> version, moved |-> FALSE, schema |-> Empty]
                            ELSE txn[k]]
  BY <1>1, <1>2 DEF MigrationInv, MigrationOK
<1>4. MigrationOK'
  BY <1>1, <1>3, AnySchemas DEF MigrationInv, MigrationOK
<1>5. VersionTellsSchema' /\ PassedAtHead'
  BY <1>1 DEF MigrationInv, VersionTellsSchema, PassedAtHead, Passed
<1>6. StartsFromVersion'
  BY <1>1, <1>3 DEF MigrationInv, MigrationOK, StartsFromVersion
<1>7. OneMoves'
  BY <1>1, <1>3 DEF MigrationInv, MigrationOK, OneMoves
<1> QED
  BY <1>4, <1>5, <1>6, <1>7 DEF MigrationInv

\* The next revision, on the tables of the version or behind its back.
LEMMA MigrateKeepsSchema ==
  ASSUME MigrationInv, NEW j \in Job, Migrate(j)
  PROVE  MigrationInv'
<1> DEFINE before == IF txn[j].moved THEN txn[j].schema ELSE schema
           at == txn[j].at
<1>1. PICK s \in Migrated(before, Upgrade[at + 1]) :
        txn' = [txn EXCEPT ![j] = [at |-> at + 1, moved |-> TRUE, schema |-> s]]
  BY DEF Migrate, Results, MigrationInv, MigrationOK
<1>2. /\ job[j] = "running" /\ at \in Version /\ at < HeadVersion
      /\ \A k \in Job \ {j} : ~txn[k].moved
      /\ UNCHANGED <<version, schema, job, tries, pod>>
  BY DEF Migrate, MayMigrate, MigrationInv, MigrationOK
<1>3. txn' = [k \in Job |-> IF k = j THEN [at |-> at + 1, moved |-> TRUE, schema |-> s]
                            ELSE txn[k]]
  BY <1>1 DEF MigrationInv, MigrationOK
<1>4. at + 1 \in Version
  BY <1>2, NextVersion
<1>5. IF version = HeadVersion THEN s \in Overtaken[at + 1] ELSE s \in SchemaAt[at + 1]
  <2>1. CASE version = HeadVersion
    <3>1. before \in {Models} \union Overtaken[at]
      BY <2>1, AtHead DEF MigrationInv, OneMoves, VersionTellsSchema
    <3> QED
      BY <1>2, <2>1, <3>1, NextVersion
  <2>2. CASE version # HeadVersion
    <3>1. before \in SchemaAt[at]
      BY <1>2, <2>2 DEF MigrationInv, OneMoves, StartsFromVersion, VersionTellsSchema
    <3> QED
      BY <1>2, <2>2, <3>1, NextVersion
  <2> QED
    BY <2>1, <2>2
<1>6. MigrationOK'
  <2>1. s \in AnySchema
    BY <1>4, <1>5, AnySchemas
  <2> QED
    BY <1>2, <1>3, <1>4, <2>1 DEF MigrationInv, MigrationOK
<1>7. VersionTellsSchema' /\ PassedAtHead'
  BY <1>2 DEF MigrationInv, VersionTellsSchema, PassedAtHead, Passed
<1>8. StartsFromVersion'
  BY <1>2, <1>3 DEF MigrationInv, StartsFromVersion
<1>9. OneMoves'
  BY <1>2, <1>3, <1>5 DEF OneMoves
<1> QED
  BY <1>6, <1>7, <1>8, <1>9 DEF MigrationInv

LEMMA AbandonKeepsSchema ==
  ASSUME MigrationInv, NEW j \in Job, Abandon(j)
  PROVE  MigrationInv'
<1>1. /\ job' = [job EXCEPT ![j] = "idle"]
      /\ txn' = [txn EXCEPT ![j] = NoTxn]
      /\ UNCHANGED <<version, schema, tries, pod>>
  BY DEF Abandon
<1>2. txn' = [k \in Job |-> IF k = j THEN [at |-> 0, moved |-> FALSE, schema |-> Empty]
                            ELSE txn[k]]
  BY <1>1 DEF MigrationInv, MigrationOK, NoTxn
<1>3. MigrationOK'
  BY <1>1, AnySchemas DEF MigrationInv, MigrationOK
<1>4. VersionTellsSchema' /\ PassedAtHead'
  BY <1>1 DEF MigrationInv, VersionTellsSchema, PassedAtHead, Passed
<1>5. StartsFromVersion'
  BY <1>1, <1>2 DEF MigrationInv, MigrationOK, StartsFromVersion
<1>6. OneMoves'
  BY <1>1, <1>2 DEF MigrationInv, MigrationOK, OneMoves
<1> QED
  BY <1>3, <1>4, <1>5, <1>6 DEF MigrationInv

\* A migration that changed tables commits only if it was not overtaken.
LEMMA CommitKeepsSchema ==
  ASSUME MigrationInv, NEW j \in Job, CommitMigration(j)
  PROVE  MigrationInv'
<1>1. /\ job[j] = "running" /\ txn[j].at = HeadVersion
      /\ job' = [job EXCEPT ![j] = "complete"]
      /\ txn' = [txn EXCEPT ![j] = NoTxn]
      /\ UNCHANGED <<tries, pod>>
      /\ \/ txn[j].moved /\ schema' = txn[j].schema /\ version' = HeadVersion
         \/ ~txn[j].moved /\ UNCHANGED <<schema, version>>
  BY DEF CommitMigration
<1>2. txn' = [k \in Job |-> IF k = j THEN [at |-> 0, moved |-> FALSE, schema |-> Empty]
                            ELSE txn[k]]
  BY <1>1 DEF MigrationInv, MigrationOK, NoTxn
<1>3. txn[j].moved => schema' \in SchemaAt[HeadVersion] /\ \A k \in Job \ {j} : ~txn[k].moved
  BY <1>1, AtHead DEF MigrationInv, OneMoves
<1>4. version' \in {version, HeadVersion} /\ version' \in Version
  BY <1>1, AtHead DEF MigrationInv, MigrationOK
<1>5. MigrationOK'
  BY <1>1, <1>4, AnySchemas DEF MigrationInv, MigrationOK
<1>6. VersionTellsSchema'
  BY <1>1, <1>3 DEF MigrationInv, VersionTellsSchema
<1>7. PassedAtHead'
  BY <1>1, <1>4 DEF MigrationInv, PassedAtHead, Passed
<1>8. StartsFromVersion'
  BY <1>1, <1>2, <1>4 DEF MigrationInv, MigrationOK, StartsFromVersion
<1>9. OneMoves'
  BY <1>1, <1>2, <1>3 DEF MigrationInv, MigrationOK, OneMoves
<1> QED
  BY <1>5, <1>6, <1>7, <1>8, <1>9 DEF MigrationInv

\* The pods wait for the head, and once there the version stays.
LEMMA PodKeepsSchema ==
  ASSUME MigrationInv, RowsOK, NEW p \in Pod, Create(p) \/ PodStep(p) \/ CrashPod(p)
  PROVE  MigrationInv'
<1>1. UNCHANGED migration
  BY DEF Create, PodStep, CrashPod, WaitForMigrations, Count, Insert, InsertFails, CommitSample
<1>2. \E place : pod' = [pod EXCEPT ![p] = place]
  BY DEF Create, PodStep, CrashPod, WaitForMigrations, Count, Insert, InsertFails, CommitSample,
     Goto
<1>3. Passed(p)' => Passed(p) \/ version = HeadVersion
  BY DEF Create, PodStep, CrashPod, WaitForMigrations, Count, Insert, InsertFails, CommitSample,
     Goto, Passed, Migrations, RowsOK
<1>4. \A q \in Pod : q # p => (Passed(q)' <=> Passed(q))
  BY <1>2 DEF Passed, RowsOK
<1> QED
  BY <1>1, <1>3, <1>4, MigrationsRest

LEMMA MigrationStep ==
  ASSUME MigrationInv, RowsOK, [Next]_vars
  PROVE  MigrationInv'
<1>1. ASSUME UNCHANGED <<migration, pod>>
      PROVE  MigrationInv'
  BY <1>1, MigrationsRest DEF Passed
<1>2. ASSUME NEW j \in Job, JobStep(j) \/ CrashJob(j)
      PROVE  MigrationInv'
  BY <1>2, BeginKeepsSchema, MigrateKeepsSchema, AbandonKeepsSchema, CommitKeepsSchema
     DEF JobStep, MigrateFails, CrashJob
<1>3. ASSUME \/ UNCHANGED vars
             \/ \E c \in Customer : Register(c)
             \/ \E c \in Client : DeleteClient(c) \/ \E l \in Plate : AddVehicle(c, l)
             \/ \E l \in Plate : DeleteVehicle(l)
      PROVE  UNCHANGED <<migration, pod>>
  BY <1>3 DEF vars, Register, DeleteClient, AddVehicle, DeleteVehicle
<1> QED
  BY <1>1, <1>2, <1>3, RevertKeepsSchema, PodKeepsSchema DEF Next

LEMMA MigrationInvHolds == Spec => []MigrationInv
<1>1. SampleInv => RowsOK
  BY DEF SampleInv
<1>2. MigrationInv /\ RowsOK /\ [Next]_vars => MigrationInv'
  BY MigrationStep
<1> QED
  BY <1>1, <1>2, MigrationInit, SampleInit, SampleStep, PTL DEF Spec

\* However many migrations run at the same time, crash and are started again,
\* the tables are those of the version that the database says it has.
THEOREM VersionTellsSchemaHolds == Spec => []VersionTellsSchema
<1>1. MigrationInv => VersionTellsSchema
  BY DEF MigrationInv
<1> QED
  BY <1>1, MigrationInvHolds, PTL

\* A pod that serves, or is about to, finds the tables of app/shared/models.py,
\* now and as long as it runs.
THEOREM ServesOnItsModelsHolds == Spec => []ServesOnItsModels
<1>1. MigrationInv => ServesOnItsModels
  BY AtHead DEF MigrationInv, PassedAtHead, VersionTellsSchema, ServesOnItsModels
<1> QED
  BY <1>1, MigrationInvHolds, PTL
=============================================================================
