------------------------- MODULE DeploymentProperties -------------------------
(***************************************************************************)
(* What must be true of a release while it goes out, and of the revisions  *)
(* it migrates the database with.                                          *)
(***************************************************************************)
EXTENDS Deployment

\* The version tells the schema: whichever revisions were applied and taken
\* back, by Jobs that crashed and Jobs that overlapped, the tables are those
\* of the version, the ones that a downgrade recreates included
\* (20261010_0004: "exatamente como no baseline").
VersionTellsSchema == schema \in SchemaAt[version]

\* What the revisions make of the models if a migration that started from an
\* earlier version goes on behind the back of one that was committed.
Overtaken[v \in Version] ==
  IF v = 0 THEN {}
  ELSE UNION {Migrated(s, Upgrade[v]) : s \in {Models} \union Overtaken[v - 1]}

\* The revisions by themselves: applied one after the other they make the tables
\* of app/shared/models.py and none else; a downgrade takes its upgrade back
\* to the letter; and a migration that was overtaken meets an operation that
\* is not possible any more before it could commit.
RevisionsFit ==
  /\ SchemaAt[HeadVersion] = {Models}
  /\ \A v \in 1..HeadVersion : \A s \in SchemaAt[v] :
       Migrated(s, Downgrade[v]) \subseteq SchemaAt[v - 1]
  /\ Overtaken[HeadVersion] = {}

\* There is nothing in it to choose: it holds of the revisions that are there.
ASSUME RevisionsAssumption == RevisionsFit

\* A pod that passed its init container, and each one that serves, finds the
\* tables, columns, keys and indexes that app/shared/models.py declares, which
\* were written apart from the revisions.
Passed(p) == pod[p] \notin {"off", "waiting"}
ServesOnItsModels == \A p \in Pod : Passed(p) => schema = Models

\* Whose sample data is there.
Sampled == {p \in Pod : Sample(p) \cap clients # {}}

\* The sample data is there once and whole until somebody deletes something,
\* though the pods start together and each counts long before it inserts.
SampleDataOnce ==
  pruned = {} =>
    /\ \A p, q \in Sampled : p = q
    /\ \A p \in Sampled : /\ Sample(p) \subseteq clients
                          /\ \A l \in Plate : vehicle[l] = <<p, OwnerOf[l]>>

\* Every pod that is asked for serves in the end: the migration succeeds from
\* whatever revision the database was at, and a pod that lost the race for the
\* sample data starts again and passes it by.
RolloutEnds == \A p \in Pod : pod[p] # "off" ~> pod[p] = "serving"

-----------------------------------------------------------------------------
(* Why the sample data comes once.                                         *)

PodPlace == {"off", "waiting", "starting", "seeding", "seeded", "serving"}

RowsOK == /\ pod \in [Pod -> PodPlace]
          /\ clients \subseteq Client
          /\ vehicle \in [Plate -> Client \union {None}]

\* The unique key of the plates lets one insert at a time through, and as long
\* as it is not committed nobody has one of them.
OneSeeds == \A p \in Pod : pod[p] = "seeded" =>
              /\ \A q \in Pod : pod[q] = "seeded" => p = q
              /\ \A l \in Plate : Free(l)

SampleInv == RowsOK /\ OneSeeds /\ SampleDataOnce

-----------------------------------------------------------------------------
(* Why the version tells the schema.                                       *)

AnySchema == UNION {SchemaAt[v] \union Overtaken[v] : v \in Version}

MigrationOK ==
  /\ version \in Version
  /\ job \in [Job -> {"idle", "running", "complete"}]
  /\ tries \in [Job -> Nat]
  /\ txn \in [Job -> [at : Version, moved : BOOLEAN, schema : AnySchema]]

\* A migration starts from the version of the database; if that is not the
\* version any more, another one has gone to the head.
StartsFromVersion ==
  \A j \in Job :
    /\ job[j] # "idle" => tries[j] > 0
    /\ job[j] = "running" /\ ~txn[j].moved => version \in {txn[j].at, HeadVersion}

\* One migration at a time has changed tables: either it is the one that leads
\* to the version it has come to, or it was overtaken.
OneMoves ==
  \A j \in Job : txn[j].moved =>
    /\ job[j] = "running"
    /\ \A k \in Job : txn[k].moved => k = j
    /\ IF version = HeadVersion THEN txn[j].schema \in Overtaken[txn[j].at]
       ELSE txn[j].schema \in SchemaAt[txn[j].at]

\* No pod gets past its init container before the head is there.
PassedAtHead == \A p \in Pod : Passed(p) => version = HeadVersion

MigrationInv ==
  MigrationOK /\ VersionTellsSchema /\ StartsFromVersion /\ OneMoves /\ PassedAtHead
=============================================================================
