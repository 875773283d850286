# Verification of the OS service

TLA+ specifications, model-checking configurations and proofs for the service
that owns the service orders (OS) of the workshop and orchestrates their saga.
Source paths are relative to `src/`.

## 1. The system

Customers and attendants open service orders over HTTP. From then on a **saga**
takes the order through four other services (Execução, Estoque, Orçamento,
Pagamento): each transition is decided by a state machine, written together with
the order in one PostgreSQL transaction, and the command it sends is a row of an
**outbox** in the same transaction. A **relay** process moves the rows to SQS. The
answers come back through one SQS queue, which a **worker** process consumes;
the same worker has a thread that acts on expired **deadlines**.

    HTTP API ──(order, saga, outbox row: one transaction)──> PostgreSQL <── worker
                                                             │  ▲           │ consumer thread
                                 outbox relay <──────────────┘  └───────────┤ deadline thread
                                     │                                      ▲
                                     └──> SQS commands ──> participants ──> SQS events

| Component | State | Operations | What is hard |
|---|---|---|---|
| Saga state machine (`app/saga/domain`) | state, pending compensations, last command, sends, deadline | 19 events, 5 confirmations, deadlines, retry | events early, late and repeated; which effects may exist when a step is not answered; who is never timed |
| Outbox and relay (`app/shared/outbox.py`, `app/outbox_relay.py`) | `outbox_messages` | insert, take a batch under `SKIP LOCKED`, send, mark | ids drawn before commits; failure between a send and the mark; two relays |
| Event consumer (`app/messaging`, `app/worker.py`) | `processed_messages`, the batch in hand | receive, parse, handle, e-mail, delete | redelivery, two copies, crash between commit and delete, malformed bodies |
| Saga transactions (`app/saga/application`, `app/saga/adapters`) | row locks of saga and order | handle an event, check deadlines, retry, deliver, cascade | data read before a lock and used after it; lock order |
| Service orders (`app/service_orders`) | orders, items, history | open, deliver, list, track | five statements of one transaction among other requests |
| Clients and vehicles (`app/clients`, `app/vehicles`) | registry | create, update, delete | search-then-insert; cascades over live sagas; updates without validation |
| Document validators (`app/shared/validators.py`, generators in `scripts/populate_db.py`) | none | validate and generate CPF and CNPJ | remainder 10, weights, the same rule written twice |
| Schema (`migrations/versions`, `app/shared/models.py`) | tables, version | upgrade, downgrade | two descriptions of one schema; what a downgrade recreates by hand; rows that are there already |
| Start of a release (`migrations/env.py`, `scripts/wait_for_migrations.py`, `scripts/populate_db.py`, `docker-entrypoint.sh`, `k8s/base`) | Jobs, pods, sample data | migrate, wait, count, insert, serve | a Job that dies or overlaps another; pods that start together; data counted and then inserted |
| Participants (other repositories; `docs/saga.md`) | what became of each step | carry out, refuse, undo, report | delayed and repeated commands, reports that come early |
| Access control, e-mail, telemetry, settings, system endpoints, infrastructure | none of interest | | |

What makes each correct, in one line: the saga undoes what it did before it
cancels an order and never moves back; the outbox loses nothing and duplicates
only for a failure; the consumer applies each event once and deletes only what
it applied; a transaction decides on the row it writes; the registry holds no
copies and nothing dangling; a validator accepts the valid numbers and no others;
the tables are those of the version, and pods serve on those of their models only;
across the services, nothing stands for a cancelled order and nobody pays in vain.

## 2. The modules

### Saga

* `SagaTypes`: states, commands, events and the tables of `value_objects.py`.
  `ACCEPTED_IN` is the union of the guards of the handlers.
* `ServiceOrderSaga`: the state machine. Variables are the columns of `sagas`,
  the status and the set `*_at` columns of the order, the last `Decision`, and
  history. One action per handler `_on_<Event>`; the action includes what
  `_apply` does to the order. `Ignore` is `_unexpected` and the early returns of
  `handle`. `OnDeadline` has one disjunct per branch of `on_deadline`.
  The environment is arbitrary: any event in any state, any number of times.
* `SagaTransaction`: the abstract promise, a business transaction with effects
  in other services that commits with the repair or ends with nothing held.
* `SagaProperties`, `SagaInvariant`: properties, refinement mapping, inductive
  strengthening. `SagaProofs`: proofs, the refinement included. `MCSaga`: instance.

### Saga with its participants

* `SagaSystem`: extends `ServiceOrderSaga` with the queues in both directions, the
  participants, and the customer and the mechanics at their pages. `Receive`,
  `Deadline` and `AdminRetries` are the orchestrator: the handler of the saga
  together with `_send_commands`. The rest is external and states the contract of
  `docs/saga.md:87-137` and `:187`: `Done`, `Failed`, `Undoes` and `Act` are its
  tables. `commands` counts the sends of each command that are on their way, `events`
  is a set; a message that is never received was lost. A compensation that comes
  first refuses the step that comes after it (`saga_ja_compensada`).
  `RefusesResend` names the steps that a participant refuses, rather than confirms
  again, when they are resent after they were carried out. `docs/saga.md` lists a
  reason for that for four steps (`os_ja_esta_na_execucao`, `:173`, for both of the
  mechanics; `os_ja_tem_orcamento`, `:195`; `reserva_<status>`, `:208`) and none for a
  reservation or a charge.
* `SystemProperties`: what must be true across the services, and `SystemInv`, why it is.
  `SystemProofs`: proofs. `MCSystem`: instance.

### Outbox

* `OutboxRelay`: a row is its id, `row` its stage from "free" to "published";
  `Insert`/`Commit`/`Rollback` are the orchestrator's transaction, `Take`, `Send`,
  `CommitBatch`, `SendFails`, `Crash` are `run_once` and its ways out.
  `Unroutable` rows have a destination without a queue.
* `AtLeastOnce`: the abstract promise. `OutboxProperties`, `OutboxProofs`, `MCOutbox`.

### Consumer

* `EventConsumer`: SQS (external: visibility, receive count, dead letter queue)
  and the worker's loop; a transaction is open between `MarkProcessed` and
  `Commit`, so that crashes and second workers fall in between.
  `ConsumerProperties`, `ConsumerProofs`, `MCConsumer`.

### Sessions

* `SagaSessions`: the transactions that meet over one order: consumers, deadline
  checkers, retries, deliveries, and deletions that cascade. A row lock is its
  holder; `stale` marks a session whose read has been overtaken; `Abort` is the
  deadlock detection of PostgreSQL (external). The decisions themselves are those
  of `ServiceOrderSaga`, reduced to whether they change the saga, the deadline
  they leave and whether they write the order.
  `SessionsProperties`, `SessionsProofs`, `MCSessions`.

### Registry

* `Registry`: `POST /service-orders` statement by statement (search client, flush,
  search vehicle, flush, order with saga and first command), the other writes of
  clients and vehicles, and deletions in their two steps: the ORM loads the rows
  of its cascade, then deletes them, and the database takes what refers to them.
  Rows keep their keys only; a plate is a text of `Spelling`, and `Norm` gives
  the plate that `validate_plate` makes of it, if any.
  `RegistryProperties`, `RegistryProofs`, `MCRegistry`.

### Documents

* `Documents`: the check digits as the validators compute them, the numbers as
  `generate_valid_cpf` and `generate_valid_cnpj` do, and the rule of Receita Federal
  (the weighted digits and the check digit add up to a multiple of 11) as a
  reference. `MCDocuments` enumerates numbers; `DocumentsProofs`.

### Schema and release

* `Schema`: a schema is a function from its tables to their columns, unique keys,
  foreign keys and indexes; of a column it keeps whether an INSERT may leave it out.
  Each revision is the sequence of its Alembic operations, up and down, with what
  PostgreSQL refuses (`Possible`) and does (`Applied`). `Models` is the schema that
  `models.py` declares. A `NOT NULL` column without a default is never possible,
  since the tables may have rows.
* `Deployment`: a release over a database at any version. `Begin`, `Migrate`,
  `CommitMigration` and their failures are the Job, whose revisions are one
  transaction; `WaitForMigrations`, `Count`, `Insert`, `CommitSample`, `InsertFails` the
  start of a pod; `Register`, `AddVehicle` and the deletions the requests of those
  that serve already; `Revert` a downgrade before anything starts.
  `DeploymentProperties`, `DeploymentProofs`, `MCDeployment`.

`*_<Name>` operators that a comment calls a mutant are variants of the operator
after them with a plausible mistake; no specification uses them. Each shows that
a property it is paired with notices the mistake.

## 3. The runs

| Run | Shows | Bounds |
|---|---|---|
| `MCSaga` | all invariants of the saga, `NeverMovesBack`, the refinement of `SagaTransaction`, `DeadlinesKeepItMoving` | `MaxAttempts` 3 (the default), one retry by an admin |
| `MCSystem` | across the services: `NothingLeftStanding`, `RepairIsReallyPaid`, `PaidIsRepairedOrRefunded`, `WorkDoneIsSeen` | `MaxAttempts` 1, one retry by an admin; the four steps for which the contract lists it refuse a resend |
| `MCOutbox` | order within a saga, duplicates only from failures, refinement of `AtLeastOnce` with its fairness, rows are marked in the end | 2 relays, 4 rows of 2 sagas, batches of 2, 1 failure |
| `MCConsumerOne` | one worker with malformed and poisonous messages in a batch of 3: `DeadHasCause`, `DeletedWasProcessed`, every message settles | 4 messages (two copies of one event), 2 receives, 2 faults |
| `MCConsumerTwo` | two workers: one application, one e-mail per event | 4 messages (two copies of one event, one of a saga that is not there, one no object), batches of 2, 2 receives, 2 faults |
| `MCSessions` | decisions on the current row, deadlines that were moved do not act, no transaction hangs | 1 consumer, 2 checkers, 1 retry, 2 deliveries, 1 deletion, clock to 2 |
| `MCRegistry` | no copies, nothing dangles, orders come with their sagas and stay with who opened them | 2 clients, 2 vehicles, 2 orders, 2 documents, 3 spellings of one plate, 2 requests |
| `MCDocuments` | validators accept exactly the numbers of the rule, and the generators make those | bodies that differ in at most 2 digits from all-0 or all-7, with all 100 endings |
| `MCDeployment` | `VersionTellsSchema`, `ServesOnItsModels`, `SampleDataOnce`, `RolloutEnds` | 2 Jobs, 2 pods, 1 crash, a sample of 1 client with 1 vehicle, 1 customer, all versions and all revisions in full |

The saga's state space is finite without bounds but for the two constants; three
sends distinguish the first, a middle and the last one. In the system a resend is
what matters, not its number: with one send per step and a retry by an admin, any
one step can be resent, after it was carried out too, and its copies overtake each
other and the compensations. Failures of the outbox and the consumer are bounded
because they are history counters: one failure of the outbox leaves a batch half
sent while the other relay takes it, two of the consumer are enough for a failure
of what an earlier failure caused. Two receives stand for the five of
`maxReceiveCount`: the properties compare with the constant. In the sessions
a deadline is one tick away, so two ticks are an expiry and a second one after the
answer or the resend that moved it; the retry locks as a second consumer does.
In the registry ids are not reused, so two of each are two creations, and what
is deleted is not created again under its id; two requests race each other, and
the one-statement requests race both. In the deployment a third pod would find
what the second finds, and one plate that is taken refuses the whole sample.

`CHECK_DEADLOCK FALSE` is used where the modelled part may come to rest (all
messages settled, all ids drawn, the order deleted). The inductive invariants of
section 5 were model-checked on these instances before they were proved.

### Where the code and what is said of it disagree

Each of these runs checks one statement of a document or a comment and ends with
a counterexample.

| Run | Statement | What happens |
|---|---|---|
| `MCSystem_PointOfNoReturn` | once the repair is in the queue the saga does not compensate any more (`README.md:112`) | `EnfileirarReparo` is carried out, its confirmation is late, the deadline refunds the customer and gives the parts back (`value_objects.py:71`) |
| `MCSystem_QuoteIsUndone` | a failure between steps 3 and 7 undoes what was done (`docs/regras-negocio.md:32`) | the quote is made, its confirmation is late, the resend is refused with `os_ja_tem_orcamento` (`docs/saga.md:195`), and `OrcamentoFalhou` plans `LiberarPecas` alone (`saga.py:206`); a participant that confirms the resend instead would avoid it |
| `MCConsumer_DeadHasCause` | a malformed message goes to the DLQ without holding up the queue (`sqs_consumer.py:21-23`) | a JSON body that is no object raises `AttributeError`, which ends the batch; sound messages follow it to the DLQ |

Others, seen while reading or with a run that is not kept:

* `ConfirmarBaixa` without an answer plans `LiberarPecas` (`value_objects.py:70`), which
  by `docs/saga.md:102-103` undoes a reservation and returns nothing that was
  withdrawn after all; `docs/regras-negocio.md:62` has the parts come back, and the
  comment above the table (`:62-64`) counts the step itself among the compensated.
  TLC finds a cancelled order with its parts withdrawn, after 22 states.
* Two overlapping deliveries that both read FINISHED both succeed, and the later one
  overwrites `delivered_at` (`use_cases.py:83`), where the second should be refused
  (`service_orders/domain/value_objects.py:26-28`). TLC finds it, after 9 states.
* A PUT stores a plate or a year without validation (`vehicles/schemas.py:25-30`), and
  `VehicleRead`, which every vehicle is answered with, rejects it: `GET /vehicles`
  then fails for every caller, where `docs/api.md:52` has it list all vehicles. TLC
  finds such a vehicle.
* Revision 0004 drops what the previous release reads, while a rolling update keeps
  its pods serving until the new ones are ready; one of them that restarts waits for
  a head that will not come back (`wait_for_migrations.py:34`).
* Orders that are open when revision 0004 is applied get no saga, so that no event
  and no retry moves them (`20261010_0004_os_service_saga.py:25-104`).
* The sample data is counted by its clients: when all were deleted, the next start of
  a pod inserts it again (`populate_db.py:72`), "idempotent" as the entrypoint calls it.
* `generate_valid_cpf` may draw nine equal digits, and makes a number of eleven equal
  ones that the validators refuse (`GeneratesTheValidNumber` names the case).

* When the repair cannot be queued, the plan undoes the withdrawal after the payment
  and the quote (`saga.py:307`, `saga/domain/value_objects.py:71`), not in the
  reverse order of the steps that `docs/regras-negocio.md:32` and ADR 0008 name.
* `VehicleUpdate` does not normalize the plate (`vehicles/schemas.py:25`), so an
  opening after such a PUT registers the vehicle again, where
  `docs/arquitetura.md:387` says that it is reused.
* Deleting a client deletes a saga in the middle of its compensation
  (`models.py:127`), which `saga.py:372-373` says cannot be abandoned.
* `docs/saga.md` speaks of up to 3 resends, the code sends 3 times in all; it gives
  the payment 3 days, `saga/domain/value_objects.py:79` 4.
* `k8s/base/outbox-relay.yaml:2` expects duplicates of several relays, which
  `SKIP LOCKED` excludes (`DuplicatesComeFromFailures`); what two relays do break is
  the order of the commands of a saga.
* The stage in `EnfileiramentoFalhou` is not read.
* One row without a queue makes each batch that holds it fail, and the rows behind
  it wait with it.

## 4. Fairness

* Saga: `WF(OnDeadline)`. The deadline thread loops for ever and catches what one
  saga raises (`app/worker.py:22-30`, `orchestrator.py:86-97`). No participant, no
  customer and no admin is assumed to act.
* System: `WF(Deadline)` for the same reason, and `WF(Receive)` of the two reports of
  mechanics that no deadline stands in for (`DiagnosticoConcluido`,
  `ExecucaoFinalizada`). No other message need ever arrive, and nobody need act.
* Outbox: `WF(RelayStep)`; the relay loops after an exception too. Commits of the
  orchestrator need no fairness, for only committed rows are promised anything.
* Consumer: `WF` of a worker's steps and of its receives; SQS shows an abandoned
  message again and applies its redrive policy (external).
* Sessions: `SF(Proceed)` of each session. Threads run, PostgreSQL queues the
  waiters of a lock in order, so a lock that is free again and again is granted,
  and it breaks cycles. Nobody is made to begin.

* Deployment: `WF(JobStep)` and `WF(PodStep)`. Kubernetes runs what it is asked to run
  and starts again what failed; the crashes are bounded below `backoffLimit`.

## 5. What is proved

TLAPS proves the following for every value of the constants that the named
assumption of the module allows.

* **Saga** (`SagaProofs`). `IndInv` is inductive: type, status, resends, deadlines,
  plan and two groups of facts. `ForwardFacts` says that while the saga goes forward
  its past follows from its state (which commands were sent, which events
  accepted, which columns set); `UndoingFacts` says that from the moment it is
  undone the plan covers all that was sent or reported. The properties do not
  carry themselves: that a cancelled order undid its quote follows only from
  the plan containing it when it was made, and that from what the state at that
  moment says of the past. All invariants of `MCSaga` and `NeverMovesBack`
  follow, and three more: that only the customer's refusal ends as REJECTED, that a
  repair was approved and paid, and that the parts are given back last.
* **Refinement** (`SagaProofs`): every step of the saga is a step or a
  stutter of `SagaTransaction` under `phaseBar`, `heldBar`.
* **System** (`SystemProofs`). `SystemInv` adds to `IndInv` what ties the saga to what
  it cannot see. `ReportsAreTrue`: each event on its way or already taken says what
  its participant did, and a refused step was never carried out, unless its
  participant refuses resends. `OnlyIssuedIsDone`: no effect exists for a step
  that was never sent. `ForwardUndoesNothing`: no compensation is under way while
  the saga goes forward, so that what a report said is still so when it is read,
  however late. From it `RepairIsReallyPaid` and
  `NothingLeftStanding` follow for any participants, whichever steps they refuse on
  a resend. What the saga is told it believes, so the second has one exception, a
  step that its participant carried out and then called refused (`Misreported`). For
  a reservation or a charge the contract lists no such refusal, and in `MCSystem` the
  exception is empty; for a quote it does, and `MCSystem_QuoteIsUndone` shows what
  comes of it.
  `SystemImplementsSaga`: the system is the saga of
  `ServiceOrderSaga` with some of the events left out, so its theorems hold here.
* **Outbox** (`OutboxProofs`). `OutboxInv`: what is held is pending and held once,
  and the copies of a row are accounted for by failures and by the batch it is in.
  `OrderInv` adds why the order is kept: ids of one saga are drawn one transaction
  at a time, a batch of the oldest rows leaves out no older row of a saga it takes,
  and it is walked from its smallest. `SagaOrderKept` and the safety part of the
  refinement of `AtLeastOnce` follow, for any number of relays.
* **Consumer** (`ConsumerProofs`). `ConsumerInv`: the unique key of
  `processed_messages` keeps two transactions off one event, an open one is for
  an event not yet marked, and mark and effect are one commit. `DeadHasCause`
  is proved under the condition that no body is a non-object, which is the case
  its violation run shows to be necessary.
* **Sessions** (`SessionsProofs`). `SessionsInv`: locks are held from the read to the
  commit, and an order leaves "open" only with its saga over, so that what a
  delivery saw before it waited is still so.
* **Documents** (`DocumentsProofs`): the digit computed from a weighted total is
  the check digit of the rule, for every total, and the only one; the weighted
  total of a sequence is what its recursive definition says, for every
  sequence (by induction over its length, below); the weights of the code and
  those of the rule give the same total. From this `CpfAcceptsByTheRule`,
  `CnpjAcceptsByTheRule`, `GeneratesTheValidCpf` and `GeneratesTheValidCnpj` follow for all
  sequences of 11, 14, 9 and 12 digits, of which the run tries a few thousand.

* **Registry** (`RegistryProofs`). `RegistryInv`: the client an opening has found is
  still what it was or gone, what it inserts has its id and its unique value to
  itself, and no two openings write one row. Without these parts a commit could
  overwrite or copy a row that another request wrote since the SELECT; with them
  `NoCopies`, `NothingDangles`, `OrderWithItsSaga` and `BelongsToWhoAsked` follow.

* **Deployment** (`DeploymentProofs`). `SampleInv`: the unique key of the plates lets one
  insert through at a time, and while it is open nobody has one of them. From it
  `SampleDataOnce` follows for any number of pods, although what each of them
  counted may be out of date when it inserts. It needs the sample to have a plate.
  `MigrationInv` is why the tables are those of the version for any number of Jobs:
  PostgreSQL lets one migration at a time change tables, and the one that does
  either started from the version there is, or another one has gone to the head
  since it read the version. The latter must not commit. That it cannot is a
  property of the four revisions, not of the Job: `Overtaken` says what they make
  of the models behind the back of a committed migration, and it is empty at the
  head, because sooner or later an operation is not possible any more. This,
  that the upgrades lead to `Models` and that a downgrade takes its upgrade back,
  is `RevisionsFit`, a formula without variables or constants. It is assumed
  (`RevisionsAssumption`), and TLC evaluates it whenever it checks `MCDeployment`, on
  the revisions in full; a `NOT NULL` column without a default, or a table that a
  downgrade forgets, makes it false. `VersionTellsSchema` and `ServesOnItsModels`
  follow.

Assumptions are those on the constants (`*Assumption`): that null, rows and values
of different kinds are different things, and that bounds are positive numbers; and
`RevisionsAssumption`, which TLC decides, since it is about no constant.

Inductions over data are made without the theorems of the library that take an
operator: `WFMin`, the least element of a set of numbers, gives the induction
over a set (`Induct` in `DocumentsProofs`), and with it that a function defined by
recursion exists and has the values of its definition. For the four versions of
the schema the function is written out instead (`SchemaAtUnfolds`).

With TLC only: liveness under fairness (`DeadlinesKeepItMoving`, `PendingIsPublished`,
`EveryMessageSettles`, `EveryTransactionEnds`, `PaidIsRepairedOrRefunded`,
`WorkDoneIsSeen`, `RolloutEnds`) and the fair part of `ImplementsAtLeastOnce`, which the
prover cannot reach. Every other property of a passing run is a
theorem.

## 6. What is not modelled

* The code of the participants and of SQS: other systems. Their freedom is: any event
  at any time (`ServiceOrderSaga`), the documented contract (`SagaSystem`), any
  redelivery (`EventConsumer`).
* Payloads, prices, names, dates: the code copies them, and no property needs them.
* Read-only requests, access control, telemetry, settings, the security report, the
  bootstrap of local queues: sequential code without state that anything reads.
* PUT /clients, which changes no key.
* The limit of 50 of `list_due`: one saga is followed.
* The previous release: its code is in other commits, so what the schema of the new
  one does to its pods is described in section 3 and not modelled.
* Types and lengths of columns, and the offline mode of Alembic.

## 7. Plan

Done: the groups above, the most important first (saga, outbox, consumer, sessions),
then registry and documents, the saga with its participants, schema and release; and
the safety properties of all of them proved.

Next, in this order:

1. A deadline checker over several sagas, with the limit of `list_due`.
2. The sessions shown to implement the atomic steps of the saga: what
   `ServiceOrderSaga` takes in one step, `SagaSessions` takes in several.
3. Access to orders (tracking by document, roles) if a stateful question turns up.
