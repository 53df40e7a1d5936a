# Interop event-sourced processes: models, checks and proofs

The repository is the back end of an API-interoperability platform. Producers publish
*e-services*, each a sequence of *descriptors* (versions); consumers ask for an *agreement* with
an e-service and, under it, declare *purposes* with a number of daily calls; clients and keys
of a consumer obtain tokens for purposes. Each of these is an aggregate whose history is a
stream in an event store; everything else (read model, token states, reactions of one service to
the events of another) is derived from the streams, later and elsewhere.

This directory holds TLA+ modules translated from that code, TLC configurations that check them
on small instances, and TLAPS proofs for all values of the constants. Paths below are relative to
`src/`.

## 1. Inventory

### 1.1 How the system is put together

    request -> X-process --reads--> read model (MongoDB) <--writes-- X-readmodel-writer
                  |                                                        ^
                  +--createEvents--> event store (Postgres) -> Debezium -> Kafka
                                                                           |
                 other X-process <--HTTP-- reacting consumers  <-----------+
                 DynamoDB token states  <-- platform-state writers <-------+

The pattern is the same in every `*-process` package:

1. A handler reads what it needs from the **read model**: the aggregate it will write, with its
   `metadata.version`, and aggregates of other services.
2. It decides, by validators that throw, and builds one or several events.
3. It stores them with `createEvent(s)`, giving for each the version it has read. The event
   store refuses the whole batch if one of the versions is not the last of its stream.

So two handlers that write the same aggregate cannot both succeed on the same version, while what
a handler *only reads* may have changed since, by any amount. This asymmetry is the source of most of what is
hard here, and every process module below has it: current values for what is written, past values
(`Views`, `StaleReads`) for what is only read.

### 1.2 Components

| Component | State | Operations | Talks to |
|---|---|---|---|
| event store, `commons/src/repositories/EventRepository.ts`, `docker/event-store-init.sql` | table of `(stream_id, version, ...)`, open transactions | `createEvent`, `createEvents` | every process; Debezium reads its table |
| `agreement-process`, `agreement-lifecycle` | agreements: state, suspension flags, stamps | create, delete, submit, activate, suspend, reject, archive, upgrade, clone, compute by attribute, documents | reads e-services, tenants, delegations |
| `compute-agreements-consumer` | offset in the tenant topic | one call of agreement-process per attribute event | tenant events -> agreement-process |
| `catalog-process` | e-services, descriptors, risk analyses, attributes | create, update, clone, publish, approve, reject, suspend, activate, archive, delete, documents | reads agreements, delegations |
| `eservice-descriptors-archiver` | offset in the agreement topic | archives an unused descriptor | agreement events -> catalog-process |
| `purpose-process` | purposes: versions and flags | create, clone, update, new version, activate, suspend, reject, archive, delete | reads agreements, e-services, delegations and the other purposes |
| `delegation-process` | producer delegations | submit, approve, reject, revoke | read by agreement-, catalog-, purpose-process |
| `tenant-process`, attribute importers | attributes of tenants, with verifiers and dates; kind, features, mails | assign, verify, revoke, date, extend, onboard | its events go to compute-agreements-consumer |
| `authorization-process`, `client-purpose-updater` | clients and producer keychains, with users, keys, purposes or e-services | create, delete, add and remove each of these, remove a purpose from all clients | reads purposes, agreements, e-services; the updater reacts to archived purposes |
| `kafka-iam-auth` (`runConsumer`) | offsets, assignment of partitions | handle, then commit; reset | every consumer |
| `*-readmodel-writer` | MongoDB documents with `metadata.version` | guarded upsert and delete per event | events -> read model |
| `*-platformstate-writer`, `authorization-server` | DynamoDB: platform-states, token-generation-states | join of four event streams by copies; token issue | events -> token decisions |
| outbound writers, exporters, e-mail, notifier, gateway, BFF | none of their own | conversion and forwarding | |

`PROJECT.json` lists all of them, package by package, with what is modelled or why it is not.

### 1.3 What is hard, and what makes each part correct

*Event store.* Concurrent transactions at READ COMMITTED, a SELECT before the INSERT that nothing
locks, a blocking unique key, crashes, deadlock victims. Correct: streams without gaps or
repeated versions, batches all or nothing, no lost update, every call ends.

*Agreements.* A state machine over seven states with three suspension flags that are copied
through upgrades, clones and submissions, a recomputation by events that can fail halfway and
is then repeated, decisions about other agreements of the same pair on lagging reads. Correct: one
agreement in force, terminal states, no access without attributes, nobody lifts the suspension of
another, lost attributes lead to suspension.

*Descriptors.* A lifecycle in which one publication changes two descriptors, suspended ones come
back as published or deprecated depending on others, a delegate's publication waits for approval,
version numbers are reused after deletions, and another service asks for archiving on what it saw a
while ago. Correct: unique versions, one in preparation, the published one is the newest, archived is
final, nothing in use is archived, the unused is archived in the end.

*Attribute groups.* A matching of groups by search. Correct: consumers of an offered descriptor are
asked for nothing more than before.

*Read model.* At-least-once delivery with crashes between write and commit, rebalances while a
message is being handled, a connector that repeats rows, offset resets; upserts guarded by version,
with no unique index. Correct: undisturbed, a past state of the stream; always, the newest version
is not overwritten, and the read model catches up.

*Purposes.* Versions and flags of two parties, quotas compared with sums over other purposes.
Correct: one version in use, suspensions lifted by who made them, quotas passed only with the producer's
consent, ended purposes stay ended.

*Token states.* Four consumers join four streams in two tables without transactions: each writes its own
entry and then the copies of it, and whoever makes or links an entry copies what it finds. Correct: when all
is handled, a token is granted exactly for an active purpose, agreement and descriptor; nothing is retried for ever.

*Clients and keys.* Batches of several events built on one array, a loop over clients read once, the next
service's failure in the middle. Correct: an event says what it changes, thresholds hold, an archived purpose
stays linked to nobody who was seen to have it.

*Tenants' attributes.* Three kinds with rules of their own, verifications of several producers with two dates each,
and the clock. Correct: nothing happens to an attribute that the agreements do not take into account.

Every hazard is listed, at its line, under `hazards` in `PROJECT.json`, with the properties
that cover it or the reason none does.

## 2. Modules

| Module | Models | Extends / used by |
|---|---|---|
| `EventLog` | abstract: an append-only log per stream extended by atomic batches | refined by `EventStore` |
| `EventStore` | `internalCreateEvents` and its table | `EventStoreProofs`, `MCEventStore` |
| `AgreementProcess` | agreement-process, agreement-lifecycle, compute-agreements-consumer | `AgreementProofs`, `MCAgreementProcess`; refined by `TenantAgreements` |
| `CatalogProcess` | catalog-process (lifecycle), eservice-descriptors-archiver, delegations' states | `CatalogProofs`, `MCCatalogProcess` |
| `DescriptorAttributes` | `updateDescriptorAttributes` of catalog-process | `CatalogProofs`, `MCDescriptorAttributes` |
| `ReadModelWriter` | Debezium, topic, `runConsumer`, V2 handlers of the writers | `ReadModelProofs`, `MCReadModelWriter` |
| `PurposeProcess` | purpose-process | `PurposeProofs`, `MCPurposeProcess` |
| `PlatformStates` | the four platform-state writers, what authorization-server asks of an entry | `PlatformProofs`, `MCPlatformStates` |
| `AuthorizationProcess` | authorization-process, client-purpose-updater | `AuthorizationProofs`, `MCAuthorizationProcess` |
| `TenantProcess` | the attributes of a tenant in tenant-process, the filters of agreement-lifecycle | `TenantAgreements` |
| `TenantAgreements` | the composition of `TenantProcess` with `AgreementProcess` | `TenantAgreementsProofs`, `MCTenantAgreements` |

Definitions whose comment begins with *Slip* are the wrong variants a plausible change of the code
would give; nothing uses them except the mutants in `PROJECT.json`, each of which replaces one
definition by its slip and is caught by one property.

How the modules fit together: `EventStore` justifies the one assumption of the process modules, that
a handler writes only on top of the version it has read (`UpToDate` in `AgreementProcess`; an
action that reads and writes one stream in `CatalogProcess` and `PurposeProcess`).
`ReadModelWriter` justifies the other, that what is only read is *some earlier value*
(`ReadsAPastState`), and shows what is left of it when messages are delivered out of order. `TenantAgreements` puts
tenant-process in the place of what `AgreementProcess` calls its environment and shows that it stays within it (proved, section 5).
`PlatformStates` reads the events the other services store; which events may follow each other is taken from them
(`StorePurpose`, `StoreAgreement`, `StoreDescriptor`, `StoreClient`).

### 2.1 EventStore

One call `t` is a transaction, in `phase[t]`: `Begin` takes a batch, `Check` is the SELECT of
`checkEventVersionExists.sql` (`version === undefined` counts as version 0 being new), `Insert`
the INSERT, which waits while another transaction holds the same key (`WaitsFor`), fails on a
committed one, or writes a row only this call sees; `Commit` publishes. `Crash` and `DeadlockVictim`
roll back. `Visible(t)` is READ COMMITTED: committed rows and one's own.

The abstract `EventLog` knows neither SELECT nor locks: an author appends its whole batch, once, and
the result is well numbered. `Log == INSTANCE EventLog WITH Authors <- Txns, log <- events` is the
refinement mapping.

### 2.2 AgreementProcess

The agreements of *one consumer with one e-service*, which is what the handlers look at (`getAllAgreements`
for the pair). `store[a]` has state, descriptor, the three flags (`boolean | undefined`: `Flag`) and
the stamps whose presence is not implied by the state. Attributes are abstracted to the three kinds:
which kinds a descriptor requires and which of those the consumer holds. Each handler of
`agreementService.ts` is an action, with the calculation of `agreementStateProcessor.ts` as
operators of the same names. Reads of other agreements, attributes, descriptors and delegation are
quantified over `Views`: the current ones, or with `StaleReads` any mix of those with earlier ones (the
one before only, if the bound `OneChangeLag` is set, as in the runs; the proofs hold without it). `misread` is a history of what came of it:
the agreements whose activation or submission was decided on past `siblings`, and those a handler judged on past `attributes` or the
recomputation passed over because it was shown their past. It changes nothing; the properties name with it exactly what they do not
claim. `ComputeAgreements` handles one tenant event (all events stored, offset
committed), `ComputePartly` stores some of them and leaves the message to be handled again.
The tenant's attributes, descriptors and delegation change in `Environment`: an attribute event (`ChangeAttribute`)
comes with a message, while new dates (`RedateVerification`) and the clock (`ExpireVerifications`) change what is held
without one.

### 2.3 CatalogProcess

E-services, descriptors and their interface, audience and risk analyses; agreements are environment here,
reduced to what the handlers look for, and a delegation (`ChangeDelegation`) to its state and to whether the
handlers of `delegation-process` find its e-service. `Publication` is shared by
`PublishDescriptor` and `ApproveDescriptor`, as in the code; it archives or deprecates the version
published so far according to the agreements it *sees* (`MaySeeNone`, `MaySeeSome`). The archiver
is two actions with a window between them: `RequestArchiving` decides on its reading of agreements and descriptors,
`ArchiveDescriptor` is the later call, which `archiveDescriptor` accepts in any
state; `SkipArchiving` is the path that finds nothing to do. `misread` is the history of the descriptors about which one of the two decided
otherwise than it would have on current data.

A risk analysis is absent, incomplete, or complete under the rules of one of the `TenantKinds`. The producer's kind is state of tenant-process
which may change between any two steps, so it is no variable: whenever `publishDescriptor` validates (`RiskAnalysesComplete`), it finds some kind, and all
risk analyses have to be complete for that one. `ApproveDescriptor` looks at none of this, as in the code.

### 2.4 DescriptorAttributes

A pure search made into a small state machine: draft, offered, and the one update allowed then.
`SupersetSeed` is `Array.find` (the first group of the seed that contains the group), `NewAttributes` and
`Accepted` the two conditions of `validateAndRetrieveNewAttributes`.

### 2.5 ReadModelWriter

One stream, which lives on one partition. `Publish` and `RestartConnector` are the connector;
`EachMessage`, `HandleMessage`, `CommitOffset` the three stages of `runConsumer` in each consumer
of the group; `Crash`, `Rebalance`, `ResetOffsets` the faults. Documents are bags of versions: an
upsert on `metadata.version <= v` replaces one match or inserts a copy, and since no unique index on
`data.id` exists in the repository a late upsert makes a second copy. `disturbed` records whether a
message may have arrived after a later one (a repeated row, a reset, or a writer that lost its partition
with a message in hand).

### 2.6 PurposeProcess

The purposes of several consumers with one e-service. A purpose is its versions (state and daily
calls), oldest first, and two flags. Sums over the read model may be stale, so `isOverQuota` may come out either
way, and `misread` says whether the last step was wrong; properties that need current sums say so.
`activatePurposeVersion` branches on state, role and flags into `ActivateDraft`,
`ApprovePurposeVersion`, `UnsuspendUnchecked` and `UnsuspendWithinQuota`, as its `match` does.

### 2.7 PlatformStates

One purpose of a consumer, the agreements of the consumer with the e-service, the e-service's descriptors, one client and its
keys. `log[s]` holds the events of a stream, each carrying what its handler reads; `pos[s]` and `hand[s]` are the
consumer: the message in hand, the next DynamoDB call, and what was read before. Every call on DynamoDB is an action,
so the consumers interleave between any two:

| Code | Actions |
|---|---|
| purpose-platformstate-writer | `PurposeStore` (entry), `PurposeStates` (copies); for activations `PurposeQuery`, `PurposeReadAgreement`, `PurposeReadCatalog`, `PurposeFill` |
| agreement-platformstate-writer | `AgreementRead`, then `AgreementSkip`, `AgreementUpsert`, `AgreementUpdate` or, when archived, `AgreementStates` and `AgreementClose`; `AgreementReadCatalog`, `AgreementFill`, `AgreementCheck`, `AgreementRefill` |
| catalog-platformstate-writer | `DescriptorSkip`, `DescriptorStore`, `DescriptorStates`; for a publication that archives the previous version also `PreviousDelete`, `PreviousStates` |
| authorization-platformstate-writer | `ClientSkip`, `ClientStore`, `ClientDelete`; to make entries `ClientReadPurpose`, `ClientReadAgreement`, `ClientReadCatalog`, `ClientPut`, the same reads again, `ClientUpdate` |

A token entry keeps, per key, the copies of the three states, the agreement's identifier, the descriptor and its voucher
lifespan. The entries `client#kid` and those of API clients, which copy no state, the purpose's version identifier and the audience are
left out. The secondary indexes are taken as up to date, and the calls of one loop over the keys of a client are one step.

The writers are not transactional, and some copies really are overtaken. `lost` is a ghost that names, at the step
where it happens, the part of the entries that may be stale from then on; the properties claim nothing of that part and
everything of the others. Its causes:

- what a writer read was changed before it wrote it (`Overtaken`, `OvertakenEntry`), or the pair's entry became another agreement's while the
  copies were still being made (`Superseded`);
- the second retrieval of the authorization writer does not look at deletions or at the agreement's identifier
  (`OvertakenRetrieval`), and compares what it reads with what it *put*, so that after a change of the agreement it leaves the state
  of the earlier descriptor (`LeftOfBefore`);
- the agreement writer's second look at the descriptor compares the state only (`AgreementCheck`), and the archiving of an
  agreement writes the copies before the entry (`AgreementClose`); the purpose writer does not look twice;
- a redelivered `EServiceDescriptorQuotasUpdated` is skipped once the entry is written (`DescriptorSkip`).

Nothing in the repository fixes the number of processes of a writer, so the agreements of the pair, whose events lie on partitions of their own
but share an entry, have each a handler of its own (`hand[a]`), and these interleave between any two calls. One process that handles them all, one message at a
time, is a special case of it.

### 2.8 AuthorizationProcess

Clients and producer keychains differ in little more than what they are linked to, so both are *holders*: users,
keys, and one link (the purpose, or the e-service). `holder` is the event stores' truth, `pending` the events the
read model does not show yet, `shown` the read model. A request is one action, and reads only `shown`; `Store` refuses an
outdated version. Users are added by a batch with an event for each; all events of the batch hold the same array of users, which is serialised
when the last one is in it, so each of them carries all new users (`UserAddedEvents`). `removePurposeFromClients` is several: `GetClientsRelatedToPurpose` reads the list,
`RemoveFromNextClient` stores an event per client, `ConflictOnNextClient` and `BreakOff` end the call, after which the event
`PurposeArchived` is handled again. `late` is a ghost: the clients that were linked to the purpose although the last list
could not show it.

### 2.9 TenantProcess and TenantAgreements

One attribute of each kind. A certified or declared attribute is never assigned, held or revoked; a verified one has a set of
verifications, each with three dates, and the producers that took theirs back. `Announce` stores an event that
compute-agreements-consumer handles, which carries the tenant as it is then; `Record` one it passes over. The
handlers that assign and revoke certified attributes share `assignCertifiedAttribute` and `revokeCertifiedAttribute` in the
code, and so they do here. The clock, `Tick`, makes verifications expire, and nobody is told.

`TenantAgreements` has the variables of both sides. In `A == INSTANCE AgreementProcess WITH held <- HeldBy(...), messages <- ...`
the attributes held are those that count for the e-service's producer *now*, and so are those of each event: the consumer of the
event evaluates dates when it handles it. `StaleReads` is that of `AgreementProcess`: with it handlers and recomputation may read the agreements, attributes and
descriptors as they were, in the run as they were one change ago. `ImplementsAgreements == A!Spec` is checked as a refinement and proved, so what is proved of
`AgreementProcess` holds of the composition. The producer may verify an attribute only under an agreement that asks for it
(`VerificationAllowed`).

## 3. Runs

Bounds are constants of the modules or finite sets of model values given in the configurations.

| Run | Instance | Shows |
|---|---|---|
| `event_store` | 2 streams, 3 calls, 9 batches | no gaps, unique versions, atomic batches, no lost update, refinement of `EventLog`; every call ends |
| `agreement` | 2 agreements, 2 descriptors, a delegate, `MaxMessages` 1, current reads | one in force, one pending, platform flag, stamps, attributes needed, revocations not lost, ended agreements, succession |
| `tenant_agreements` | 1 agreement, 1 descriptor that asks for a declared and a verified attribute, reads lag by one change (`OneChangeLag`), `MaxTime` 2, `MaxVersion` 3, `MaxEvents` 2, fair consumer | tenant-process refines the environment of `AgreementProcess`; revocations suspend |
| `catalog` | 1 or 2 e-services, 2 descriptors, 2 agreements, 1 risk analysis, 2 kinds of tenants, current reads, fair archiver | versions, one draft, newest offered, final publication, used not archived, offered complete, unused archived |
| `catalog_deletion` | 1 e-service, 2 descriptors | violation (section 6) |
| `attributes` | 2 kinds, 2 attributes, `MaxGroups` 2 | groups kept, extensions accepted |
| `attributes_seed` | 1 kind, 3 attributes, `MaxGroups` 2 | violation (section 6) |
| `read_model_writer` | 2 documents, 2 consumers, `MaxEvents` 3, `MaxFaults` 2 | past state, newest kept, convergence |
| `purpose` | 2 purposes (3 and 2 versions), `MaxCalls` 2, a delegate | versions, flags, quotas, ended purposes |
| `platform` | 2 agreements, 3 descriptors, 1 key, `MaxSteps` 7 of which 5 are past events, a handler at work for each agreement | settled entries, pair's entry moved back by a late decision only, every message handled |
| `platform_lifespan` | the same | violation (section 6) |
| `authorization` | 2 clients, 1 keychain, 2 users, 2 keys, `MaxKeys` 1, `MaxRequests` 3, `MaxFailures` 1 | events, thresholds, removal of an archived purpose |

Why these bounds are enough to meet the interesting cases:

- *Event store.* Two calls are needed for a conflict, three for one that waits on a key whose holder
  then rolls back while another inserts; two streams in both orders for a deadlock; batches of two for
  atomicity.
- *Agreements.* Every property is about one agreement or two of a pair; the two descriptors differ in
  attributes and approval policy, so an upgrade crosses both. `MaxMessages` bounds the tenant
  events waiting; one is enough to act on outdated attributes, two (in `tenant_agreements`) to overtake
  a failed one. Lagging reads of two agreements multiply the states beyond what a run can visit: this run reads current data, so `misread` stays empty
  and nothing is exempt; `tenant_agreements` lags, with one agreement; and every safety property of the module is proved for both
  values of `StaleReads` and any number of agreements (section 5).
- *Tenants.* Two dates after the start give a verification that expires, one prolonged, and one dated back; three
  events of the tenant are the two attributes assigned and one revoked, or one assigned, revoked and assigned again, or one
  verified, dated and extended. One agreement is enough for a recomputation that is shown the agreement's past, or fails and is handled again behind the next event;
  that of several, of which some are stored before it fails, is covered by the run `agreement` and by `RevocationsAreNotLost` (section 5). One verifier, the producer: verifications of others do not count for this e-service, and their
  events are those of another attribute.
- *Catalog.* Two descriptors in one e-service give published and draft, or deprecated and published; or each is in an
  e-service of its own, when one was cloned from the other. More versions, and lagging reads, are left to the proofs. Two kinds of tenants are the one a risk analysis was
  made for and another. Two agreements are
  the two that may hide each other from the archiver.
- *Read model.* Overwriting needs two versions of a document and a third to tell past states from
  the last one; two faults combine, for example, a rebalance with a crash. With one fault the duplicate
  copies already appear.
- *Purposes.* The quota of a consumer is 1 and the total 2, so one call fits, two do not, and both purposes
  together reach the limit exactly; three versions are one archived, one in use and one waiting.
- *Token states.* The initial state has five events behind it, of which the purpose's activation and the client's link, the two
  that copy most, are still to be handled. Two more steps (events of any stream, crashes, redeliveries) are what it takes to overtake a copy and its
  correction; each of the causes of `lost` above was found at these bounds. The entry moves from one agreement to the next, on
  another descriptor, by one event; three descriptors leave one to publish.
- *Clients.* Two clients are a list of which one was updated when the other fails; three requests and one failure
  on top of that fill a key's place in two holders, add two users in one batch and change a client under the loop.

Deadlock is checked in `event_store` (where `Terminated` is the allowed end), `attributes`,
`attributes_seed` and `purpose`. The other configurations say `CHECK_DEADLOCK FALSE` because the
bounded system may really stop: identifiers are used once, events and messages are bounded, and nobody has to ask for
anything.

Symmetry is used in runs without liveness only, over identifiers no definition distinguishes
(agreements, attributes, kinds).

### Fairness

- `EventStore!FairSpec`: weak fairness of each statement of a running transaction and of the deadlock
  detector, Postgres's own. Nothing forces a call to begin, and crashes are not fair.
- `TenantAgreements!FairSpec`: weak fairness of `Compute`, the handling of the first tenant event, since `runConsumer` keeps polling and
  exits to be restarted when a handler fails, so a message stays until it is handled. Nobody else is fair.
- `CatalogProcess!FairSpec`: the same for the archiver, including its HTTP call, which is
  repeated with the message.
- `ReadModelWriter!FairSpec`: the connector publishes and each consumer goes on with its stage. Faults are
  bounded by `MaxFaults`: with unboundedly many crashes no consumer converges.
- `PlatformStates!FairSpec`: weak fairness of the consumers as a whole, which is less than of each; crashes and
  redeliveries are bounded by `MaxSteps`.
- `AuthorizationProcess!FairSpec`: the read-model writers as a whole, and client-purpose-updater, which is given its message again until a
  call succeeds. `BreakOff` is bounded by `MaxFailures`; conflicts are not, and end because the read model catches up.

## 4. Properties

Each module has one type invariant, `TypeOK`, which is proved where there are proofs and takes no run. The others, with the code they are about, are
commented where they are defined, at the end of each module. The ones that took most steps to violate:

- `NoLostUpdate` and `ImplementsLog`: two calls pass the SELECT before either inserts.
- `PlatformFlagTracksCertified`: `updateAgreementState` acts only when the platform flag
  changes, so the flag must never disagree with the state, through upgrades and clones also.
- `ArchivedForSuccessor`: a batch never archives an agreement in favour of one that is not in force.
- `NewestIsOffered` with `StaleReads`: no matter what the archiver saw and how late its call comes.
- `OfferedIsComplete`: approval by the producer repeats none of the checks of the delegate's publication,
  so nothing may undo them in between: interface, audience and risk analyses that were complete for the kind publication found. That the producer still is of this
  kind when it approves is not claimed, for nobody looks.
- `ReadsAPastState`: holds through crashes at any point; and `NewestKept`, `Converges` also with
  reordered deliveries, duplicates and resets.
- `QuotaKept`: four paths make a version active, with different deltas.
- `Settled`: an activation that links an entry, a publication and an upgrade, each halfway, in any order, with one of them
  delivered again.
- `EventsTellTheChange`: a batch that adds two users, whose events all carry both, and the loop's events on clients that were read before. A
  consumer that goes by the named items and one that takes the whole holder agree again when the batch ends.
- `LatestKept`: two handlers at work on the pair's entry, each of which read it before the other wrote.
- `UnlinkedOnceHandled`: a call that fails on the second client after the first was updated, and a link added since.
- `ImplementsAgreements`: every handler and the clock change the attributes held only in ways the agreements are told of, or that
  `AgreementProcess` allows without telling.
- `RevocationsEnforced`: a revocation whose recomputation fails halfway, behind another one, with lagging reads; attributes granted in between. Its
  safety part, `RevocationWaits`, is that of several agreements: active without an attribute only while the event of the loss waits.

What lagging reads break. Without their exemptions for what was `misread`, and with `StaleReads`, TLC finds violated: `OneInForce` and `OnePending` (two
submissions that do not see one another); `ActiveNeedsAttributes`; `RevocationWaits` and `RevocationsEnforced` (an
agreement just activated is still shown pending, so the recomputation leaves it as it is, stores nothing and commits the message: it stays active without the revoked
attribute, `agreementStateProcessor.ts:322`); `UsedNotArchived` (publication or archiver does not see a new agreement) and `UnusedArchived` (the last two
agreements of a descriptor are archived together and each message sees the other one in force); `QuotaKept`. No
document of the repository promises otherwise. The histories record each decision that went by the past, the properties except what it
was about and nothing else, and the cases are recorded as hazards. So the properties say that a lagging read is the *only* way to
these states: no interleaving, failure or retry leads there with current reads.

Further behaviour met while modelling that no document contradicts, recorded as hazards:

- a new purpose version within the quotas is active although the producer has suspended the
  purpose, and the flags stay (`purposeService.ts:791`);
- a purpose whose first version was rejected accepts nothing any more, and what keeps it so is a `TypeError`
  (`purposeService.ts:727`);
- a consumer that is also the e-service's delegate cannot get its agreement or purpose approved while the delegation
  lasts;
- an upgrade of an agreement the platform suspended copies the state without the platform's flag;
- an agreement submitted for automatic approval becomes active with suspension flags a draft has inherited
  (`agreementService.ts:445`, with a TODO), so an active agreement may carry them;
- `updateTenantVerifiedAttribute` sets the expiration of a verification and leaves its extension, which alone counts: a comment assumes the
  extension after the expiration (`agreement-lifecycle/src/utils/verifiedAttributes.ts:27`), which then does not hold;
- a verification that expires, or is prolonged, is announced to nobody who recomputes agreements;
- a tenant's kind is computed from revoked attributes too (`tenant-process/src/services/validators.ts:180`);
- the token entries may keep a part for good that was overtaken while it was copied (section 2.7); with two agreements of the pair handled at
  once, one of the handlers may put the pair's entry back to the earlier agreement (`LooksBack`);
- risk analyses are validated against the kind the producer has at that moment: an approval does not validate them again
  (`catalogService.ts:1852`), and an e-service in mode RECEIVE whose producer's kind has changed cannot publish another version until they are made anew;
- two holders may be given one key at the same time, as the read model is all that is asked (`authorization-process/src/services/validators.ts:112`);
- deleted drafts and rejected agreements may leave a deprecated descriptor unarchived;
- late deliveries leave duplicate documents, and may bring a deleted one back, in the read model.

## 5. Proofs

Everything below is checked by TLAPS, with no step left out, for every value of the constants that satisfies the assumptions named in
the modules that declare them:

| Assumption | Says |
|---|---|
| `EventStore!BatchesAssumption` | batches are nonempty lists of events of known streams, with versions that are numbers or `NoVersion`, which is none |
| `AgreementProcess!ConstantsAssumption`, `PurposeProcess!QuotaAssumption`, `TenantProcess!BoundsAssumption` | bounds and quotas are natural numbers, attribute sets are sets of kinds, switches are Boolean |
| `CatalogProcess!StaleReadsAssumption`, `NoneAssumption`, `TenantKindsAssumption`, `DescriptorAttributes!MaxGroupsAssumption` | switches, a value that is no identifier, kinds of tenants that are not states of a form, a bound |
| `AuthorizationProcess!ConstantsAssumption` | clients are not keychains; clients, users and keys are finitely many |
| `ReadModelWriter!BoundsAssumption`, `PlatformStates!BoundsAssumption` | bounds are natural numbers; there are an agreement and two descriptors to begin with |

No theorem has a hypothesis of its own: all hold for reads however late (`StaleReads` without `OneChangeLag`), and for any number of processes of a writer. What such a read or an
overtaken write may spoil is named in the property, by the histories `misread` and the marks `lost`.

**EventStoreProofs.** `TypeCorrect`, `StreamsHaveNoGaps`, `VersionsAreUnique`, `CommitsOnlyAppend`, `BatchesAreAtomic`,
`StoreImplementsLog`. The inductive invariant is

    IInv == TypeOK /\ InBatch /\ Ownership /\ KeysUnique /\ NoGaps /\ Grounded

`NoGaps` alone is not inductive: a commit adds rows of a transaction, so something has to be known of rows
not yet committed. `Grounded` says that below a pending row, and below the version a
call has just computed, every version is visible *to that call*; it survives because visible
rows only go away with the call's own rollback. `KeysUnique` extends uniqueness to pending rows of all calls,
which is what the blocking unique key gives. `Ownership` ties rows to calls, for the refinement: an author
whose call has not committed has written nothing. The step proof has one lemma per action. `BatchesAreAtomic` adds
`Counted`: a running call has written exactly the rows its place in the batch says, a committed one its whole batch.

**AgreementProofs.** `TypeCorrect`, `FlagTracksCertified`, `StampsAccompanyFlags`, `EndsAreFinal`, `ResumedByAll`,
`AccessPassesOn`, `OnlyOneInForce`, `OnlyOnePending`, `AccessIsGranted`, `RevocationsAreNotLost`. The first six rest on

    Inv == TypeOK /\ (\A a \in Agreements : Coherent(store[a])) /\ was.delegated \subseteq BOOLEAN

`Coherent` is what every handler keeps of one agreement: which flags go with which state and which stamps with which flag.
It takes more than the checked invariants say (a rejected agreement has no flags, an absent one nothing), because upgrades and clones copy
flags and stamps into agreements of another state. A step is described once, by `Steps`: each agreement stays coherent and changes
as `Proper` allows (an ended one not at all, none from suspended to active with a flag left), and an archiving in favour of another
leaves one in force (`Succession`). Each action has a lemma that concludes `Steps`; the lemmas on the operators of
`agreementStateProcessor.ts` (`NextStates` and the following) come first. These six do not depend on what a handler has read of other agreements, of
attributes or delegations, so they hold for `StaleReads` TRUE, any number of agreements and descriptors, and through `ImplementsAgreements` for
tenant-process as it is.

The other four do depend on it, and say how far. `Exclusive` says of a step that one which brings an agreement into force, or makes
it wait, leaves no other one so unless it is marked in `misread.siblings`, and that whoever gains access has what the descriptor asks for or is marked in
`misread.attributes` (`Granted`); most handlers do neither (`Modest`). An upgrade hands the mark on to the agreement it makes (`Succeeded`).
`RevocationsAreNotLost` takes `Announced` in addition: a message that says the consumer has a kind it has no longer is followed by the one that says so,
hence a recomputation on an earlier message cannot lose the revocation, also when it stores some agreements and fails on the next.

**TenantAgreementsProofs.** `TypeCorrect` and `TenantsAreTheEnvironment`, the refinement `ImplementsAgreements`, for any producers, dates,
agreements and descriptors. Each request of tenant-process changes attributes of one kind only, which is the kind its event names
(`Changed`, `SameKinds`); the clock takes the verified kind away and never gives it back (`KindsExpire`), from what is held now and from what
waiting events say alike. So `Announce` maps to `ChangeAttribute`, `Record` to `RedateVerification` or a stutter, and `Tick` to
`ExpireVerifications`.

**CatalogProofs.** `TypeCorrect`, `UniqueVersions`, `OneInPreparation`, `NoReturn`, `LatestKept`,
`FinalPublication`, with

    Inv == TypeOK /\ Order /\ ArchiverInv
    Order == VersionsUnique /\ DraftIsNewest /\ PublishedIsNewest /\ NewestIsOffered /\ NewestExists

The four properties of `Order` need one another: the published descriptor is the newest because only the
unique greatest unpublished one is ever published. `NewestExists` is there because the set of descriptors may be
infinite in the theorem, and a set of versions without a greatest element would satisfy the others. `ArchiverInv`
is what makes late calls harmless: whatever snapshot the archiver may see, what looks archivable in it has
already been superseded, and superseded descriptors stay so (`SupersededStays`). The step lemma shows
`Final`, from which `FinalPublication` follows. `StaleReads` may be either value.

`CompleteOnceSubmitted`: each step either submits a descriptor it has just checked (`Checked`) or leaves
alone all that was checked of a submitted one (`Unaltered`), whatever becomes of the producer's kind. `UsedIsKept` takes `ArchivingUnused` in addition: nobody uses a descriptor
the archiver has asked to archive, unless it is in `misread`, and since such a descriptor is superseded no agreement is submitted for it before the
answer; the history only grows (`MisreadGrows`).

The module also proves `DescriptorAttributes`: `OfferedGroupsKept`, since a seed that is accepted covers every group (`AcceptedKeeps`)
and no other step touches the groups of an offered descriptor; and `WideningAccepted`, that any seed which extends each group by
one of its own is accepted, and refused as unchanged only if it is. The latter rests on an argument about finite sets: in a seed that adds
nothing, the first superset of a group is the group itself; groups that differ find different ones; and as many of the one as of the other
leave none over (`NothingNew`).

**PurposeProofs.** `TypeCorrect`, `SingleVersionInUse`, `SuspensionHasOwner`, `NoneLiftsTheOthers`, `EndIsFinal`, with the invariant that every
purpose is `Sound`: one version in use, only the newest waits, a draft is alone, a suspended version has somebody's flag, and a
producer's own purpose never has its consumer's, since the producer lifts only its own. A step is `Handled(p)`: it gives one purpose a sound value
by a `Proper` change. The sums of daily calls play no part in these, so they hold however stale the sums are.

**AuthorizationProofs.** `TypeCorrect`, `EventsTellWhatChanged`, `KeysBounded`, `UnlinkedWhenHandled`. The invariant ties
`shown`, `pending` and `holder` together: `Chained(h)` says that from what the read model shows, through the events it does not
show yet, to the stored holder, each event makes one version from the one before and changes what it names. Hence a request that
reads the version that is stored has read the holder as it is, and the threshold of keys, though counted in the read model, holds.
`Unlinking` follows the removal of an archived purpose: each client that is still linked is late or still in the list, and a listed client at
the version it was read at is what was read (`AsRead`).

**ReadModelProofs.** `TypeCorrect`, `PastStateShown`, `NewestNeverOverwritten`. While no message was overtaken (`~disturbed`) the
invariant `InOrder` says that only the owner of the partition still has to write, that its message is the one after the offset, and
that the documents show the state of the stream at the offset or right after that message, which makes a repeated
message harmless. `NewestNeverOverwritten` needs the types only: it is a fact of each guarded write, and holds for messages in any order.

**PlatformProofs.** `LatestEntryKept`, `PlatformSettles` and its parts `EntriesAreTheKeys`, `PurposeReachesEntries`,
`AgreementReachesEntries`. The first is the run's `LatestKept`, the second its `Settled`; the parts are the conjuncts
`EntriesSettled`, `PurposeSettled` and `AgreementSettled` of the latter. All hold for any number of agreements, descriptors, keys, events, crashes and
redeliveries. The invariants say what is still to come rather than what is:

- `LatestInv`: what a handler decides on is an agreement the entry has shown (`Looked`), so the entry goes back only where it has since become a later one's.
- `EntriesInv`: an entry is there exactly for the client's keys with its purpose, or an event *ahead* of the offset makes or deletes it
  (`Ahead`, `CaughtUp`), for each key by itself; after the client's deletion, when nothing tells old events from new ones, `Erased` says that what they
  make again the deletion, handled again, takes away.
- `PurposeInv`: an entry that is there shows whether the purpose is active (`Matches`), or an event ahead writes it anew (`Pending`), or the
  handler in the middle of its two retrievals has the right answer in hand and will write it (`OnHand`), as soon as the purpose's own handler is
  past its update (`Reached`); except where the model has marked the part as lost. The hard steps are the second retrieval of
  `updateTokenGenStatesDataForSecondRetrieval`, the deletion of the entry by `PurposeArchived`, and the same event delivered again.
- `AgreementInv`: the entry of the pair shows an event of its agreement that is not older than the last one handled, and no later agreement
  has been handled (`PairInv`); an entry that is not linked to the pair copies nothing, and what the purpose's and
  the client's handlers have read is true or will be read again (`LinkInv`). Each token entry then owes (`AgreementOwed`): every part is what the pair's entry
  says, or an event ahead will write it, or a handler at work holds the right answer or is about to read it again; except where the part is marked
  as lost. The events of several agreements of the pair may be at work at once: a handler decides on the entry as it was, which is of the same agreement or an
  earlier one (`WorkOf`), and the late copies of an older agreement can come after those of the next. Each such write marks the part as lost
  (`Unsuperseded`), so the step lemmas need only those that do not, and the theorem keeps `"agreement" \in lost \/ AgreementInv`.
- `DescriptorInv`: for a descriptor that is not archived, its entry shows an event of the e-service's stream, and none about it was handled
  since (`OfferInv`); the descriptor of an agreement in force is such a one (`InUse`). Each linked token entry shows its state and lifespan, or
  the e-service's handler has still to tell it, or the agreement's handler has still to fill it in, or an event ahead will make it
  anew, or the client's handler is about to read again what has changed (`DescriptorOwed`, `CopyOwed`). TLC checked this invariant on a small instance
  before it was proved.

The grants (`GrantSettled`) follow from the other parts: a token is given for a key if and only if the streams have its purpose active, its
agreement in force and its descriptor on offer (`GrantIsSettled`).

**Only model-checked.**

- Liveness: `EveryCallEnds`, `RevocationsEnforced`, `UnusedArchived`, `Converges`, `Settles`, `ArchivalHandled`. They need ENABLED under
  fairness and are out of the prover's reach.
- `QuotaKept`: the sums of daily calls are folds, and what a fold computes for every input takes induction over data, which the provers cannot
  instantiate. For the same reason the type invariant of `PlatformStates`, which bounds the lengths of all streams by a sum, has no theorem; the invariants
  above carry the types they need.

## 6. Disagreements between code and documents

Three runs end in a violation, each of one property that states what a comment or message of the code says.

- `catalog_deletion`, `DelegatedEServiceExists`. `deleteEService` refuses an e-service with a delegation;
  `deleteDraftDescriptor` deletes it with the last draft, without looking (`catalogService.ts:1098`). The
  delegation can then be neither approved nor revoked.
- `attributes_seed`, `SeedExtends`. "each attribute group contained in the seed must be a superset" of the corresponding one
  (`catalogService.ts:1967`), but one group of the seed may stand for two, which leaves room for an unrelated group:
  `[[a],[b]]` may become `[[a,b],[c]]`.
- `platform_lifespan`, `LifespanReaches`. A test says that the handler of `EServiceDescriptorQuotasUpdated` updates the token entries
  when it has a newer message; after a stop between its two writes the message is delivered again and skipped, since the entry shows the new
  lifespan (`catalog-platformstate-writer/src/consumerServiceV2.ts:237`), and the copies keep the old one.

## 7. Plan

Done: the event store and its refinement; agreements, with their proofs; tenants' attributes and their composition with agreements;
descriptors with the archiver and delegations' states; attribute groups; the read-model writers; purposes; the token states; clients and
keychains.

Proved: everything listed in section 5.

Next, in this order:

1. `DocumentStorage`: S3 files and the events that refer to them (a file deleted before its event is refused), for e-services
   and agreements.
2. Delegations with their identities (delegator, delegate, the feature the delegate needs), and the tenant's kind and features in
   `TenantProcess`.
3. Keys of one kid in two keychains, with partitions of their own, in `ReadModelWriter`.

## 8. Not modelled

- Handlers of version 1 events in the writers, of the read model and of the token states: they replay a legacy journal field by field.
- Authentication, rate limiting, contracts and other PDFs, e-mails, the content of risk-analysis forms, names and
  descriptions: they let a call fail, which is the same as no call, or change nothing the properties mention.
- Queries, gateway, back end for front end, exporters, outbound writers, notifiers: no state, or a copy
  with the delivery `ReadModelWriter` has.
- Postgres, Debezium, Kafka and MongoDB are modelled as the code uses them and marked external: isolation and
  unique keys, ordered rows with repetition, ordered partitions with redelivery, single-document updates that are atomic.
- Uniqueness of e-service and purpose names and of keys: a check in the read model on which nothing modelled depends.
- A tenant's kind, features and mails; maintenance operations on tenants and attributes.
- The parts of a token entry that copy no state: audience, version of the purpose, API clients.
