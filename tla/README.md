# Formal models of the Nexspence artifact server

This directory holds TLA+ models of Nexspence: of the core where requests,
background jobs and servers change the same artifacts (the asset table in
PostgreSQL, the objects in the blob stores, the usage counters, and the jobs that
delete, collect, migrate and promote them), and of the services around it (formats,
proxies, groups, uploads, scans, replication, import, backup, accounts, access,
administration, audit, events). TLC checks the models on small instances; TLAPS
proves every safety property that the runs of the core check, and those of proxies, events,
scans, repository and blob store administration, the login guard and the import, for
every instance.

`PROJECT.json` is the index: components, runs, the mutants that show each
property can fail, the map from definitions to source lines, findings, hazards
and theorems. Line numbers below are of the commit under `src/`; paths are
relative to `src/internal/`.

## 1. The system

Nexspence is one Go binary, run as any number of equal servers over one
PostgreSQL database, an optional Redis and one or more blob stores (local
directories or S3 buckets, possibly grouped). Clients speak the protocols of the
hosted formats (OCI, Maven, npm, raw and others), administrators the REST API.

The central fact for correctness is that **rows and objects share no
transaction**. A row of `assets` names a blob key in a store; the object under
that key is written and deleted by separate calls. Several rows may name one key
(the digest alias of a manifest, a mounted layer). Whatever keeps the two in step
is protocol: the order of calls, advisory locks in PostgreSQL, locks with a TTL
in Redis, re-reads under a lock, compensation after a failure.

### Components

| component | state | operations | talks to |
|---|---|---|---|
| artifact waist, `formats/base/store.go` | none of its own | `StoreArtifact`, `RegisterStoredBlob`, `FetchArtifact`, `DeleteArtifact` | every format calls it; it calls asset table, blob store, counters |
| asset table, `repository/postgres/asset_repo.go` | `assets`: id, path, blob key, store, size, checksum, times | upsert, delete by id, conditional deletes, counts per key, `WithBlobKeyLock` | waist, cleanup, OCI, migration, promotion |
| blob store records, `repository/postgres/blobstore_repo.go` | `used_bytes`, quota | `UpdateUsedBytes`, recount, quota locks | waist, GC, migration |
| storage backends, `storage/` | objects | `Put`, `Get`, `Delete`, `List` | all of the above |
| OCI registry, `formats/oci/` | upload sessions on disk | manifest push with digest alias, chunked uploads, mounts | waist, asset table |
| cleanup policies, `service/cleanup_service.go` | policies, runs | select stale assets, delete each one | asset table, blob stores |
| garbage collection, `service/gc_service.go` | none | `CompactAll` (cron, locked), `CompactStore` (administrator) | asset table, blob stores, counters, Redis lock |
| distributed locks, `distlock/` | a Redis key with a token and a TTL | acquire, release, force-release | GC, cleanup, migration, replication |
| blob store migration, `service/blob_store_migration_service.go` | `blob_store_migrations`, a goroutine per migration | start, cancel, run, resume at start-up | asset table, two stores, counters, Redis lock |
| promotion, `service/promotion_service.go` | `promotion_rules`, `promotion_requests` | rules CRUD, promote, approve, reject, copy with rollback | scan results, components, assets, blob stores |
| scanning, `service/scan_service.go` | a bounded queue, the Trivy mutex, a cached probe, results in two tables | enqueue after an upload, worker, daily bulk scan, request of an administrator | waist, component table, promotion's gate |
| replication, `service/replication_service.go` | rules, cron entries per server, history | rules CRUD, reload, run: push what the target does not list | asset table, blob stores, a remote server |
| proxy repositories, `formats/repoproxy/` | cached rows and bytes with a freshness time | serve, fill, revalidate, serve stale | waist, an upstream |
| group repositories, `formats/group/`, `groupindex.go` of the formats | membership, routing rule | first answer wins, merged indexes, paged lists | the handlers of the members |
| hosted formats, `formats/<format>/` | component rows, index lines, tags | publish, tag, yank, delete, build an index | waist, component table |
| Nexus import, `service/nexus_migration_service.go` | job row, one goroutine per job | create, pause, resume, delete, re-attach, seven stages | waist, every table, a remote Nexus |
| backup, `service/backup_*.go` | an archive | export, restore, export and import of one repository | every table, the store of the configuration |
| users, tokens, `service/user_service.go`, `api/handlers/auth.go` | accounts, cut-off, API tokens | login (password, LDAP, OIDC, SAML), change, revoke, check | HTTP API |
| login guard, `auth/loginguard/` | failures per server and in Redis | check, record failure, record success | logins |
| access, `service/rbac_service.go` | roles, privileges, selectors | CRUD, decide a request, filter a listing | HTTP API, every listing |
| repository and blob store administration | `repositories`, `blob_stores`, a registry of open stores per server | create, replace, patch, delete | waist, cleanup, routing rules |
| webhooks, events, `service/webhook_service.go`, `events/` | hooks, listeners' channels | dispatch, subscribe, deliver | every handler that changes something |
| download counter, `service/download_counter.go` | a buffer | record, flush | asset table, cleanup |
| audit log, `audit/`, `api/audit_middleware.go` | monthly partitions | record, make ahead, drop | HTTP API |
| rest of the HTTP API, infrastructure, server process, frontend | - | routing, wiring, observability | everything |

### What is hard here

* **Interleaving.** Uploads take no blob-key lock; deletes, cleanups and mounts
  do. The collector and migrations run for hours beside all of them.
* **Stale reads.** A delete and a cleanup decide on a row read before the lock. A
  registration reads the previous row before its quota locks. A collector's pass
  works with references and listings that are minutes old. A promotion is filed
  under rules that change while it is pending.
* **Partial failure and crashes.** Every operation makes several calls, each of
  which may fail, and a server may die between any two.
* **Time.** The Redis locks have TTLs that nothing renews. The collector trusts an
  age gate to spare uploads it cannot see.
* **Read, check, write back.** Repositories, rules, profiles and tags are read, merged
  and written back whole in calls of their own; what they refer to is deleted beside
  them. Cron entries and store instances are caches of rows that others change.
* **Documents made of several reads.** Indexes, listings, archives and bulk scans are
  put together page by page, member by member, while the tables change.
* **Counters.** `used_bytes` is adjusted by five different paths, floored at zero,
  and quotas are decided on it.

What makes each component correct: a row names bytes that exist, and those last
stored under its key; bytes nobody names are deleted or left for the collector; a
delete removes what it was asked to remove; counters follow the bytes and quotas
hold; at most one pass or migration works under a lock; every job ends and leaves
nothing blocked; nothing is promoted past its gates, and a failed promotion
leaves nothing behind. Of the services: what was acknowledged (a chunk, a publish, a
tag, an event) stays; what is reported (clean, ok, done, freed) is true; what an index
promises is what a download brings; withdrawn rights and ended sessions stay withdrawn
and ended; what a row refers to exists; what is dropped is picked up later.

## 2. Modules

| module | models | proofs |
|---|---|---|
| `ArtifactStore` | uploads, digest aliases, deletes, cleanups and mounts over rows, objects and the blob-key locks | `ArtifactStoreProofs` |
| `QuotaRegistration` | `RegisterStoredBlob`: the two quota locks, the usage delta, the counter; pushes of tags with their digest alias, mounts of layers, deletes that move the counter back | `QuotaRegistrationProofs` |
| `BlobStoreMigration` | the migration service with clients, crashes, restarts and the lock's TTL | `BlobStoreMigrationProofs` |
| `BlobGC` | the collector with time, uploads, deletes, migrations and the Redis lock | `BlobGCProofs` |
| `Promotion` | rules, requests, the row lock, the copy and its rollback | `PromotionProofs` |
| `UploadSession` | abstract: what a chunked upload promises its client | - |
| `OCIUpload` | upload sessions over the append extension of S3 and of the local disk; implements `UploadSession` | `ServingProofs` |
| `ImageRegistry` | the images of a registry: manifests, digest aliases, referrers, removals with their sweep of layers | `ServingProofs` |
| `HostedFormats` | publish, tag, yank, delete and the indexes of fifteen formats | - |
| `ProxyCache` | one cached document of a proxy repository | `ServingProofs` |
| `Group` | a group: fan-out, merged indexes, pages, routing rules | - |
| `Accounts` | one account, its logins, sessions, API token | - |
| `Access` | roles, privileges, selectors; the decision and the filters | - |
| `Listing` | listings and searches page by page, filtered by rights | - |
| `LoginGuard` | the throttle of failed logins over several servers | `ServicesProofs` |
| `EventBroker` | webhooks and listeners of an event | `ServingProofs` |
| `ScanQueue` | vulnerability scans | `ServicesProofs` |
| `Replication` | a rule, its schedule, its runs | - |
| `Backup` | export, restore, import of a repository | - |
| `Cleanup` | a policy, its schedule, its runs, the download counter | - |
| `AuditLog` | partitions and events | - |
| `RepositoryAdmin` | repository records and what they refer to | `ServicesProofs` |
| `BlobStoreAdmin` | blob store records, registry, groups of stores | `ServicesProofs` |
| `NexusImport` | the import job | `NexusImportProofs` |

Each `MC*` module fixes constants for TLC. `MCArtifactStore`, `MCQuota`, `MCBlobGC`,
`MCBlobStoreMigration`, `MCPromotion` and `MCUpload` extend one module each. `MCServing`,
`MCServices` and `MCProgress` hold several: the initial state picks one (`part`), only
that one moves. `MCServing` extends `ProxyCache`, `MCServices` extends `ScanQueue` and `MCProgress`
extends `NexusImport`; the other components of the three have their state in one set of variables (`x1`, `x2`, ...)
which each `INSTANCE` names, so that a state is little larger than its component's. The
components do not share state, so their product would multiply states and show nothing more; the
properties of such a run are the components' own, guarded by `part` where the component
is instantiated (`Exclusive` is `part = "gc" => GC!Exclusive`), and a property of
two conjuncts joins an invariant and an action property of one component. The
components that do interact are composed inside a module: downloads with the cleanup
that judges by them (`Cleanup`), the rows of stores with the registries and the
uploads that use them (`BlobStoreAdmin`), policies, rules and stores with the
repositories that name them (`RepositoryAdmin`), administrators with sessions
(`Accounts`), uploads and migrations with the collector (`BlobGC`).

An operator commented "Fault: ..." is a plausible bug; no next-state relation uses
one, they exist for the mutants.

Conventions: one step of a worker is one statement against the database or one
call of a store or of Redis; what a handler remembers between two steps is in its
record `job[w]` (`run[i]`, `gc[n]`), with a program counter `pc`. A transaction
that ends in the handler, or an advisory lock released by it, is one step with the
last statement under it. History variables (`contested`, `leaked`, `raced`,
`aliased`, `drift`, `stale`, `touched`, `overlapped`, `marred`, `overlap`, `broken`, `spoilt`,
`tangled`, `misread`, `overtaken`, `excused`, `hollow`, `loose`, `behind`, `torn`, `missed`,
`stranded`, and in `Backup` the field `job.spoiled`) record that something the
properties excuse has happened; no guard reads them.

### ArtifactStore

`row` is the asset table, `blob` the store, `lock` the advisory lock per key,
`clock` the source of ids and modification times. `BlobKey` hashes repository and
path, so a path stands for its key. An upload is `UploadPut`, then
`UploadRegister` (for an OCI manifest also `UploadAlias`), or `UploadReject` (size
mismatch or quota: the object is deleted), or `UploadFail`. A delete reads the row
(`DeleteRead`), takes the lock, reads again (`DeleteCheck`: same id and
modification time), counts the other rows of the key, deletes the row, and the
object when it was the last. A cleanup does the same with a conditional delete
that also compares the last download. A mount takes the lock, looks for the bytes
and registers its row. `Crash` ends a worker at any step and frees its lock, as
PostgreSQL does.

### QuotaRegistration

A registration reads the previous row (`ReadPrev`), takes the store's quota lock,
then the repository's, each only if such a quota is configured, computes the delta
(`UsageDelta`: the whole size, the difference to the previous row, or 0 for bytes
that another row holds), checks both quotas, upserts the row, moves the counter
and releases. `CountByBlobKey` fails when the path has no row yet, because an
empty string is no UUID; `UsageDelta` then charges the whole size, as the code
does. `DeleteRow` and `Freed` are what a delete does to rows and counter. When the
references cannot be counted or the object cannot be deleted, the row goes and the counter
stays (`store.go:494-526`); and an update of the counter that fails is ignored, by a
registration as by a delete (`MoveCounter`). `drift` records in which direction this has left
the counter wrong.

`Store` is `StoreArtifact`. Two callers register bytes that are there already, both
under a path that names a digest: `Mount` is `mountBlob` (a layer, one of `Layers`, in
another image), and the second disjunct of `Count` is `pushManifest`, which goes on from
the row of the tag to the row of the manifest's digest (`Manifests`). A digest is verified
before its bytes are registered, so what a digest path holds has one size, `DigestSize`,
and the rows that share a key are of one size unless a tag among them was pushed again.
(The exception is in `OCIUpload`: see `upload_overlap` below.)

### BlobStoreMigration

`mig` is the table of migrations, `run` the goroutine of each, `redis` the lock.
`Start` takes the lock and inserts the row (refused by the unique index when one is
active). The goroutine lists its rows and for each: does the target have the object
(`RunExists`), copy (`RunRead`, `RunPut`), compare the size (`RunRecheck`), flip the
rows under the blob-key lock (`RunFlipLock`, `RunFlipSize`, `RunFlip`), count what
still references the source copy (`RunCount`), drop it and move the counters
(`RunDrop`). `RunFail` is an error of any of these calls. Clients upload to the
repository's current store and delete meanwhile. `Crash`, `Restart` with
`ResumeAll`, and `Expire` of the TTL complete the picture. `contested` holds the keys
whose bytes a client stored while a migration handled them, while another copy of them
was about or while the key's last row was being deleted, and all keys once two migrations
ran at one time.

### BlobGC

`now` is time; objects carry their modification time. A pass takes the lock
(`Acquire`; its answer may be late, up to `MaxDelay`), computes its deadline, reads
the references (`Snapshot`), lists each store (`ListEntries`), judges every entry
(`Judge`: unreferenced, old enough, deadline not passed), deletes, and gives the
bytes back (`Count`). `CompactStore` is the same without a lock. `Migrate` is what a
migration does to one row, atomically: `BlobStoreMigration` has its steps.

### Promotion

A rule is the set of components its CEL filter matches and its two gates. `Promote`
checks the whole batch; validation is one step because every gate is read again at
copy time. `CreateRequest` files one request; without manual approval the worker
goes on to settle it. `Review` is the call of `Approve` or `Reject`. `Enter` is
`SELECT ... FOR UPDATE` and the test of the status; `ReadRule`, `CheckApplies` and
`CheckScan` are the gates inside the lock; `UpsertComponent`, `CheckFresh`,
`PutBlob` and `CreateRow` the copy, asset by asset; `UndoRow`, `UndoBlob`,
`UndoList` and `UndoComponent` the deferred rollback; `Settle` writes the outcome.
`touched` records that a rule or a scan changed after the request's rule was read.

### OCIUpload and UploadSession

`object` is what lies at the session's key, `meta` the side object with the state of the
multipart upload, `mpu` S3's uploads, `acked` the offset last reported. A request is a
sequence of backend calls: an append loads the state or starts a multipart upload
(seeding it with the object that is there), flushes whole parts, saves the rest; a
`PUT` finalises, verifies the digest, reads again and registers. `Fail` ends a request
before any call. On the local disk an append grows the file in place. A finalise reads
the session twice, to verify the digest and to store the bytes, and compares only the
lengths. The first read is two steps: the session is opened (`Verify`) and hashed to its end
(`digestMismatchStream`), which on the local disk is what the file has come to hold, and in
S3 the version that was opened. `torn` has the digests whose finalise another request met
where the length does not tell.
`UploadSession` has three variables (content, what a reader sees, the offset
acknowledged) and says that acknowledged bytes stay in order until the session ends
and that only whole content becomes readable. The mapping takes `content` from the
parts and the pending bytes while a multipart upload is open, else from the object.

### ImageRegistry

One image; a manifest stands for its digest too, and its layers and subject are functions
of it. `man` has a row per reference (a tag or a digest) with the digest and the blob key,
`comp` what the component says of its subject, `obj` the bytes, `lay` the layers. A push
is `PutManifest`, `StoreManifest`, `UpdateExtra`, then for a tag `RegisterAlias` and
`UpdateAliasExtra`; any of the calls may fail, the last three without the client being
told. `deleteManifest` and `deleteBlob` are the registry's, `DeleteComponent` the
component API's, and `DeleteDockerTag`, `DeleteDockerImage` and `DeleteByPath` the browse
API's: rows first, then the layers no remaining manifest uses (`CompareLayers`,
`SweepLayer`), then the orphaned components. `handleReferrers` and `referrersOf` are what
is answered about a subject. The locks of the artifact waist are in `ArtifactStore`.

### HostedFormats

Rows of components and assets of two names, one containing the other (a search is a
substring match), a few versions, builds as numbers. `Format_ops` says per format what
a publish writes, whether it has an index line or a tag, how a removal cleans up, and
how its index is read: in one query, in two, or page by page. A request is a sequence
of statements; a reader builds an index, for apt also a signed Release, meanwhile.

### ProxyCache

A version is a number and so is a moment. A request finds no row, a fresh one or one to
revalidate; asks upstream (200, 304, an error, an answer that breaks off); stores while
it serves; registers the row, or gives up. The client of a fill has its 200 before the bytes
are stored, so what it was given is in `answer`: the document, nothing yet, or a cut one if
the upstream broke off (`CacheWriteFails`, `BrokenOff`). `Publish` is the upstream's change,
`Evict` and `LoseBytes` are a cleanup and a lost object. A row and its bytes are served in one
step, and a read of the store that breaks off is not modelled.

### Group

Members are asked one after another; an answer is read, refused or garbled. `serveGet`,
`collectIndexParts`, the merger of each format and `subIndexFetcher` (the documents a
Release describes) are operators; a client looks something up and downloads it, walks
the pages of a tag list, or verifies a Release.

### Accounts, Access, Listing, LoginGuard

`Accounts` has one account with its row id, source, roles, status and the cut-off; a
login reads the row and mints a session in a later step; sessions carry the second
they were issued in. The middlewares are operators over the state. `Access` has the
tables as they are edited and the decision functions of `rbac_service.go`, for paths as
sequences of segments. `Listing` has a client that walks: a request expands the group,
fetches up to `MaxScan` times from an offset, filters by the rights as they are then, and
answers with rows and an offset; `Insert`, `Withdraw`, `SetMembers`, `Grant` and `Revoke`
happen in between. `LoginGuard` counts in two places, Redis and memory, with reads
and writes apart; each server sweeps its own memory (`sweep`).

### EventBroker

A publisher takes the broker's read lock, offers the event to each channel, and leaves;
unsubscribing takes the write lock and closes the channel. A goroutine per event reads
the hooks and calls them one by one.

### ScanQueue

Actors (the worker, the bulk walk, an administrator's request) go through `Scan`: probe,
Trivy mutex with the timeout already running, run, two best-effort writes. The bulk walk
pages through a table that changes by offset. `Fault` ends a call, a run or the process.
A component has numbered contents (`content`): a package's never changes, for its scan asks
about a name and a version, while an image may be pushed again under its tag. `UploadAgain`
puts the new bytes, empties the component's cached result and queues it, keeping the id and
the rows of the history, while a scan of the former content may be running; or the
registration fails after the bytes have changed. `shown` says of which content the verdict is.
A request may name another image to scan (`ImageNamed`).

### Replication, Cleanup

Both have a row, a cron entry per server kept by reload goroutines that read the row
first and change the schedule later, and runs that work on the row their entry was made
for. A replication lists the target page by page (`listTargetPaths`) while it changes, then
the local repository, pushes what is missing, and writes its history. A start that cannot
list the rules (`BootListFails`) serves without a schedule. A
cleanup takes its lock, queries stale rows beyond the retained versions, deletes each if
unchanged, frees the object when no row shares it, and stops after passes without
progress. Downloads reach the table by the counter's flush, which may be lost.

### Backup, NexusImport

`Backup` runs one job at a time over the tables, beside clients, and may reinstall the
server between export and restore, so identifiers change. The bytes it reads and writes are
those of `service`, the store `NewBlobStoreFromConfig` opens (`storage/factory.go:16-35`): on
S3 the bucket of the record `default`, on the local disk the base path itself, which is the
store of no record (`default` is opened under `BasePath/default`, `cmd/server/main.go:304`).
The initial state chooses. Every call of a job may fail (`Failing`), and the job goes on as
the code does; `job.spoiled` has the artifacts and keys whose own call failed or that somebody
wrote while the job ran. `NexusImport` has the job row,
the runner's stages and items, administrators whose requests read and act in two steps,
crashes and `ResumeAll`. What a manifest or a role reaches through others of its kind
(`Reach`) is the least set closed under naming (`Expanded`). An asset without a component
(kind `loose`) is in no plan; the listing of all assets counts it as an error, if the source
has one (`Reconcile`), so nothing is promised of it. `SetGrants` leaves out, silently, the
privileges whose lookup fails (`missed` has the roles), and `ResumeAllFails` is a start whose
list of active jobs cannot be read (`stranded`).

### RepositoryAdmin, BlobStoreAdmin, AuditLog

Requests read, check and write in steps; a body is the record of the fields it sends.
`BlobStoreAdmin` adds the registry of each server, the requests that open a store, and
`PickMember`. An instance has the id of the row it was opened from, and the invalidation
that ends an update compares it with the id the update read; `behind` records the
instances it therefore leaves, `loose` the groups whose check another write overlapped or
whose member was deleted because the check could not read the stores. What the settings form
of the frontend sends (`Form`) and the foreign keys of the table (`ForeignKeys`) are translated
from their sources.
`AuditLog` counts days; months have lengths of their own, so the day that a
month lacks happens; the rotator ticks, makes partitions, drops old ones.

## 3. Runs

| run | checks | shows |
|---|---|---|
| `store` | `UncontestedRowsHaveBytes`, `NoSilentOrphan`, `RemovalSparesReplacement` | two workers upload, alias, delete, expire and crash on a tag and its alias |
| `store_mount` | `TypeOK`, `RequestsEnd` | the same for a layer and a mount of it: every request ends |
| `store_reject` | `RowsHaveBytes` (violated) | a rejected re-upload deletes the bytes of the row that is there |
| `quota` | `RepoQuotaHolds`, `CountedOnce` | two writers push a tag with its digest, mount the layers of two images and delete, in a repository with a quota, and one step of a delete or an update of the counter fails |
| `quota_store` | `TypeOK`, `StoreQuotaHolds`, `RegistrationsEnd` | a store quota and a repository quota at once: the nested locks |
| `migration` | `RowsServeLatest` | two migrations, failures, crashes, cancellations, an upload, deletes, a mount |
| `gc` | `TypeOK`, `SparesLive` | a pass beside uploads, deletes, migrations, a manual compaction |
| `promotion` | `TypeOK`, `NoBypass`, `CompletedStays`, `WholeOrNothing`, `FirstVerdictStands` | two workers, two requests, two rules, an edit and a fault |
| `serving` | the seven properties below | what answers a client |
| `upload_overlap` | `NothingElseLands` (violated) | two requests on one upload session: bytes land under a digest they do not hash to |
| `services` | the twelve properties below | background work, administration, accounts and the login guard |
| `progress` | `Covered`, `JobsEnd`, `ImportSound` | what must come to an end, under fairness |

| property of `serving` | says |
|---|---|
| `HostedServes` | an acknowledged publish stays, a tag names the version it was last pointed at, an index offers what was there throughout and nothing that never was, an apt signature verifies |
| `CacheCoherent` | nothing cut is cached, so only a client whose own upstream broke off, or that read a row and bytes of two fills, gets a cut document; unless a fill met something, a row's checksums and time belong to its bytes and a 304 serves what the upstream has |
| `DigestHolds` | nothing is registered under a digest it does not hash to, whatever requests meet on a session, unless one tore a finalise (another request cut the session between the two reads, or it was opened empty); a pull by digest gets that manifest, a manifest that can be pulled has its layers, and the referrers listed are those that are there, in whatever order images are pushed and removed |
| `SessionKept` | `OCIUpload` implements `UploadSession`, on S3 and on the local disk, whatever call fails |
| `GroupFaithful` | no member hides another, a walk is complete, a download is what the index promised, a Release describes what the group serves |
| `AccessAgrees` | an image has one answer in requests, catalogs and listings; what is readable is listed; withdrawing never widens; a walk through the pages shows what was there and visible throughout, once, in full pages |
| `Accounted` | no send on a closed channel; every event offered to a listener was sent, waits or is counted as dropped |

| property of `services` | says |
|---|---|
| `NoFalseClean` | no failed scan presents vulnerable content as clean, in the cached result or in the history, and the cached result is of the content the component has now, unless a push came between a scan and the saving of its result |
| `ReplicationTrue` | the schedule follows the rule; a run that ends "ok" left nothing behind |
| `Exclusive` | no two servers are inside a collector's pass, whatever crashes and however late Redis answers |
| `BackupWhole` | on S3, an export holds the bytes of every artifact of the default store that could be read and a restore serves them, in a new installation too, although calls for other records fail; an import with skip only adds |
| `CleanupTrue` | an object is freed once; what is deleted is stale when it is deleted |
| `EventsRecorded` | events of a month find their partition and are kept for the retention period |
| `ReferencesHold` | what repositories and store groups refer to exists and fits, unless a write overlapped its checks or the check of a member's deletion could not read the stores |
| `OmittedKept` | an update changes what its caller named, hidden secrets survive |
| `RegistrySound` | a server writes to the store its row describes, and to a member with room, also when the members take turns |
| `MigrationTrue` | counters follow the bytes; a done migration moved every row it listed |
| `SessionsCurrent` | a session ends with the password or status it was issued under, never exceeds its API token, and a provider's login never takes over an account of another source |
| `GuardCounts` | failures count for the account whatever the server; the wait is capped |

In `progress`, `Covered` says that what the scan queue drops the daily scan picks up;
`JobsEnd` that imports, cleanup runs and migrations end or become startable again
whatever fails but a `ResumeAll` that cannot list them; `ImportSound` that an active import
has a runner (with the same exception), no manifest comes before its layers, and done without
errors means everything is there, but for privileges whose lookup failed.

Run one with `tlc -workers 2 -config <cfg> <MC module>`; each takes from seconds to
about four minutes.

### Bounds and why they are enough

* `MaxClock = 3` (ArtifactStore) allows three row writes. The worst interleavings
  known need two: an upload and a re-upload, or an upload and a mount, with a
  delete between them; the third leaves something to be hurt afterwards. Two
  workers suffice for every race the lock is there for; the proof covers more.
* Sizes 1 and 2 with quotas of 3, `MaxId = 3` rows and a counter up to `MaxUsed = 4`: two
  writers can jointly pass a quota that each alone respects, a re-upload can
  grow and shrink, and deletes meet the floor at zero. `quota` has a tag, the digest of
  one manifest it may be pushed with and one layer in two images: a key with two rows in
  each of the two ways the code makes one. Writers and layers are symmetric.
* `MaxDrift = 1` in `quota`: one kind of failing step, an update that should have raised the
  counter (`under`) or a delete that did not lower it (`over`), however often it occurs. States
  with both a race and a drift are not followed (`Worthwhile`); the proofs have no such bound.
* Bodies of one byte out of two and a limit of two in `upload_overlap`: the shortest
  session whose bytes can be exchanged without changing the length.
* Two migrations and one upload: a re-run after a failure is the second migration,
  and a write between copy and flip the upload. Contents have different sizes, so
  what the size check can see, it sees; same-size writes are a known exception.
* Time up to 4 or 6 with a TTL of 1 or 2, an upload of 1 and a `MinAge` of exactly
  TTL + upload: the gate is as tight as the assumption allows, and there is time
  for an expiry and a second pass.
* `MaxEdits = 1`, `MaxFaults = 1`, two requests and a component of two assets: the
  copy can fail with one asset done, and one edit or scan can fall into any gap.
  `MaxId = 4` gives every live row, component and remembered id a value of its own
  (ids nothing refers to are used again, which no step can notice).

* In `MCServing`, `MCServices` and `MCProgress` the comment above each `INSTANCE`, or the
  `.cfg` of an extended module, gives its size. The rule was: two of what can race (requests, readers, servers, runs), one
  fault or outage, and data just large enough to tell outcomes apart: parts of two bytes
  and chunks of one and two, so that a part is flushed and a rest is pending; a queue and
  a page of one, so that both overflow; months of two to four days, so that one lacks the
  day another has; two members of a group, so that one can hide the other; two versions of
  an artifact besides the retained one; names one of which contains the other; a page larger than what a query returns.
  `ScanQueue` has a second content for the image, the vulnerable one (`SecondPush`), in
  `services`; in `progress`, which is about what is picked up at all, nothing is pushed again
  (`Again = {}`). `BlobStoreAdmin` allows two uses of a group, so that the second pick starts
  with a turned rotation.
  `HostedFormats` gives two writes to the formats with multi-step writes and one to the
  rest, and starts with nothing, one artifact or three published (`Published`).
  `Accounts` has one scope for API tokens (`TokenScopes`), which is one a session may exceed.
  `ImageRegistry` has two images that share a layer and a signature of the first under one
  tag and their digests, three requests that change something, two of them at one time:
  a push, a push over it or beside it, and a removal.

Deadlock is checked in the runs of `ArtifactStore` and in `quota_store`. Elsewhere
the bounds end a behaviour (time, migrations or ids run out), which says nothing
about the program.

Symmetry is used only in runs without liveness properties; in `serving` and `services` it
exchanges the two requests of an upload session and the two servers of the collector and of
the login guard.

### Fairness

* `ArtifactStore`, `QuotaRegistration`: weak fairness of a request's own steps (a
  goroutine that can run does) and strong fairness of taking an advisory lock
  (PostgreSQL queues the waiters first come, first served).
* `BlobStoreMigration`: weak fairness of the goroutine's steps, strong fairness of
  its blob-key lock, weak fairness of restarting a server that is down (an operator
  or orchestrator does it) and of a TTL's expiry. Clients have no fairness, nor do
  failures.
* `MCProgress`: the fairness of each component, guarded by `part`. Weak fairness of a
  goroutine's next step (the scan worker, the bulk walk, the import's runner, a cleanup
  run), of the cron that starts the bulk scan, of `ResumeAll` at start-up (which may fail instead)
  and of a restart;
  strong fairness of locking the Trivy mutex (Go's mutex hands over to a waiter that has
  starved) and of the blob-key lock. Faults, administrators and clients have none, but a
  request that has decided to launch does so.

## 4. Theorems

All are proved without bounds on the number of workers, paths, servers, rules or
requests; the bounds of counters (`MaxClock`, `MaxTime`, ...) are arbitrary naturals.

| theorem | states | rests on |
|---|---|---|
| `ArtifactStoreProofs!TypeCorrect` | `Spec => []TypeOK` | the invariant below |
| `ArtifactStoreProofs!RowsKeepTheirBytes` | `Spec => []UncontestedRowsHaveBytes` | lock holding (`LockHeld`), fresh ids, `LastReference`: a remover about to take the bytes knows every row of its key; `BytesReady`: an upload's and a mount's bytes are still there; `OverlapRecorded`: an upload beside a removal is on record |
| `ArtifactStoreProofs!LockExclusion` | one worker per key inside a critical section | `LockHeld` |
| `ArtifactStoreProofs!ReplacementSpared` | `Spec => RemovalSparesReplacement` | `RemovalInv`: an id names one row, `last_modified` tells the versions of a path apart (`VersionKnown`), and the version re-read under the lock is there until it is removed (`HeldVersion`) |
| `ArtifactStoreProofs!NothingForgotten` | `Spec => []NoSilentOrphan` | `OrphanInv`: a remover that leaves the bytes leaves them to another row (`OthersKept`), and an object no row names has a worker that will register or delete it (`OrphansOwned`) |
| `QuotaRegistrationProofs!TypeCorrect` | `Spec => []TypeOK` | the locals of each step (`JobShape`) |
| `QuotaRegistrationProofs!StoreQuotaSafe` | `Spec => []StoreQuotaHolds` | `StoreLockHeld` and `Reserved`: the headroom a check found is still there when the counter moves, since only lock holders raise it |
| `QuotaRegistrationProofs!RepoQuotaSafe` | `Spec => []RepoQuotaHolds` | `QInv`, below |
| `QuotaRegistrationProofs!CountedOnceSafe` | `Spec => []CountedOnce` | `QInv` and `CInv`, below |
| `BlobGCProofs!TypeCorrect` | `Spec => []TypeOK` | the same invariant as the next |
| `BlobGCProofs!GcSparesLive` | `Spec => []SparesLive` | `MinAge >= LockTTL + MaxUpload` (assumed): a live object is in the snapshot, or is recorded as changed, or its time is so close to the pass's start that it is too young until the deadline (`Safe`, for objects and for listed entries) |
| `BlobGCProofs!GcExclusive` | `Spec => []Exclusive` | `LockInv`: until its TTL is up the lock in Redis is the pass's own |
| `BlobStoreMigrationProofs!MigrationServesLatest` | `Spec => []RowsServeLatest` | `MigInv`, below |
| `BlobStoreMigrationProofs!DoneMovedRows` | `InTurn`: `Spec => [][RowsMoved]_vars` | `MovedInv`: at most one migration is active (`OneActive`), and a row that was listed and not rewritten since is in the target or still to be handled (`MovedOrAwaited`) |
| `BlobStoreMigrationProofs!DoneMovedAll` | `InTurn`, no failures: `Spec => DoneMeansMoved` | the same, with the repository moved by the time the goroutine is at `done` |
| `PromotionProofs!TypeCorrect` | `Spec => []TypeOK` | the invariant of the next |
| `PromotionProofs!GatesHold` | `Spec => []NoBypass` | `LockInv`: a job inside `WithPendingRequestLock` owns its pending request; `Gate`: what each check found holds unless the job is marked as touched |
| `PromotionProofs!VerdictStands` | `Spec => FirstVerdictStands` | only `Settle`, `DeleteRule` and `CreateRequest` write requests; the first needs the lock on a pending one, the second none on any of the rule's |
| `PromotionProofs!CompletedKept` | `Spec => []CompletedStays` | `CopyInv`: what a copy has written, and what its rollback still has to undo, are the rows and bytes that carry its ids; a component in the target is somebody's copy in progress, whole, or nothing |
| `PromotionProofs!NoHalfPromotion` | `Spec => []WholeOrNothing` | `CopyInv` |
| `ServingProofs!ProxyCoherent` | `ProxyConstants`: `Spec => []CacheCoherent` | `ProxyInv`: what is open or fetched is whole, and a reader whose answer is cut was cut off by the upstream or by the length of another fill's row (`AnswersOK`); while nothing overlaps there is one writer, which holds the upstream's version (`WriterOK`), and a validator sent upstream is no later than the version it is compared with (`AskerOK`) |
| `ServingProofs!EventsAccounted` | `BrokerConstants`: `Spec => []Accounted` | `BrokerInv`: a channel some publisher still has on its list is open, because closing waits for the readers of the lock; per listener, events offered = read + waiting + dropped + publishers about to send (`Balance`) |
| `ServingProofs!UploadsHoldDigests` | `UploadConstants`: `Spec => []DigestHolds` of `OCIUpload` | `UpInv`, below |
| `ServingProofs!ImagesServed` | `ImageConstants`: `Spec => []ImagesServe` of `ImageRegistry` | `ImageInv`, below |
| `ServicesProofs!NeverFalselyClean` | `ScanConstants`: `Spec => []NoFalseClean` | `ScanInv`: a verdict under way calls no vulnerable content clean, and one that is about to be shown is of the content there is, unless a push has overtaken it (`HonestCalls`) |
| `ServicesProofs!RowsFit` | `AdminConstants`: what a repository refers to is there and fits it | `AdminInv`, below |
| `ServicesProofs!FieldsKept` | `AdminConstants`: an update leaves what its caller did not name | `AdminInv`: what is about to be written differs from the stored row in named fields only (`Spares`) |
| `ServicesProofs!StoresSound` | `StoreConstants`: what a server has open is what the row says, members of a group are stores, a member with room is found | `StoresInv`, below |
| `ServicesProofs!SecretsKept` | `StoreConstants`: an update that does not send the secret keeps it | `StoresInv` |
| `ServicesProofs!GuardSound` | `GuardConstants`: failures are charged to the account, the wait is capped | `GuardInv`, below |
| `ServicesProofs!ReferencesSafe`, `OmittedSafe`, `RegistrySafe`, `GuardSafe` | the conjunctions of these that the run `services` checks | the theorems above |
| `NexusImportProofs!ImportKeeps` | `ImportConstants`: `Spec => []ImportInv` | the invariant itself, below |
| `NexusImportProofs!ImportsSound` | `ImportConstants`: `Spec => []ImportSound` | `ImportInv` |

Why strengthenings are needed: none of the properties is inductive. A state with a
row and its bytes, and a worker at `delBlob` on that key, satisfies
`UncontestedRowsHaveBytes` and violates it in one step; `LastReference` says that
no such state is reachable. The same holds for a registration at `count` with too
large a delta, a pass at `delete` with a live object picked, or a copy past its
checks with a rule that does not match.

**The repository's quota (`QInv`).** The check adds the delta to the sum of the
repository's keys, so the argument has three parts. Nobody else changes a row of the
repository between check and upsert: `RepoLockHeld` excludes registrations, and deletes only
take bytes away. The row read ahead of the locks is still there, or the path is raced
(`PrevCurrent`, `Apart`). And the delta is enough (`DeltaComputed`): a path that kept its key
grows by the difference, a new key costs its size, and a delta of 0 for a key that other rows
hold is right because such a row still carries the same number of bytes (`Carried`) - which
needs `Fits`, that rows of one key are of one size as far as digests fix it, and `SourceKept`,
that a tag whose alias is in flight still names the bytes. Then `RepoReserved` is kept and the
sum of the new rows is at most the reserved one (`SumPut`).

**The recount (`CInv`).** `CounterInv` says what the counter holds of each path: there are
amounts `c[p]` whose sum is at most `used_bytes` (equal to it, while nothing is aliased), each
the size its row records, short of the move that a request on that path has yet to make.
Every step changes one `c[p]`; the floor at zero never bites, because the amounts are natural
numbers. A delete that does not lower the counter only adds to what it holds beyond the
amounts, so the sum stays below it (`Sure`) and the equality is given up (`Exact`); an update
that should have raised it is the one failure after which nothing is promised. Between requests `c[p]` is the row's size, and the recount, which counts each key
once at its largest, is no more than the sum over the rows (`SumByKey`).

Both need facts about `SumFunction`, which the community modules define by a recursive
function over subsets. Induction theorems cannot be applied (they take an operator as a
parameter), but a counterexample of least size can be named: `SmallestSet` says that every
family of subsets of a finite set has a minimal member (from the well-foundedness of the
strict subset ordering), and `SumRemove`, `SumMonotone`, `SumZeros` and `SumByKey` refute one.

**The migration (`MigInv`).** For every key that is not contested: copies in any store are
of the bytes last stored under the key (`Copies`), a row's bytes are where it names them
(`Named`), a request that has stored its bytes still has them where it will register them
(`Kept`), a goroutine that has a row in hand has established what its step relies on
(`Handled`: at `flip` the target holds the object or no row needs it, at `drop` nothing names
the source), and one goroutine runs (`Single`). Failures, cancellations, crashes and restarts leave the target's copy behind,
which `Copies` makes harmless.

**Administration of repositories (`AdminInv`).** A request reads, checks and writes in
calls of their own, and the row it writes is good only if nothing it looked at has changed.
Any write therefore marks every other request in flight (`moved`), and the invariant says
what a request that nothing was written behind may rely on (`Reliable`): the name it creates
is free, the row it replaces is the one it read, what it is about to write was checked against
the tables as they are (`Vetted`, up to the foreign keys, which the write looks up itself), a
policy it is about to delete is detached from every repository. The rows written by a request
that was marked are those the property excuses (`loose`).

**Administration of blob stores (`StoresInv`).** The registry is keyed by name and id. So
the id of a row about to be inserted must be nobody's (`FreshIds`: no row, no instance, no
request that has read a row), and what a server has open of a store, or is about to open, is
what the row says, or the update that changed the row has still to tell this server
(`OpenedSound`, `Telling`). The members of a group rest on requests that nothing was written
behind, as above. `PickSound` needs a fact about `Present`, a recursive function over the
member list, proved by naming a shortest list that refutes it. The attempt found the model too kind: with four requests of administrators (the run has
fewer) a store that is deleted and created again while an update is under way is updated by
its name (`repository/postgres/blobstore_repo.go:79`), but invalidated under the id that was
read before (`api/handlers/blobstores.go:261`), so the server that wrote keeps the old
instance; and a group whose members were checked against the first store may list the second.
Both are now in `behind` and `loose`.

**Upload digests (`UpInv`).** The finalising PUT reads the session twice, and only the length
of the second read is compared. So from the first read on everything that is, or may still
become, the content of the session begins with the digest's (`Begins`): the object, what
`meta` has staged, what an append carries in its own copy of that state, and the parts a
`CompleteMultipartUpload` under way will join. Every step but the three that tear keeps this,
because an append adds to the end (`Grows`). Between opening the session and having hashed it
the PUT knows the length it opened and, in S3, the bytes; a local file can only have grown
beyond that length (`Lengthens`, `AllHashed`), so one that hashes right begins with what is
stored. To have it at the first read, S3 needs to know that
nothing but PUTs are at work on the session, or the PUT is torn (`Quiet`), and that the upload
those PUTs may still complete is the one `meta` names, or is closed (`Sealed`): when a PUT
reads, `meta` is gone, so nothing can put other bytes in place any more. That appending a part
appends its bytes is a fact about `FlattenSeq`, which the community modules define by a
recursive function; `JoinExists` and `JoinsAgree` are proved by naming a least counterexample.

**Images (`ImageInv`).** A row serves whatever its blob key has now, so the invariant follows a
push from the bytes to the rows. Two histories say what is left out: `replaced` has the digests whose row names bytes that
a later push of the tag has replaced, `loose` the manifests whose push met another one of the
reference or a removal (`PushesKnown`), that lost a write, whose layers a client deleted by
digest, or that a removal could not read or list. For the others, a push finds under its reference the
manifest it put (`PutDone`) and its layers beside it (`LayersPushed`); a removal that has
listed what it will sweep, or will sweep without comparing, takes no layer a remaining row
needs (`Spared`, `LayersSpared`); and a row whose component does not name the manifest's
subject yet has a push that is about to write it (`RowsTold`), which no other write makes
wrong meanwhile (`TellingOK`). The referrers of a subject are read from the components, so
they are the manifests that are there except for those pushes under way.

**Login guard (`GuardInv`).** Entries are bounded by the moment of their last failure and
the cap (`AllBounded`); while nothing overlaps and Redis answers, the shared entry is charged
with at least the failed checks there were (`Charged`), and the one try under way knows of
them (`Knows`). That the wait doubles is `2 ^ n`, on which the SMT solver has nothing to say:
`Doubles` proves it monotone by counting subsets.

**The import (`ImportInv`).** `done` without errors is a statement about a whole pass,
possibly the tenth. The invariant says at every step what the stages behind it and the items
of its stage that are no longer to do have left in the target, if the pass has counted no
error (`StagesBehind`, `ItemsBehind`, together `PassKept`), and that a job that is done has it
still (`DoneKept`). Nothing is ever removed, so a resume, which starts again at the first
stage, keeps what earlier passes brought. `RunnerBehind` ties the status of the row to the
steps of the runner: one that is past its last write has settled the row, and only a panic
or a failed write (of which `MaxFaults` allows one) leaves an active row without a runner.
`ImageKept` says that the parts of an image under way that are no longer needed are there;
as the parts of a part are parts of the image (`PartsOfParts`), a manifest is
whole when it is stored.

The theorems of `ServingProofs` and `ServicesProofs` about components taken by `INSTANCE`
state the properties the components define; the runs check the same properties behind
`part = ...`, because their initial state chooses which component moves.

Assumptions on constants are named. `ASSUME`s of the component modules: bounds are naturals,
`None` is no member of the sets it is added to; for the collector the relation between
`gc.min_age`, the lock's TTL and the longest upload (defaults: 24 hours, 30 minutes; nothing in
the code bounds an upload, so an upload of more than 23.5 hours is outside of the theorem);
paths of different components are different (`PromotionAssumption`; `UNIQUE (repository_id,
path)`, `src/db/migrations/001_initial.sql:99`); a key names itself (`MigrationAssumption`); a
repository has finitely many paths and a digest one size (`QuotaAssumption`). Definitions
that a theorem names as its hypothesis, because the module is also instantiated without them:
`BrokerConstants` (finitely many handlers at work); `UploadConstants` (bodies and digests are
finite sequences of bytes, `None` is not, sizes are naturals); `ImageConstants` (a tag is not a
digest, a manifest has at most one subject, `None` is nothing else); `ScanConstants` and `ProxyConstants`
(types); `AdminConstants` and `StoreConstants` (`None` is no row, no request and no name;
the rows and bodies requests bring have the columns' types; what the first rows refer to
is there); `GuardConstants` (threshold and cap are naturals); `ImportConstants` (what kinds
the source's items have, an asset is listed under the hosted repository that holds it, blobs
are imported only with repositories, at most one panic or failed write of the
status); and `InTurn`: no server starts while a migration runs elsewhere (the exception of
`ResumeAll` below), and calls that fail, or servers that crash, only where one server runs
migrations.

Only model-checked:

* Liveness (`RequestsEnd`, `RegistrationsEnd`, `Covered`, `JobsEnd`), which the prover does
  not do.
* `SessionKept`, whose refinement mapping takes the invariant of a single request, which
  `UpInv` does not have. (`DigestHolds` of the run `serving` is proved for both of its
  components, `UploadsHoldDigests` and `ImagesServed`.)
* `Exclusive` of the run `services` is `BlobGC!Exclusive`, which `GcExclusive` proves.
  `MigrationTrue` has the action property of `DoneMovedRows` and the counters, whose sums are
  those of `QuotaRegistrationProofs`, but of another module.
* `HostedServes`, `GroupFaithful`, `SessionsCurrent`, `AccessAgrees`, `ReplicationTrue`,
  `BackupWhole`, `CleanupTrue`, `EventsRecorded`: no proof has been attempted. In the first
  two the indexes and merged documents are data built by recursion over the protocol's
  lists; the next ones are proofs of the size of those above.

## 5. Findings and known exceptions

Two disagreements between code and comments have a run of their own:

* **`store_reject`** - a re-upload whose received size differs from the declared
  one (`formats/base/store.go:134`) or passes the quota (`:141`) deletes the object
  of the path although the row of the earlier upload still names it. `:498` calls
  that state "not self-healing".
* **`upload_overlap`** - a finalise reads the session to verify it
  (`formats/oci/handler.go:874`) and again to store it (`:896`); a request on the same
  session that cuts it back and appends as many other bytes in between gets them registered
  under the digest, though the second pass "keeps #194's guarantee that nothing lands under a
  digest it doesn't hash to" (`:871`).

The following were met while modelling; the models behave as the code does and the
properties name the exception explicitly, by a history variable or a bound.

Artifact store (`contested`):
* An upload racing a delete: bytes are stored without the blob-key lock, so a delete
  that began before takes the new bytes, and the upload then registers a row without
  an object (`store.go:512`; `:471-473` mean to spare "a re-upload").
* The digest alias of a manifest names the tag's key (`formats/oci/handler.go:374`,
  "so GET /manifests/<img>/sha256:<digest> also resolves correctly"); a second push
  of the tag replaces what the first digest serves.

Quotas (`raced`, `aliased`, `drift`):
* A delete whose reference count or whose object deletion fails removes the row and leaves the
  counter (`store.go:494-526`); until the collector or a recount the store is overstated. The
  errors of `UpdateUsedBytes` are discarded (`:286`), so the counter may also be understated.
* A store whose row cannot be read has no quota for that registration: the lock is not taken and
  `quotaHeadroom` checks nothing (`:344`), although the comment says "the enforcement read inside
  the lock decides, and it fails closed" (`:317`). Such reads do not fail in the model.
* The previous row is read before the quota locks (`store.go:212`), so two writes of
  one path compute their delta against one old row and may pass the repository's
  quota, which the locks are meant to exclude (`:258-261`).
* `CountByBlobKey` with the empty id of a new path is an error in PostgreSQL
  (`asset_repo.go:713`), so an alias is charged in full, although "an alias or mount
  of an already-stored blob adds no bytes" (`store.go:263`). The mock accepts the
  empty id (`testutil/mocks.go:1071`), so the unit tests do not see it.

Migration (`contested`, different sizes, `InTurn`):
* Every starting server cancels every active migration and takes its lock
  (`service/blob_store_migration_service.go:199`, "The process that took this lock died
  without releasing it"), also one that another server is running. A second migration then
  runs beside the first, and the failed re-check of one deletes the target object the other
  has flipped a row to. (`Restarts` with two servers; all keys are then contested.)
* A delete resolves the store before its lock (`store.go:456`); a flip in between is
  not noticed, the bytes stay in the target and the source's counter is decremented
  twice (`:522`, "Decremented only when the bytes actually left the store").
* Before the flip only sizes are compared (`blob_store_migration_service.go:348-358`):
  an upload of the same size is lost, and a re-run takes a stale copy of that size
  left in the target for the current bytes (`:319`; `:401`, "a re-run copies the
  current bytes").
* A start whose `ListActive` fails (`:192`) leaves the active migration's row, and so its
  repository, blocked until another start: `api/router.go:350` discards the error and nothing
  tries again (`stranded`, the exception of `Unblocked`).
* A tag and an alias with one key and two sizes are listed as two items
  (`asset_repo.go:735`); the second fails on the size though nobody wrote.

Collector (`stale`, `MaxDelay`):
* An upload that reuses the key of an old orphan after the listing is deleted: the
  gate looks at the listed time (`gc_service.go:216-218`).
* Reclaimed bytes are always subtracted (`:235`), also those of an upload that never
  got to be counted, and twice when `CompactStore` and the cron's pass meet on an
  orphan (`:130`; `:233`, "Only what was really deleted is given back").
* The deadline is computed after `Acquire` has returned (`:151-154`) and so ends later
  than the lock by the answer's delay.

Promotion (`overlapped`, `marred`, `touched`):
* A batch keeps the `RequireManualApproval` it began with
  (`promotion_service.go:326`), although the rule is read again for each request
  (`:333-336`).
* Two copies of one component at one time take each other's rows for their own; the
  rollback of one removes rows of the other (`:421-424` is about earlier ones only).
* A rollback whose row delete fails still deletes the bytes (`:474-486`); and it uses
  the request's context, so the departure of the client (`api/handlers/promotion.go`,
  `Promote` and `Approve`) disables it. `Crash` stands for both.
* `executeCopy` neither counts `used_bytes` nor checks a quota, unlike every other
  write (`store.go:254-256`). The row of a failed scan passes `scanGate`, and so does a
  component re-uploaded since its scan.

Statements of the repository that the models refute are kept as definitions beside the
properties, to be checked by naming them in a `.cfg`: `ProxyCache!ConfirmedIsCurrent`,
`NexusImport!DoneIsWhole`, `Accounts!RolesTakeEffect`, `Backup!NonDestructive`,
`Cleanup!RetainNewest`, `AuditLog!AheadOfTime`. What they and the excuses of the other
properties stand for:

Scans (`misread`, `overtaken`): a report that cannot be parsed counts as one without findings,
and the report of another image that the request names (`imageRef`) as one of the component; a
component pushed again while its scan is running is shown the verdict on its former content
(`scan_service.go:406-423`, `:455`), and so is one whose registration failed after its bytes
had changed, until the next scan; the rows of the history stay and are of what was scanned
then; the severity filter of the dashboard is applied before the newest row per component is taken;
the timeout runs while a scan waits for the mutex (`scan_service.go:389`).

Images (`replaced`, `loose`): besides the tag pushed again above, `DeleteDockerTag`
removes the digest alias that another tag of the manifest still needs
(`api/handlers/browse_docker.go:406`); a manifest that cannot be read while layers are
compared, or a list of them that fails (`remaining, _ :=`, `:417`), loses its layers, and
so does one whose push overlaps; a failed list of manifests in `DeleteDockerImage` (`:492`)
leaves manifests without layers. Writing what a manifest refers to is best effort because
"nothing in the protocol reads these keys" (`formats/oci/handler.go:365`), but the
referrers index does: a failed `UpdateExtra` is an image without its signature. A `DELETE`
of a manifest leaves its component, and `tags/list` goes on to list the tag.

Listings (`moved`): rows that go, or members that leave a group, shift others past the
offset; rows alike in name and version have no order of their own, so a walk may miss one
and meet its twin twice; rights that cannot be loaded count as none. `SearchAssetsDownload`
looks at the first two matches before it filters them (`api/handlers/components.go:466`):
with hidden matches in front it answers 404 although one may be seen, or redirects to one
of several, where its comment says "Zero matches → 404, multiple matches → 400".

Uploads (`torn`): besides `upload_overlap`, when a finalise succeeds and the side object cannot be deleted, every retry
fails; a session that was opened empty and is filled while it is hashed has a declared length
of zero, which is not compared (`torn`); a roll-back below a flushed part fails and leaves the chunk; the empty digest has
no length that would catch a chunk added between the two reads.

Proxy (`broken`, `overlap`, `ConfirmedIsCurrent`): the client has a 200 before the upstream has
sent everything (`formats/repoproxy/repoproxy.go:633-652`), so one that breaks off gives it a cut
document; the time of a row is that of its registration,
not of its answer, so a 304 ("confirms our copy is current") may confirm an older version.

Import (`missed`, `stranded`, `DoneIsWhole`): a privilege whose lookup fails while a role is wired
is left out of the role and no error is counted
(`service/nexus_migration_service.go:1378-1381`); a start whose `ListActive` fails (`:291`,
discarded at `api/router.go:338`) leaves an active job without a runner until it is paused or
the server starts again; a resumed pass skips what is present, also a user without roles, a
group without members, a manifest without alias ("resuming costs only the work that is
left"); a `Pause` that read before the end overwrites done; a `Resume` between the last
status and the runner's exit does nothing; every server re-attaches to the same job.

Accounts (`RolesTakeEffect`): the comments on the cut-off promise that a role change ends
sessions, but `SetUserRoles` (`api/handlers/roles.go:111`) and the synchronisation of
provider roles do not move it; issue times are truncated to the second; a login that
overlaps a change mints the old roles; sessions got for an API token outlive it.

Access: the stored path of an image whose name begins with `manifests` is cut wrongly.

Replication (`tangled`): a start that cannot list the rules has no schedule until a rule is edited
or the server restarts (`service/replication_service.go:247-249`); overlapping reloads leave the older schedule; a rule edited on
one server keeps its entry on others; a listed path is skipped though its bytes changed; a
crash leaves the history "running".

Login guard (`excused`): overlapping checks lose a failure; a success on one server leaves
the entry of another.

Backup (`job.spoiled`, `NonDestructive`): `docs/architecture.md:181` says "Full tar.gz export
(metadata + blobs)", but the service reads and writes the one store of the configuration
(`api/router.go:126,359`). In a local installation that is the base path itself
(`storage/factory.go:29-33`), while every record's store is a directory below it
(`cmd/server/main.go:304`), so the archive has no bytes and restored bytes are served to nobody;
on S3 it is the bucket of the default record, and the bytes of other stores are missing. The
properties promise what is promised on S3, and say so. A restore upserts rows and overwrites bytes, though
`api/handlers/backup.go` and `docs/architecture.md:181` call it non-destructive; errors of an export and of `Put` are swallowed; an
import under another name writes the original's blob keys.

Groups (`calm`): an error reading the routing rule means no rule; one unreachable member
blocks downloads of those after it; an index that cannot be read is skipped.

Cleanup (`hollow`, `RetainNewest`): retention counts components whether they have an asset
or not (`docs/api-spec.yaml:209` speaks of versions); a lost flush makes downloads unseen;
as many undeletable rows as a batch holds starve the rest; `DeleteOrphans` takes the
component of an upload that has not registered its asset.

Hosted formats (`spoilt`, `raced`, `full`, `shifted`): a re-publish resets the index line
until its last statement; overlapping tag writers leave two holders; a removal beside a
re-publish takes the new component; searches are capped; gem pages are read by offset;
cargo, helm, nuget, go and terraform may list versions whose file is gone; an apt index and
its Release come from two requests.

Administration (`loose`, `moved`, `behind`): a store whose row or whose list of stores cannot be
read is taken for no member of a group, and deleted (`api/handlers/blobstores.go:171-178`); a
`PUT` of a repository that leaves out a boolean sets it to false, and the property takes it for
one the caller named; `docs/blob-store-groups.md:16` and `:56` say that `round_robin` does not
look at a member's quota, but `PickMember` skips full members under every policy
(`storage/registry.go:91`), and `PickSound` holds of both; deleting a member leaves groups that can no
longer be edited; overlapping updates lose fields; a body without a configuration wipes
it; the registries of other servers are never invalidated, and a request that read the
old row caches it again; a store can be deleted between the check and the write of a group
that takes it in (`docs/blob-store-groups.md:52`).

Audit log (`AheadOfTime`): on the last days of a long month `AddDate` skips a short one, so
its partition is made late (`config.yaml.example:186` "pre-creates partitions for the next
`lookahead_months` ahead"); routing rules, replication, promotion and backups are not
audited; an event whose insertion fails is lost.

Events: deliveries of webhooks are unordered and not retried.

## 6. What is not modelled

* Within the modelled parts: webhook and scan triggers after an upload (they are the start
  of `EventBroker` and `ScanQueue`), a failing read of a store's row or of the previous asset in a
  registration, a failing `FinishMigration`, a read of a store that breaks off while a cached
  document is served, an export whose client goes away half-way and failing lists of stores or a
  failing `Repos.Create` in the import of one repository (an imported repository without a store
  keeps the one it is configured on), client
  uploads to a promotion's target and re-uploads to its source, a delete that resolves its
  store before a migration's flip (a known exception), the size of the connection pool
  (`WithBlobKeyLock` holds one connection and asks for another).
* Objects appear whole and vanish at once, except while they are appended to.
  `storage/local.go` writes a temporary file and renames it, S3 is atomic per object.
* What a proxied manifest is typed as after it was cached (`recordCachedManifestMeta`).
* Read-only operations: browse trees, previews, statistics, downloads beyond what they
  record. They are operators where a property is about them.
* Parsing and wording: package files, wire syntax of indexes, CEL beyond the clauses that are
  matched, encryption of stored passwords, signatures, the rate limiter.
* Services outside: LDAP, OIDC and SAML exchanges, Trivy, OSV, upstreams and remote servers
  are the outcomes the code distinguishes.
* Components with status `not_modelled` in `PROJECT.json`: infrastructure (configuration,
  connections, observability), the server's wiring, the frontend. None has a protocol of its
  own; what a start resumes is in the modules of the jobs.

## 7. Plan

Done: the core and the services with their runs; the proofs of the core's safety properties,
of proxies, events, upload digests, images, scans, the two administrations, the login guard and the import. What
would come next:

1. **The upload session**: `SessionKept`, with the invariant of a session of one client.
2. **Access and accounts**: `Access!NeverWidens`, `Accounts`' sessions.
3. **Abstract store.** `ArtifactMap`: a path maps to a content, uploads and deletes are
   atomic; a refinement of `ArtifactStore` for uncontested keys, checked and then proved.
4. **The migration's counters** (`UsageFollowsBytes`), with the sums of `QuotaRegistrationProofs`
   moved to a module of their own.
