# A formal model of gokart

gokart is an ordering API with promo codes. A code is valid when at least two
of several large gzip files hold it; an offline builder reduces those files to
a small index, a watcher rebuilds and republishes the index when the files
change, and every server instance polls the published index. The catalogue is
served from an in-memory snapshot of a PostgreSQL table that is read from
replicas.

This directory models the parts of it where concurrency, faults and staleness
decide what is correct, checks them with TLC on small instances and proves the
most important results for every instance with TLAPS.

## 1. The system

### Components

| Component | Source | State it keeps | Operations | What makes it correct | Modelled in |
|---|---|---|---|---|---|
| Index builder | `coupon/builder.go`, `coupon/normalize.go`, `cmd/indexer` | spill files and buffers per source and partition, a shared partition counter, first error | pass 1: stream, scatter, flush; pass 2: pull, count; write | the index is exact for one whole corpus or is not replaced; a build ends | `IndexBuilder`, `ExactIndex`, `CouponRules`, `IndexCodec` |
| Index file | `coupon/index.go` | the file | `WriteIndex`, `LoadIndex`, `Contains` | old or new, never torn; a file whose header, length or records are damaged is refused; a lookup is membership | `AtomicFile`, `AtomicReplace`, `IndexCodec` |
| Corpus watcher | `pipeline/watcher.go`, `cmd/watcher` | `lastFP` | `CheckOnce`: probe, settle, probe again, rebuild, publish | every change is published in the end; no stale index passes for a fresh one | `CorpusWatcher`, `CouponPipeline` |
| Remote validator | `coupon/remote.go` | the index pointer, its ETag | `reload`, `Validate`, `Info` | only a verified index serves; a 304 never hides a change | `RemoteIndex`, `CouponPipeline` |
| Redis validator and seeder | `coupon/redis.go`, `cmd/seedredis` | a Redis set | `SADD` to a staging key, `RENAME`, `SISMEMBER` | no set half seeded; fail closed | `RedisSeed` |
| Local and static validators | `coupon/validator.go` | an immutable index or set | `Validate` | - | - |
| Catalogue cache | `store/cached/cached.go` | the snapshot pointer | `Refresh`, `Get`, `GetMany`, `Create`, `upsert` | list and map agree, upserts survive each other, the menu converges to the table | `CatalogCache` |
| PostgreSQL store | `store/postgres/postgres.go` | pools, the replica cursor, the tables | product queries, `Create`, `CreateWithID`, `CreateOrder` | an order is stored whole or not at all; the sequence stays ahead of the ids | `CatalogCache`, `Orders`, `Seeding` |
| In-memory store | `store/memory/memory.go` | maps, the insertion order and the id counter under a mutex | `Create`, `CreateWithID`, `List` | no id twice, no product replaced, each listed once | `MemoryStore` (products) |
| Services | `service/service.go` | none | `Place`, `Products` | coupon first, then items, then products; nothing stored on an error | `Orders` (`Place`) |
| HTTP API | `api/*.go` | rate-limit counters | routes | errors map to documented statuses | `Orders` (`placeOrder`, `requireScope`, `failDomain`) |
| Server | `cmd/server` | - | seed, serve, drain, close the pools | a shutdown ends, and drops no order | `Orders`, `Seeding` |
| Product seeding | `seed/`, `cmd/server` | the identity sequence | `seedProducts`, `CreateWithID` | the catalogue is seeded once and whole | `Seeding` |
| Seeding through the API | `cmd/seedproducts` | - | a POST per product | - | - |

### Interactions

```
uploader --files--> corpus <--HEAD/stat, GET/read-- watcher --coupon.Build--> index
                                                      | rename or PUT
                                                      v
server: RemoteValidator --GET, If-None-Match--> published index
handlers --> cached.ProductStore --(snapshot)--> Refresh, read-through --> replicas
                   | Create                                                  ^ replay
                   +------------------------------> primary -----------------+
handlers --> Orders.Place --Validate--> index or Redis set <--SADD, RENAME-- seedredis
                   | BEGIN .. COMMIT
                   +------------------------------> primary <--CreateWithID-- servers that start
```

The watcher and the servers share nothing but the published object; the
instances of the server share nothing but the database. Within a process the
shared state is small: spill files and a counter (builder), two atomic
pointers (cache, remote validator), a round-robin cursor (store).

### What is hard

* goroutines of both passes of a build against a cancellation, a failed source
  or a crash, and against what an earlier crash left behind;
* a corpus that changes file by file under a watcher that probes, reads and
  publishes in separate steps, with answers that get lost;
* a snapshot that is refreshed by two queries, upserted by handlers without a
  lock, and read from replicas that lag the primary written to;
* an ETag and an index that are stored in two steps while the object moves on;
* an order between its coupon, its products and its transaction, when the index
  is swapped, the database fails, the answer of a commit is lost or a shutdown
  cancels the request;
* several instances that seed one table while clients draw from its sequence;
* files and sets that are replaced (rename, `RENAME`) by processes that overlap,
  die or lose power on the way.

`PROJECT.json` lists each hazard at its line, with the properties that cover it
or the reason that none does.

## 2. The modules

| Module | Models | State and actions |
|---|---|---|
| `CouponRules` | what a code, a corpus and a valid code are | `Norm` stands for `Normalize`: a spelling becomes a code or `Rejected`. `ValidCodes` is the two-files rule of `countPartition`, stated without it |
| `ExactIndex` | the promise of `coupon.Build` (abstract) | `Begin`, `Replace`, `GiveUp` over the corpus being built and the index |
| `IndexBuilder` | `coupon.Build` | `src`, `pos`, `buf` are the source goroutines, `spill` the scratch files, `wpc`, `wpart`, `next`, `found` the workers of pass 2, `failed` is `firstErr`, `ctx` the context. One action per line scattered, source finished or stopped, partition pulled or counted, join, write, fault, cancellation and crash |
| `CorpusWatcher` | `pipeline.Watcher` | `stamp` is the corpus, `wpc` the place in `CheckOnce`, `fp`, `fp2` its fingerprints, `got` what was read. Each probe, read and publish is a step of its own; the uploader may act between any two |
| `CatalogCache` | `cached.ProductStore` over `postgres.Store` | `log` is the primary by commit order, `applied` the replicas, `snap` the snapshot; `rpc`, `rfp`, `rlist` are `Refresh`, `want`, `todo`, `old` the handlers |
| `RemoteIndex` | `coupon.RemoteValidator` | `object` is what is at the URL; `pc`, `sent`, `resp`, `whole` are `reload`, `idx` and `etag` what it stores, in that order |
| `AtomicReplace` | the promise of `WriteIndex` and `publish` (abstract) | the version at the path goes from one whole version to another; a power loss may take it back to one it had since the directory was synced |
| `AtomicFile` | the steps of `WriteIndex` and of the local branch of `publish` | `ino` is a writer's temporary file, `data` and `stable` what is in a file and whether it was synced, `path` and `behind` what is at the path and what a power loss may leave there. Writers may run at once, fail or die after every step |
| `IndexCodec` | the byte level under `IndexBuilder` | the scan of sorted records with its mask (`i`, `j`, `mask`), the file that `WriteIndex` encodes, damages of its header, metadata, records and length, `LoadIndex`, and the steps of `sort.Search` (`lo`, `hi`) |
| `CouponPipeline` | two watchers and a server | two instances of `CorpusWatcher` and one of `RemoteIndex` that share the corpus and the published object; every action is an action of a part. The target is a URL, as the server polls it: a PUT may go unanswered and a HEAD fail; each of the three may be restarted (`Restart`). `by` is a history variable, the watcher that published last |
| `Orders` | `POST /api/order`, `CreateOrder`, shutdown | `pc` is where a handler is, `tx` the rows of its transaction, `stored` what was committed, `answer` what the client was told, `server` the phase of `run` |
| `RedisSeed` | `cmd/seedredis`, `RedisValidator` | `set` is Redis, `spc` and `idx` the seeders, `up` the servers that passed the check at their start |
| `MemoryStore` | the product store of `memory.go`, and what `Seeding` promises | `byID`, `order`, `nextID` as in the code |
| `Seeding` | `seedProducts`, `CreateWithID` and `Create` of `postgres.go` | `rows` and `seq` are the table and its identity sequence; an INSERT, the read of `MAX(id)` and the `setval` are three steps |
| `MCIndexBuilder`, `MCCatalogCache`, `MCRemoteIndex`, `MCOrders`, `MCIndexCodec` | - | small instances; the other modules need none |
| `IndexBuilderProofs`, `CorpusWatcherProofs`, `RemoteIndexProofs`, `OrdersProofs`, `CatalogCacheProofs`, `CouponPipelineProofs` | - | theorems and proofs about the module of that name |
| `IndexFileProofs` | - | those about `IndexCodec`, `AtomicFile` and `RedisSeed`, the index as it is written, stored and copied to Redis; it extends all three, which is why the specifications of the latter two are `FileSpec` and `SeedSpec` |
| `ProductStoreProofs` | - | those about `MemoryStore` and `Seeding`, the two stores of products |

How they fit together:

* `IndexBuilder` implements `ExactIndex` (`ImplementsExactIndex`, with
  `building <- IF main = "idle" THEN NoCorpus ELSE corpus`), and
  `CorpusWatcher` uses that promise as its build: an index of exactly the files
  that were read, or an error when one of them is incomplete.
* `IndexCodec` does for one index, byte by byte, what `CountPartition` and
  `WriteIndex` of `IndexBuilder` do in a step each.
* `AtomicFile` implements `AtomicReplace` (`ImplementsAtomicReplace`: a version
  that is torn is seen as `Torn`), which is why the other modules write a file
  in one step.
* `Seeding` implements `MemoryStore` as long as one instance is alone
  and has not crashed (`ImplementsMemoryStore`: the counter of the memory store is the sequence,
  plus one, or the id after a row whose `setval` is yet to come).
* `CouponPipeline` composes `CorpusWatcher` and `RemoteIndex`. What `Orders`
  sees of the pipeline and of `CatalogCache` is that the valid codes and the
  products that are found may change between any two of its steps.

Each module begins with the rules of the code that its actions rest on
(`MustFlush`, `JoinErr`, `FPAfterRebuild`, `Fingerprint`, `ETagOnSwap`, ...).
A rule is preceded by variants of it with a plausible mistake; `mutants` in
`PROJECT.json` pairs each property with a variant under which TLC finds it
violated.

### Abstractions

* A code is one value and a line one of a few spellings, so the hash
  disappears; any `Route` of codes to partitions is allowed, which is what
  "hash quality never affects the result" claims. An overlong line is one more
  rejected spelling. Padding, order and search are the subject of `IndexCodec`,
  with codes of two and three bytes in place of eight to ten.
* A file is its lines and whether its gzip stream verifies. `WriteIndex` and
  `LoadIndex` are one step each, but for `AtomicFile` and `IndexCodec`.
* The CRC of `IndexCodec` is the records themselves: a checksum that happens to
  match is left out.
* In `CorpusWatcher` one number per file stands for its content and its probe;
  that different content has a different probe is an assumption of the code.
  Time is not modelled: any amount passes between two steps. `adopted` is
  a history variable: `lastFP` stands for an index that the watcher found and
  did not build.
* A product is its id: the table is insert-only, so name and price never
  change. A replica has applied a prefix of the primary's commits. Snapshot
  pointers are compared by value, which is sound because an upsert computes
  its result from nothing but the snapshot it loaded.
* The store answers a GET from one version of the object, and two objects with
  the same ETag are the same.
* In `AtomicFile` changes of a directory and of modes reach the disk in the
  order they are made, data in any order and in parts unless it was synced.
* An order is its rows: 0 for the order, i for its i-th item. `stored` keeps them
  by attempt, as each attempt has an id of its own. Prices, names and the
  contents of answers are left out.
* A Redis command is atomic. The staging key of a seeder stands for its UUID.

## 3. The runs

Bounds are constants, named and given in the `.cfg`.

| Run | Bounds | States | Shows |
|---|---|---|---|
| `builder` | 3 files, 3 codes, 2 partitions, 2 workers, buffers of 2 records, 4 corpora; any number of builds, faults and crashes | 9.7 k | `TypeOK` (with: no buffer ever holds `FlushRecords`), `SpillExact`, `PartitionsAccounted`, `IndexExact`, `ImplementsExactIndex`, `BuildEnds` |
| `watcher` | 3 files (1 URL, 2 local), a URL target, 2 drops, 1 failed call or lost answer, 1 restart | 1.7 M | `SteadyMeansFresh`, `PublishedWhole`, `EventuallyFresh`, `NoticedChangePublished` |
| `catalog_replica` | 2 products, 1 replica, 2 handlers, 1 failed refresh | 335 k | `TypeOK`, `ListMatchesMap`, `NoPhantom`, `SkipIsSound`, `LostWriteIsNoticed`, `UpsertsKeepUpserts`, `MenuConverges` |
| `remote_index` | 5 artifacts (damaged ones, ones without ETag), 2 failures, 1 restart | 2.3 k | `TypeOK`, `ServesVerified`, `NotModifiedIsSound`, `EventuallyAdopts` |
| `atomic_file` | 2 writers at a time, one of which syncs the directory, 3 replacements; any number of failures, deaths and power losses | 19 k | `NeverTorn`, `SyncedStays`, `ImplementsAtomicReplace` |
| `coupon_pipeline` | 2 watchers, 1 server, 2 files at URLs, a URL target, 1 drop, 1 fault: a failed call or HEAD, a lost PUT answer, a cut download or a restart of any of the three | 2.2 M | `BothSteadyMeansFresh`, `EventuallyServed` |
| `orders` | 2 clients of 2 requests each out of 9 different ones, 1 code, 1 failure, lost answer, cut drain or crash; any number of swaps, refreshes and orderly restarts | 585 k | `TypeOK`, `StoredWhole`, `StoredWasAcceptable`, `AnswerTellsTruth`, `ShutdownEnds` |
| `redis_seed` | 2 seeders, 1 server, 3 indexes (one empty), 1 failure, 1 loss of the key | 1.4 k | `NeverHalfSeeded`, `NeverSilentlyRejects` |
| `seeding` | 2 instances, 1 client of 3 creates, a catalogue of 3, reads from a lagging replica, 1 crash | 33 k | `SeededWhole`, `SequenceAhead`, `ImplementsMemoryStore` |
| `index_codec` | 737 corpora of codes of 2 and 3 bytes in 2 or 3 sources and 2 partitions, every question, metadata of one record, damages one after the other | 3.2 M | `ScanIsTheRule`, `LoadsWhatWasWritten`, `AnswersMembership` |
| `catalog_two_replicas` | 2 products, 2 replicas, 1 handler | - | `MenuConverges` fails |
| `orders_on_deploy` | 1 client, no failures | - | `NoDroppedOrders` fails |

Why the bounds are enough to meet the cases:

* the corpora of `builder` hold a code repeated in one file only, codes shared
  by two and by all files, a file with nothing well-formed and a drop with a
  damaged file; a buffer of two records is both filled and left half full; two
  codes share a partition and a partition can be empty; two workers contend for
  two partitions;
* `watcher` sees a drop finish, a drop interrupted by its probes and reads, and
  a drop overtaken by the next, with a lost answer or a restart at any point;
* two products and two handlers make a create, a read-through and an insert
  elsewhere overlap with a refresh;
* two writers are enough for one to rename between the rename and the sync of
  the other, and a third version shows what a power loss goes back to;
* in `coupon_pipeline` either watcher may be overtaken by the other at every
  step between its first probe and its publish, and the server's poll is in
  flight before, between or after them; the one fault can be the lost answer of
  the first PUT, after which its watcher adopts its own index, also when the
  drop came in between and the other watcher adopts it too, or a restart at any
  moment; more faults are left to the proof, which bounds nothing;
* the requests of `orders` fail each check of `placeOrder` and `Place` in turn,
  those with several mistakes in the order of the code; the two attempts
  of a client are a request and its retry, and one failure can be the lost
  answer of a commit;
* with a catalogue of three rows another instance can be one row ahead, one
  behind or done, and three creates reach past the seeded ids;
* the corpora of `index_codec` are all those of two sources with up to three
  lines of two codes each, in any order, and all those of three sources that
  hold any of three codes once: a code is repeated in one source, shared by two
  or by three, and a prefix of another.

### Where the code and its documentation disagree

Two runs state what a document says, and TLC finds what the code does instead;
`findings` in `PROJECT.json` quotes the lines.

* `catalog_two_replicas`: the fingerprint of a refresh comes from one replica
  and its list from another. A stale list is stored under the current
  fingerprint, and every later tick skips. This is a bug rather than a matter
  of wording: the staleness is not bounded by any interval. With at most one
  replica `SkipIsSound` and `MenuConverges` hold.
* `orders_on_deploy`: the shutdown of fasthttp ends the context of every request
  in flight before it waits for them, so an order that is being stored is
  cancelled and its client told 500.

Others follow from the same modules with other constants or properties, and are
what some of the passing properties have to exempt:

* `IndexBuilder` with `TempDirGiven = TRUE`: a build in the scratch directory of
  a crashed one counts its spill files too, and `IndexExact` fails;
* `CorpusWatcher` with `Once = TRUE`: every check is a first one and adopts what
  is published, so that after the first build no change is rebuilt;
* the lost answer of the first PUT: the retry adopts what was stored under the
  fingerprint of a corpus that is newer by then. `SteadyMeansFresh` and
  `EventuallyFresh` exempt this and the restart through `adopted`;
* `CouponPipeline`: the same with two watchers. When the one that published
  last adopts its own index, after a restart or the lost answer of its first
  PUT (`Forgot`), and a drop came in between, both can be steady on a stale
  index, and the server keeps it until the next drop. `BothSteadyMeansFresh`
  and `EventuallyServed` exempt this; an adoption by the other watcher,
  a restart of the server or a lost answer to any later PUT are not exempt;
* `LoadIndex` does not checksum the metadata: a file in which they were changed
  to other JSON is loaded (its records are still those that were written), and
  `Info` reports what they say. `LoadsWhatWasWritten` says which changes are
  refused: all others that the model makes;
* a HEAD of the target that is answered with an error status counts as a missing
  target, and a good object is rebuilt. No property forbids it; what replaces
  the object is whole, and later changes are not missed for it;
* a set that moves after the second fingerprint is published as it was read,
  and repaired by the next cycle: `PublishedWhole` speaks of whole files, not of
  one set;
* `CatalogCache`: a refresh that listed before a create stores after it and
  takes the acknowledged product off the writer's menu until a later refresh
  (`LostWriteIsNoticed`: that refresh reloads); with a lagging replica the
  read-through does not find it either;
* `RedisSeed`: when Redis loses the key, valid codes are answered "invalid" by
  servers that count as ready; `NeverSilentlyRejects` holds while the key stays;
* `Seeding`: of two instances that seed at once one may set the sequence
  back, and a crash between a row and its `setval` leaves it behind; nothing
  repairs either. `SequenceAhead` and `ImplementsMemoryStore` need `Alone`, and
  the latter at most one client: overlapping creates are outside it. A
  seeding broken off is not resumed, as any product counts as populated.

### Deadlock

TLC checks for deadlock, but in `seeding` (the budgets of crashes and creates
run out, and instances then only serve) and in `index_codec` (a behaviour ends
with its last answer).

### Fairness

* `IndexBuilder`: each source goroutine, each worker and the joining goroutine
  is weakly fair: the Go scheduler runs them. Starting a build and every fault
  are not fair.
* `CorpusWatcher`: the cycle as a whole is weakly fair: the ticker fires and
  requests end. (`http.DefaultClient` has no timeout, so a server that never
  answers would break this; see the hazards.) The uploader is not fair: a file
  may stay half-written for ever, and the liveness properties say so.
* `CouponPipeline`: the cycle of each watcher and the polling of the server, on
  the same grounds as in its parts. Each always has a next step, so that its
  weak fairness is that it takes steps for ever, and is stated so.
* `CatalogCache`: the refresh, each replica's replay and each begun request are
  weakly fair. Inserts and requests need not come.
* `RemoteIndex`: the steps of polling and reloading are weakly fair: the
  ticker fires, and the client has a timeout. A server whose first fetch failed
  is started again.
* `Orders`: the checks of a handler, the return of a cancelled query, and the
  steps of a shutdown and of a restart. The statements are not fair: nothing
  bounds a query while the server is up, and `ShutdownEnds` holds all the same.
* `AtomicFile`, `RedisSeed`, `Seeding`, `IndexCodec`: none, and no liveness is claimed: any
  process may stop for good after any step.

Failures are bounded in number where a liveness property is checked, which is
how "from some moment on nothing fails" is expressed.

## 4. The proofs

| Theorem | Says |
|---|---|
| `TypeCorrect` | `Spec => []TypeOK` of `IndexBuilder` |
| `IndexAlwaysExact`, `SpillAlwaysExact`, `PartitionsAlwaysAccounted` | `~TempDirGiven => (Spec => []...)` for `IndexExact`, `SpillExact`, `PartitionsAccounted` |
| `BuildImplementsPromise` | `~TempDirGiven => (Spec => ImplementsExactIndex)` |
| `WatcherTypeCorrect`, `WatcherSteadyMeansFresh`, `OnlyWholeFilesPublished` | `TypeOK`, `SteadyMeansFresh` and `PublishedWhole` of `CorpusWatcher` |
| `RemoteTypeCorrect`, `AlwaysServesVerified`, `NotModifiedAlwaysSound` | `TypeOK`, `ServesVerified` and `NotModifiedIsSound` of `RemoteIndex` |
| `FileTypeCorrect`, `FileNeverTorn`, `SyncedReplacementStays` | `FileTypeOK`, `NeverTorn` and `SyncedStays` of `AtomicFile` |
| `ReplacementIsAtomic` | `FileSpec => ImplementsAtomicReplace` |
| `OrdersTypeCorrect`, `OrdersStoredWhole`, `OnlyAcceptableStored`, `AnswersTellTruth` | `TypeOK`, `StoredWhole`, `StoredWasAcceptable` and `AnswerTellsTruth` of `Orders` |
| `SeedTypeCorrect`, `SetNeverHalfSeeded`, `ValidNeverRejected` | `SeedTypeOK`, `NeverHalfSeeded` and `NeverSilentlyRejects` of `RedisSeed` |
| `SeedingTypeCorrect`, `CatalogueSeededWhole`, `SequenceStaysAhead` | `TypeOK`, `SeededWhole` and `SequenceAhead` of `Seeding` |
| `TableImplementsStore` | `Sole => (Spec => ImplementsMemoryStore)` of `Seeding`, where `Sole` is at most one client; `ImplementsMemoryStore` itself speaks of one instance that has not crashed |
| `StoreInvariant`, `IdsNeverCollide`, `EachListedOnce`, `ProductsStay` | `PositiveIds => ...` for the types, `NeverCollides`, `ListedOnce` and `NeverReplaced` of `MemoryStore` |
| `CacheTypeCorrect`, `MenuAgreesWithLookups`, `NothingPhantom`, `UpsertsSurviveUpserts` | `TypeOK`, `ListMatchesMap`, `NoPhantom` and `UpsertsKeepUpserts` of `CatalogCache` |
| `SkippingIsSound`, `LostWritesNoticed` | `NumReplicas <= 1 => (Spec => []...)` for `SkipIsSound` and `LostWriteIsNoticed` of `CatalogCache` |
| `NobodySkipsAChange`, `OnlyWholeFilesServed`, `PipelineServesVerified` | `BothSteadyMeansFresh` of `CouponPipeline`, that no server has an index in service which was built from a file still being written (`ServedWhole`), and the `ServesVerified` of its server |
| `ScanFindsTheRule`, `OnlyWrittenLoads`, `LookupIsMembership` | `ScanIsTheRule`, `LoadsWhatWasWritten` and `AnswersMembership` of `IndexCodec` |
| `WrittenNeverRefused` | that `LoadIndex` never refuses the file that `WriteIndex` left |

They hold for all values of the constants that satisfy the named assumptions of
the modules, which TLC evaluates in every run.

**The builder.** The assumptions: two to eight
sources, at least one partition and one worker, `Norm` and `Route` total
functions. `IndexExact` is not inductive: it speaks of the file only. The
invariant `Exact` adds to it what is true on the way: `SpillExact` (between
its buffer and its spill file, a partition of a source holds exactly the codes
of the lines consumed that route to it), `SourcesAccounted` (a source is done
with its buffers empty and its file verified, or the build has failed) and
`PartitionsAccounted` (each partition handed out is counted exactly, or being
counted, or the build is bound to fail). `CountIsRule` shows that counting a
partition is the two-files rule, `MergeIsAll` that the partitions together are
all the codes, `TwoBits` that two bits of the mask are two distinct sources.
`~TempDirGiven` is needed (section 3). The refinement follows from the same
invariant: only `WriteIndex` changes the index, and it writes what `Replace`
does.

**The watcher.** `SteadyMeansFresh` follows from an order: every file is read
after it was probed, stamps only grow, and `lastFP` is a probe made before the
reads of the published index, so `lastFP[f] <= published[f] <= stamp[f]`; when
the two ends are equal, so is the middle. `WatchInv` carries this through the
cycle (`ProbeInv`, `ReadInv`, `LastInv`), also through a publish whose answer is
lost: it puts a newer index under an older `lastFP`. Where `lastFP` was
adopted the order is unknown, and the property exempts it. For
`PublishedWhole` a build accepts whole files only, and forgets what it has read
when a cycle ends.

**The remote validator.** Its assumption is `ETagAssumption`: two artifacts
with the same ETag are the same. `NotModifiedIsSound` speaks of a request in
flight; the invariant `TagInv` behind it says that `v.etag` is the tag of
`v.idx` except between the two stores of `reload`, and `ReloadInv` that no
request is sent there. This is what storing the tag last, and only after
verification, is for.

**The file.** Each writer has a file of its own, which nothing has seen before
it is whole, synced and readable; what can be at the path after a power loss
are such files only. `SyncedStays` and the refinement need an order among
them: what is behind the path is never older than the last replacement whose
directory was synced (`RankInv`).

**The bytes of the index.** `CodecInv` has three parts. `ScanInv`: the records
of a partition are sorted, so those of a code form one run (`ScansSorted`); the
sources in `mask` are those of the run read so far, and `codes` holds, once each,
the codes of two sources whose runs have ended. `EncodedInv`: a file that passes the
CRC has the records and the CRC that were written, whatever became of its
metadata; so a file that loads is `Intact`, and an intact one loads
(`LoadsIsIntact`: the order and the length that `LoadIndex` checks are those of
what was written). Each damage keeps this (`DamageShows`).
`SearchInv` is that of a binary search: before `lo` every record is before the
key, from `hi` on none is. They rest on four facts about the encoding: sorting
by rank lists a finite set in a strict order (`RanksOrder`); the comparison of
records is such an order (`BeforeIrreflexive`, `BeforeTransitive`,
`BeforeTotal`); padding tells codes apart although one may be a prefix of
another, because NUL is no byte of a code (`PadTells`); and trimming undoes it
(`TrimmedPad`). The assumption `CodecAssumption` says that there are at most
eight sources, which the eight bits of the mask need, and that what is spilled
are codes. Sorting and padding are stated without recursion for this.

**The catalogue.** `ListMatchesMap`, `NoPhantom` and `UpsertsKeepUpserts` hold for
any number of replicas. A snapshot is replaced in two ways only (`SnapSteps`):
a refresh stores the list it has read, or a handler swaps in its upsert, and
that only over the snapshot it had loaded (`Swaps`), so what another has put in
is still there. What the fingerprint tells needs more: it is a count and a
maximum. With at most one pool to read from, what a query returns only grows
(`PoolGrows`), so the list is of a table no older than that of the fingerprint
it is stored with (`FreshInv`); and of two tables, one within the other, with
the same count, neither misses a product (`CountTells`). An upsert drops the
fingerprint. With two replicas the pool does not grow from query to query,
which is the bug of section 3.

**The pipeline.** The lemmas about a watcher are used for each of the two, and
those about the remote validator for the server, by INSTANCE of their proof
modules; `PartsMeetAssumptions` shows that the parts meet the assumptions of
those modules. What a watcher knows of the published index another may
overwrite, so of `WatchInv` only `CycleInv`, what it keeps by itself, carries
over, and `KnownInv`, that its fingerprint, adopted or not, is ahead neither of
the corpus nor of what it is reading. In its place `PublishedInv` says, with `by`, that
the published index is not older than the fingerprint of the watcher that
published last, unless that one adopted it: when both fingerprints are the
present stamps, it does not matter which one that is. A publish whose answer is
lost makes its watcher the last one under the fingerprint it had, which is older
(`FaultTells`); a restart forgets a fingerprint, and what is forgotten is equal
to no stamp (`ResetKeeps`).

**Orders.** `HandlerInv` says of a handler in flight that it has stored nothing
and told its client nothing, and that what it has passed so far was in order:
`PassedSoFar` grows with `pc`. The coupon was valid at some moment of the
request, which is why `since` only grows while a request is in flight; products
are never removed. `AnswerKeeps`, `HandlerMoves` and `PersistKeeps` are the
three things a step can do, and each action is one of them.

**Seeding.** `SeededWhole` needs no condition: an instance has behind it every
row it has passed, whether it inserted the row or met a conflict, and rows are
never removed. `SequenceAhead` needs `Alone`; its invariant says that the
sequence is ahead of all rows but, perhaps, the one that was just
inserted, and that the `MAX(id)` read since is the largest id there is.
`TableImplementsStore` adds that the sequence is then not only ahead but at the
last id (`ExactInv`), so that the counter of the memory store can be read off
it, and that the list has as many ids as the table (`CountInv`). `Sole` is that
there is at most one client: two draw ids in one order and may insert them in
the other, which the counter of the memory store never does.

**Redis.** A staging key holds the index of its seeder, whole, and is used by no
other (`StagedIsIndex`), so that RENAME puts a whole set at the servers' key. As
long as the key is not lost the set there is the last seeding, and none that is
staged is empty (`KeptInv`).

**The store in memory.** `nextID` is at or beyond every id, so `Create` assigns
to a key that is not in the map; `order` has the ids of the map, each once. For
negative chosen ids `nextID` would not be, hence `PositiveIds`; the callers
pass ids from 1.

Only model-checked: all liveness properties (`BuildEnds`, `EventuallyFresh`,
`NoticedChangePublished`, `MenuConverges`, `EventuallyAdopts`,
`EventuallyServed`, `ShutdownEnds`), since fairness and `ENABLED`
are outside what TLAPS proves, and the two runs that expect a violation. Every
invariant and action property of a passing run is a theorem. Induction over data
(what a recursive definition computes for every input) is also out of the
prover's reach; no module uses `RECURSIVE`, and what could be written with it
(sorting, padding, the two-files rule) is defined by ranks, quantifiers and
cardinalities instead.

## 5. Not modelled

* The local and the static validator: immutable after construction.
* Configuration, domain types, logging: parsing and plain data.
* HTTP routing, decoding, CORS and the rate limiter: a per-process counter per
  client behind a mutex, and pure functions. (One divergence met on the way:
  Fiber serves `POST /api/ORDER`, but `patternMatches` compares the path as it
  was sent, so `GET /api/ORDER` is a 404 where router.go:127 promises a 405.)
* `canonicalID` and the checks of `Products.Create`: pure.
* The order store of `memory.go`: a map under a mutex that only grows.
* `RemoteValidator.Info`, which reads the index and its time separately: only a
  diagnostic, and its tear lasts one call.
* A server that never answers the watcher (`http.DefaultClient` has no
  timeout), and different contents with the same probe: the assumptions of
  `CorpusWatcher` that the code does not enforce.
* `cmd/seedproducts`: a client that posts the catalogue; its effect on the table
  is that of the clients in `Seeding`.
* Deployment files: read for the environment the modules assume.

## 6. Plan

All modules of the plan are written, and the safety properties of every run
are proved. What is left is to relate the modules more closely by proof:

1. that the counting of a partition in `IndexCodec` gives what `CountPartition`
   of `IndexBuilder` takes in one step;
2. that the watcher of `CorpusWatcher`, for which a publish is one step, may be
   put on the `AtomicReplace` that `AtomicFile` implements;
3. safety steps that the liveness properties rest on: which steps stay enabled
   until they are taken, and what decreases.

## 7. Running

```
tlc -workers 2 -config IndexBuilder.cfg MCIndexBuilder.tla
tlc -workers 2 -config CorpusWatcher.cfg CorpusWatcher.tla
tlc -workers 2 -config Orders.cfg MCOrders.tla
tlapm OrdersProofs.tla
```

The pairs of module and configuration are in `PROJECT.json`.
