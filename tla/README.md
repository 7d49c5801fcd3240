# Cloudbreak: a TLA+ model of the indexer, its trackers and its API

Cloudbreak indexes the accounts of a Solana cluster into Postgres and serves RPC
reads from it. This directory models what decides whether those reads are right:
how blocks are received, saved, finalized, repaired after a loss and cleaned up,
how a node starts from a snapshot, the trackers that keep totals and tops beside
the accounts, the query tracker that builds indexes, and the API with its caches.
It holds TLA+ modules, TLC configurations and TLAPS proofs; `PROJECT.json` lists
components, runs, the source lines of every definition, mutants, findings, hazards
and theorems. Paths below are relative to `src/crates/`.

## Inventory

| Component | State | Operations | Talks to | Correct when |
|---|---|---|---|---|
| Main loop (`index/src/indexer.rs`) | update channel | `process_update`: block, finalized slot | self-healing, block saving, finalizer | every received block is saved, noted and fed to the trackers |
| Self-healing (`index/src/modules/self_healing.rs`) | gaps list, boundaries, last block | `check_slot_gap` (main loop), `fill_gaps` (own task) | finalizer, block saving, supply, mints | no lost block goes unnoticed, a pause outlasts only a gap no snapshot pair covers |
| Slot finalizer (`finalize_slot.rs`) | confirmed blocks, ordered queue, pause reasons, two `Notify` | `record_block`, `note_finalized`, `enqueue_unbounded`, `pause`, `resume`, worker | slots table, cleanup, health | every queued slot is finalized, no wakeup is lost |
| Node health (`health.rs`, `core/src/modules/service_health.rs`) | set of reasons, one row | add, remove, row write after the lock | finalizer, startup, API | the row follows the reasons |
| Block saving (`save_block.rs`, `db_queries.rs`) | rows of `accounts`, Confirmed row | classify, masks, rows, record, confirm | owner map, finalizer, trackers | a reader sees the block's accounts at its slot |
| Owner map (`core/src/modules/account_owner_map.rs`) | key to owner and slot | upsert, route closes, remove, seed | block saving, cleanup, startup | closes reach the owner that has rows |
| Deferred cleanup (`index/src/modules/cleanup/`) | keys per finalized slot, wake permit | `enqueue`, `take_window`, ordered deletes, `reinsert` | both account tables | superseded versions go, nothing else does |
| Startup (`snapshot.rs`, startup cache in `finalize_slot.rs`, `snapshot/`) | snapshot state, files, versions, cache of updated accounts | load, dedup, one-shot cleanup | health, cleanup, trackers | reads are exact once the node is healthy |
| gRPC subscription (`core/src/modules/grpc.rs`) | subscription, give-up window, `from_slot` | connect, forward, reconnect | main loop, processed store | a reconnect is bounded and resumes where it can |
| Supply tracker (`core/src/modules/supply/`) | total, status, startup window, balance cache | apply a block, flip, gaps, sweep, persist | block saving, stake map, API | every lamport is counted once |
| Non-circulating tracker (`core/src/modules/non_circulating/`) | stake map, Clock, expiry sets | seed, flip, apply a block | supply, largest accounts | members are those of the Clock |
| Largest accounts (`core/src/modules/largest_accounts/`) | bounded top per mint, reservoir | seed, flip, apply a block, persist, prune | stake map, API | a served top is the true one |
| Mint cache (`core/src/modules/mint_cache/`) | indexer copy, `mints` table, API copy | snapshot, block, background write, load, reload, lookup | block saving, feed, API | the cache says what the chain held at the slot |
| Processed store (`core/src/modules/processed/`) | blocks above the confirmed one | block, anchor, prune, publish | feed, synchronizer, API | what is published is one chain |
| Query tracker (`query-tracker/`, `api/src/query_tracker_client.rs`) | demand buffer, patterns, indexes | flush, ingest, create, evict, roll | Postgres, API, health | demand is kept, the cap holds |
| API (`api/src/`) | slots and health it knows, requests, program-accounts cache, feature set | every account method, batches, streams | all tables | an answer is the chain at the slot it names |
| Program-accounts cache (`api/src/modules/cache`) | entries, buckets by slot, two counters | lookup, install, evict | API | counters and entries agree |

What is hard: tasks share state behind separate mutexes and continue after they
release them; a `Notify` keeps one permit; blocks and notifications are lost, late
or repeated; a paused worker back-pressures the main loop while another task must
lift the pause; the same account is written by two tasks (live and repair) at
different slots; two tables are deleted from without a transaction; live blocks are
applied while the snapshot that precedes them still loads; readers use slots and
entries they learned earlier.

## Modules

### The indexer

`SlotFinalizer` models `finalize_slot.rs`: an action is one critical section or one
awaited database call. `blocks` is the map of confirmed blocks, `pending` the queue,
`work` and `space` the permits of the two `Notify`; the ancestor walk is the least
set closed under hash-checked parent links. The callers of `FinalizerSpec` are
arbitrary. `ServiceHealth` has the locked halves of `add_reason` and `remove_reason`
and, as a step of its own, the row write issued afterwards.

`SelfHealing` extends both with the main loop, `fill_gaps` and the end of startup.
`check_slot_gap` is split at its locks: `BlockAfterGap`, `GapBoundary`, `GapPause`,
`GapReason`, `GapMark`; `fill_gaps` likewise, from `FillWake` to `FillFinishGap`.
`exited` stands for the ways in which it ends the indexer. The environment loses any
block or notification, delivers blocks late (`Late`), and offers snapshots that cover
a gap, part of it or nothing. Two unreachable branches of `fill_gaps` are left out:
a pair without an incremental snapshot and a failure to start processing.

`Cleanup` models `cleanup/`: items with exclusive cutoffs per finalized slot, windows,
wake conditions, the ordered deletes with partial failure, and reinsertion.
`AccountStore` extends it with `save_block`: classification, the owner map, masks and
rows written concurrently, the Confirmed row, `keys_for_slot` at finalization, and the
queries that read. Gap repair is the second task that saves blocks.

`Startup` extends `AccountStore` with the load: the states of `snapshot.rs`, files
opened in any order, versions kept for deduplication, the owner-map seed, the startup
cache and its one-shot cleanup, all while blocks are saved and finalized. A failed load
panics and a restart clears the tables, so a restart is the initial state.

### The trackers

`StakeMap` (non-circulating tracker), `SupplyTracker` and `LargestTop` are operators
from state to state, one per operation that holds the mutex. `Supply` and
`LargestAccounts` interleave them: the saves of the main loop and of the gap filler
step by step, the snapshot seeds, both flips, the sweeper or pruner, rows written after
the lock is released, and the API's reads. `LargestAccounts` takes class membership as
part of the chain, `Supply` computes it.

`MintStore` (the maps and rows that indexer and API share) and `MintCache` (bootstrap,
background writes, gaps, the API's load, feed, chain application, reloads, lookups).

`IndexPatterns` holds the statements on `index_patterns` and the scores; `QueryTracker`
the client buffer, the ingest request, the creation loop, the eviction pass and the
score roll, statement by statement. Time appears as flags that may rise (aged, idle,
unused, waited); costs are small numbers, ratios are cross-multiplied.

### The API

`GrpcFeed` (the subscription with its give-up window) feeds `Processed` (block store,
anchor, publication, one request that falls back to Postgres).

`GpaCache` is the program-accounts cache as operators; `RpcMethods` says what each RPC
method asks, in which order it reads, and what it refuses; `ApiServing` runs requests,
batches, streamed bodies, finalize jobs, the synchronizer and the indexer's publications
against each other. The bytes of an encoded account are abstracted to what a client can
tell apart: the version it came from, the version of its mint (or of the feature set),
and the blockhash. `SnapshotReads` is the abstract specification: a read is answered
with the state of the chain at one slot, not older than what the API knew at the
question and not newer than what was published at the answer, or fails. `ApiServing`
implements it (`Reads == INSTANCE SnapshotReads WITH ...`, property `ServesSnapshots`,
proved in `ApiServingProofs`).

### Conventions

`MC*` modules give the instances. A `scene` or `mode` is a record chosen by Init: the
histories of the chain, the configuration and which faults may happen. One run covers
several scenes; the questions they ask are independent. Definitions named for a fault
(`KeysForSlotKeepsMask`, `PublishesEarly`, ...) are faulty variants of the definition that
follows them, used to see that a property notices the fault; nothing else refers to
them.

## Runs

| Run | Instance | Distinct states |
|---|---|---|
| `finalizer` | 3 slots, bound 1, a fork, a repaired block, failing inserts | 1,457,892 |
| `healing_safety` | slots 1..4 with 2 skipped, 3 may be late, bases 0 and 2, 2 retries, failing health writes | 3,038,947 |
| `healing_liveness` | slots 1..3, slot 2 may be late, bases 0 and 2 | 620,345 |
| `store` | one key, two programs, 3 or 4 slots; modes with the owner map, with lost and repaired blocks and windows of 2, with failing masks, rows and deletes | 1,097,247 |
| `startup` | one key, 3 slots, of which the pair covers one to three; with and without owner map, system program, snapshot section | 567,155 |
| `supply` | one account, 4 or 5 slots; lost blocks with or without their closes, repeated blocks, failed writes and reads, a stake account with both locks, one rewritten in a lost block, a pinned account | 961,197 |
| `largest_accounts` | 3 accounts, top of 1 out of 2 kept, 2 mints, a lost block, lockups that end meanwhile, failed writes | 290,307 |
| `query_tracker` | 1 to 3 patterns, cap 1 to 4; eleven scenes for the ways in which demand, creation and eviction meet: at a cap of one with failing builds and drops or a restart, revived and recovered patterns, refused and unbuildable ones | 367,109 |
| `mint_cache` | one mint, 5 slots, five histories; gap, late block, missed block, fork, failed queries | 317,685 |
| `processed` | 4 slots, store of 2 above the confirmed block; five block trees, reconnects | 1,266,076 |
| `api_serving` | 2 clients, 2 or 3 accounts, 3 slots, 3 requests, cache of 4 bytes of which 2 may stay pinned; nine scenes | 745,839 |
| `filtered_reads` | as `api_serving`, one query with a data filter | violation |

What they show: no lost wakeup of worker or producer and a `Finalized` row that never
moves back; every missed block is noticed, nothing is left unfinalized behind the tip,
every pause ends unless the snapshot pairs keep leaving a gap slot out; program reads match the chain at every step while nothing
fails, and a drained store is exact up to rows whose insert failed; reads are exact once startup ended, and it ends; supply, member list and tops
served are those of the slot they name (the supply up to closes in a gap that the snapshot
lacks, the residual of `supply/mod.rs:95`); accepted demand is recorded, the index cap
holds, the trim stops at its target, and a wanted index waits for ever only behind
patterns that are refused or cannot be built; the `mints` table is
complete through its slot and the cache exact; a processed answer is one state of the
chain; every other answer of the API is the state of the chain at the slot it names.

Bounds. A gap needs three blocks, a skipped slot next to it a fourth slot; bound 1 makes
the queue full after one notification, so back-pressure and pause meet. One key is enough
where keys interact only through a per-key merge (store, startup, supply, mints); tops
need three accounts to forget one. Three slots allow create, move or close and
re-create; four with windows of two make windows overlap a failed drain; five leave two
blocks after an anchor, a flip and a gap. The API's cache of four one-byte accounts, an
entry of more than one being pinned, makes entries evict each other for their size and
for the pinned bytes, lets two pinned ones coexist, and with a third account an entry
that lacks a row is pinned or not. A cap of one (whose fill target rounds to none) makes
the second pattern wait for the trim. Slots are bounded, so most behaviours end and deadlock
is not checked; in `SelfHealing` and `SlotFinalizer` it is, and the models stop nowhere.

Fairness. `healing_liveness`: weak fairness of the worker, of the main loop's own steps
and of `fill_gaps`, tokio tasks that are polled when they can proceed and whose awaits
have timeouts; nothing is assumed of the stream or startup, and of the cluster only what
`ServiceResumes` says: from some point on, no pair it offers leaves a gap slot out. Base 2
of the run leaves slot 2 out, and without the assumption TLC finds the node paused for
ever, as `self_healing.rs:341` says it stays until an operator intervenes. `store`: of the
drainer, and `BacklogDrains` asks only for statements that succeed (after a failure it
waits for the next finalized slot by design). `startup`: of each task, and that blocks
arrive. `query_tracker`: of the client's flush, the handlers and the two loops; failures
and timeouts are bounded by a budget. `mint_cache`: of the writes, the load, the feed and
the reload task; failed queries are bounded by the scene.

Symmetry is used for the two clients of `api_serving` only, where no liveness is checked.

### Deviations the model shows

`filtered_reads` ends in a violation and is listed as a finding: the filters of a
program query apply to each version before the newest one is picked, so an account whose
newest version left the filter, or closed (a mask has no data), is returned in its older
state until cleanup deletes that.

The following are reproduced by a configuration or scene kept here and excluded from the
passing runs as stated.

| Where | What happens | Reproduce |
|---|---|---|
| `self_healing.rs:227` | `fill_gaps` clones an empty list, a gap is found and finalization paused, the round's `resume` lifts the pause; line 86 says it lasts "until the gap is filled" | `PausedUntilFilled.cfg` |
| `health.rs:68` | health rows are written outside of the lock and may land in the wrong order | `HealthyOnlyWithoutReasons.cfg` |
| `self_healing.rs:218` | a gap cloned without its boundary is repaired and the boundary left | `BoundariesSeeded.cfg` |
| `cleanup/pending.rs:108` | an account created in a lost slot and closed by a live block before the repair: the close is dropped, the repaired row stays | `RepairedCloses.cfg` |
| `save_block.rs:266` | a chunk of rows that fails or times out is not tried again and the block is confirmed without it; the cleanup then deletes the older versions too, and the account is gone until its next write | `WithFaults` of `MCAccountStore` (`unsaved`) |
| `getAccountInfo.sql:57` | in an owner move the mask and the new row have the same slot and the query breaks no tie | `AccountReads.cfg` |
| `cleanup/drain.rs:14` | the drainer deletes versions below the finalized slot while the API still reads at an earlier one | `ApiReads.cfg` |
| `api/src/http/streaming.rs` | `valueCmp` leaves the first batch empty and the body starts with a comma | `StreamedBody.cfg` |
| `api/src/http/server.rs:252` | a body cut by the deadline ends without an error | `DeadlineScenes`, `CutBodiesAbort` |
| `api/src/modules/cache/mod.rs:651` | a newer entry installed between the choice of the slot and the lookup answers with newer bytes, or lacks a row | `RacedScenes`, `OvertakenScenes` |
| `get_token_accounts_by_owner.rs:66` | a `{mint}` filter reads the mint at an earlier slot than the accounts | `MintFirstScenes` |
| `simulate_transaction.rs:310` | the feature set is cached for two minutes across slots | `FeatureScenes` |
| `save_block.rs:296` | a confirmed slot is visible before its blockhash row: a simulation there misses it | `TipScenes` |
| `save_block.rs:208`, `finalize_slot.rs:431` | a block that closes an account the load has not reached, finalized only after the load: the row comes back until its cleanup; and a pair newer than the finalized slot: reads at that slot miss what the pair superseded | `PausedModes` of `MCStartup` |
| `save_block.rs:140` | an account that leaves the indexed programs before the load reaches its file is not remembered | `LeavingModes` of `MCStartup` |
| `core/src/modules/account_owner_map.rs:101` | the map keeps the slot of the first write while the owner stays the same, so a version of the pair read late replaces what a block wrote since; line 100 says that an older slot does not overwrite a more recent one. A later move to the owner now in the map is none to it: the row under the other program stays readable | `NewerOwnerKept` with `ReturningModes` of `MCStartup` |
| `supply/tracker.rs:240` | an owner change in a block whose save straddles both flips; a startup write that fails after its flip; a stake account created or closed in a gap; a block of the gaps list that comes late while another one is repaired: both trackers drop it as a repeat, and it is never counted | `V1` to `V5` of `MCSupply` |
| `largest_accounts/tracker.rs:589` | a full reservoir shrinks without raising the floor; a save straddles the flip; outcomes persisted out of order | `V1` to `V3` of `MCLargestAccounts` |
| `largest_accounts/tracker.rs:810` | a lockup ends in a live block before the lost write of its account is repaired: the synthetic update has the newer slot and the old balance, and outranks the repaired write | `V4` of `MCLargestAccounts` |
| `largest_accounts/tracker.rs:697` | an account that changes its mint in one block during startup: the flip puts the old mint's entry back from the snapshot and `member_index` points to it | `V5` of `MCLargestAccounts` |
| `largest_accounts/tracker.rs:613` | a close in a gap that the snapshot does not carry: the account stays in its tops (for the supply this is the residual stated with `SupplyExact`) | `V6` of `MCLargestAccounts` |
| `query-tracker/src/modules/eviction.rs:182` | the trim drops an index whose demand came back after its list was read; line 37 says that a still-demanded index is never trimmed | `OnlyIdleTrimmed` with `Reviving` of `MCQueryTracker` |
| `query-tracker/src/modules/creation.rs:57` | candidates of refused programs fill the fetch, which is cut before they are filtered out, and the best candidate is tried first although it always fails: allowed ones behind them wait for ever | `NothingStarves` with `Waiting` of `MCQueryTracker` |
| `mint_cache/indexer.rs:193` | a write that starts between the two locks of `finish_bootstrap`; a mint created again as immutable; a state that returns; a late block off the gaps list before its mints are applied | `RaceScenes`, `FixedScenes`, `RecurScenes`, `LateScenes` of `MCMintCache` |
| `api/src/methods/processed.rs:215` | cleanup deletes the anchor's versions while the request reads | `CleanupScenes` of `MCProcessed` |
| `core/src/modules/grpc.rs:66` | the give-up window closes although the stream delivered no block | `WindowScenes`, `WindowClearedByBlock` |

To reproduce a scene or set of scenes, give it to `Scenes` (or `Modes`) in the run's configuration and
check the property of the same run, or the one named.

Seen in the models without a run: without the owner map a move between programs leaves
the row under the old program readable, and no mask or cleanup is routed to it
(`src/README.md:842` speaks of improved correctness with the map); a finalized notification for a lost block finalizes
an empty entry; a late block that empties the gaps list leaves the supply tracker in
`GapFilling`, because the early resume path calls no `finish_gap`; `Started` may overwrite
`Finished` if the load ends within two statements; demand of a timed-out flush is counted
twice, and what is re-buffered may exceed the buffer's limit; a crash in the middle of a
trim leaves the node unhealthy, and the end of a trim reports it healthy whatever other
reasons there are.

Simplifications no property depends on: the stream of `SelfHealing` repeats no block
after a reconnect (`grpc.rs:157` subscribes from the slot after the last one; repeats
reach the trackers in `Supply`), and `RefreshSupply` updates all rows in one step where
the pass updates row by row.

## Proofs

All for every set of slots, keys, programs, patterns, chain, feed, set of snapshots,
configuration and bound, from the named assumptions of the modules (slots are a finite
set of positive numbers, the bound is positive, a recorded parent is below its block,
live and repaired blocks are in the feed, the words for updates that are no program are
no program's name, the account `Startup` adds to the cache is no key, caps and costs are
numbers, patterns are a finite set, a slot and a
hash name one block and the finalized block of a slot is the one with hash 0). Each
invariant below was first checked by
TLC as an invariant of the run of its component.

- `SlotFinalizerProofs`: types; `NoLostWork`; `NoLostSpace`; `TipNeverRegresses`.
  `NoLostWork` and `NoLostSpace` are inductive together with the types. The worker leaves
  `check` for `wait` only when paused or empty, and every step that ends this stores a
  permit; a blocked producer saw a full queue, and only the pop and the walk of the worker
  make room, after which it always reaches `notify_one`. The cardinality argument is the
  lemma `PendingGrows`.
- `SelfHealingProofs`: `HealingInv` (types, what the control states know of the slots they
  carry, retries below the limit) is inductive. From it every step of the composition is a
  step of the finalizer or leaves it alone, hence `UsesFinalizer: Spec => FinalizerSpec` and
  the finalizer's theorems hold in the indexer. `NotHealthyDuringStartup` needs that no
  healthy write is in flight while the reason is active (`StartupInv`).
  For `NoGapIsMissed` and `GapsAreReallyMissing` the invariant `GapInv`
  speaks of the newest block looked at, which is ahead of `last_slot_received` while
  `check_slot_gap` is between its locks; the case of skipped slots rests on
  `NothingBelowParent` (no block lies between a block and its parent).
  For `NothingLeftBehind` the invariant `LeftInv` says who will take each
  recorded block along. A live block is the last received, is queued or a boundary, or the
  block that builds on it is recorded live or about to be (`AllFollowed`); a repaired block is
  queued or about to be; no block with a live entry has been finalized; a block that arrives
  in order is newer than everything recorded or on its way, so the walk cannot have passed it
  already. Once all is quiet, the greatest live block below a finalized one would have a live
  child in between. As in the property, no block came late: a late block may be overwritten by
  its repaired copy, or arrive after its child was finalized.
- `AccountStoreProofs`: types, and `ProgramReadsCorrect`: program reads match the chain at
  the confirmed and at the finalized slot. The property speaks of the tables only, so its
  invariant, `ReadsInv`, has to say how the tables came about. In layers: types; the order
  of the slots the tasks work on (`SlotInv`); rows, masks, queued items and moves agree with
  the chain's history, and a cutoff is never above a touch that follows it (`HistoryInv`);
  the drain deletes the snapshot table first and holds items only while it drains
  (`DrainInv`); the newest version of an account is in a table or on its way there
  (`CurrentInv`); the owner map is the chain's owner, up to what the saves have yet to write
  (`MapInv`); an account that left a program has a mask in it that outlives every older row
  (`MaskInv`). The last one is what makes a read at any moment of a drain right. The
  property is stated for deployments that lose nothing: no lost block, no failed insert of
  masks or rows, and moves between indexed programs only with the owner map, without which the indexer does
  not see them (`src/README.md:842`). Saves, finalizations, deletes and failed deletes come
  in any order.
- `AccountDrainProofs`: `DrainedTablesExact`: a drained store has no mask, no superseded row,
  and one row per account of the chain, save where the insert of the newest version failed
  (`unsaved`): `CurrentInv` has each current version in a table or among these. On top of `ReadsInv`: a superseded row or a mask is covered by an item
  that is queued or in flight, or its block is still to be finalized and carries the key
  (`LeftoversQueued`, `BlockCarriesTouched`), and the item has the owner the row is under
  (`LeftoversRouted`, `MasksRouted`). Here deletes and inserts of masks and rows may fail; with the owner
  map no block may be lost, without it no account may move.
- `ApiServingProofs`: `SnapshotsServed`, the refinement of `SnapshotReads` by `ApiServing`.
  Each handler is shown to be a step of the abstract specification or a stutter: an arrival
  is `Ask`, an answer whose value is the chain's state at its slot is `Answer`, an error, a
  cut or malformed body is `Fail`, the indexer and the synchronizer are `Advance`. The
  invariant, `ServingInv`, says of every entry, installed or in a job, that it holds all
  accounts its query lists at its slot, as bytes nothing but their newest version can change,
  and that the view has reached that slot (`CacheInv`); and of every streaming request that
  what it sent is key by key the account at the request's slot, whether the bytes came from
  a row or from the entry (`Sending`). `RowSent` is the core: a row reported as cached has
  the same version in the entry. The hypothesis `Exact` excludes the deviations listed
  above: accounts that leave a data filter or close under it, a mint of a
  `{mint}` filter that changes, feature changes and simulations above the finalized slot,
  and accounts written again after the entry was looked up late. All nine scenes of
  `api_serving` satisfy it. Batches, permits, faults, deadlines and the cache's limits are
  free, and so is every write the hypothesis does not name.
- `QueryTrackerProofs`: types; `IndexCapHeld`, because only the creation loop adds indexes
  and it has room for one more from the count to the build (`CapInv`); `TrimKeepsTarget`,
  because the number the trim counts down from is never above the indexes there are, plus
  the one just dropped (`TrimInv`); `DemandNeverLost`, because at most one request is posted
  and what it has yet to apply is no more than the chunk the client would send again
  (`DemandInv`); `PairFollowsStatus`, because while no statement failed an index exists
  exactly when its pattern is created and its drop has not reached it, or it was built and
  is not marked yet, and the drop list holds each created pattern at most once (`PairInv`).
- `ProcessedProofs`: `PublishesAChain` and `PublishesWhenLinked` (of `PublishedIsAChain` and
  `ServesWhenLinked`), `ProcessedAnswersExact` (of `ProcessedExact`). A walk from a head to
  its parents holds at most one block per slot; what is published is the part above the
  anchor of a walk through the confirmed block, and has no gap above its lowest block. A
  request that found its account in no block it holds reads Postgres at the anchor, and
  since the walk below its lowest block is finalized, that row is the account's value
  (`StoreInv`, `RequestInv`). `ProcessedAnswersExact` has the hypothesis `NoCleanup`: that
  the versions the anchor needs are still there is the deviation at `processed.rs:215`.
- `StartupProofs`: `StartupReadsExact` (of `ReadsExactOnceStarted`): once the `Startup`
  reason is gone, program reads match the chain although the tables were filled by two
  writers that did not wait for each other. The invariant, `StartInv`, rests on three
  facts. The pair is of one slot of the stream: at every step of the load, what is left in
  the files, what is counted as inserted and the rows left by the deduplication are the
  chain at that slot, and every block below it was saved while the load read (`PairOf`).
  A block saved without writing its masks leaves its keys in its record, then in the
  startup cache, then in the one-shot, which deletes all the pair holds of them below its
  cutoff (`EarlyHandled`), or in the cleanup queue (`Queued`). So a row that ended under its
  program, whether the stream wrote it or the load brought it, has a younger mask, one on
  the way, or its delete is (`StreamRowsHandled`, `PairRowsHandled`); a row the chain is
  still at is never deleted (`StreamRowsKept`, and `PairOf` for the pair). With the owner
  map the masks go where its entries point, and these are the chain's although files and
  blocks reach it in any order (`StartMap`). The theorem has the hypothesis `Ordinary`: no
  insert of masks or rows fails, without the owner map accounts are of one program, with a load no
  gap pauses finalization through it, and with the map too no account leaves the indexed
  programs before the load reached its file or was in two of them before the stream. The
  last three are the deviations `PausedModes`, `LeavingModes` and `ReturningModes` of
  `MCStartup`; every deployment of the startup run is ordinary. Nothing bounds the blocks
  saved or finalized while the load runs, and the one-shot's deletes may fail.

Only model-checked, and why:

- every liveness property (out of the prover's reach), among them `BacklogDrains`,
  `ServiceResumes`, `StartupEnds`, `DemandArrives`, `WantedIsBuilt`;
- the properties of `Supply` and `CacheAccounted`, which are about sums over sets, and
  those of `LargestAccounts`, which are about tops defined by folds: they need induction
  over data;
- the mint cache (`TableComplete`, `CacheExact`), not attempted.

## Not modelled, and what is left

- `epoch_stakes.rs` and `vote_accounts_cache.rs`: one writer that replaces a table, one
  reader that copies it on a timer.
- Hash checks: sums over 2048-byte vectors of account data.
- The SVM run of a simulation, encodings, parsing beyond the refusals it causes,
  `getVersion`, `getGenesisHash`, bandwidth counters.
- Download and unpacking of snapshots, file formats, configuration, metrics, migrations,
  tools and tests.
- Cleanup under a running API request: `ApiServing` and `Processed` assume that a version a
  request needs is there when its statement runs (the deviations show what happens else).

Next: the mint cache.
