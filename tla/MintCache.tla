----------------------------- MODULE MintCache -----------------------------
(***************************************************************************)
(* The mint cache: the indexer's copy, built from the snapshot files and   *)
(* the confirmed blocks, the mints table it writes in the background, and  *)
(* the API's copy, loaded from the table and advanced by the blocks of its *)
(* own feed when the slot synchronizer reports them confirmed.             *)
(***************************************************************************)
EXTENDS MintStore, Integers, Sequences

CONSTANTS Keys, MaxSlot, Anchor, Scenes

VARIABLES
    scene,      \* the chain, the configuration and the faults of this run
    ix,         \* indexer.rs Inner
    db,         \* the mints table and environment_info.mints_saved_slot
    jobs,       \* the writes to the table under way
    boot,       \* where finish_bootstrap is
    seeds,      \* snapshot accounts not read yet
    stream,     \* the indexer's main loop and self-healing: next slot, gaps
    notes,      \* slots notifications on their way to the API
    api,        \* api.rs CacheState and the published confirmed slot
    buffer,     \* the feed's blocks
    feed,       \* the next slot of the API's own feed
    reloads,    \* api.rs Reloads
    task,       \* where the API's background task is
    faults      \* failures still allowed

vars == <<scene, ix, db, jobs, boot, seeds, stream, notes, api, buffer, feed,
          reloads, task, faults>>
indexer == <<ix, db, jobs, boot, seeds, stream, notes>>
server == <<api, buffer, feed, reloads, task>>

Slots == 1..MaxSlot
NoWrite == [lamports |-> 1, token |-> FALSE, d |-> 0, ext |-> {}]

(***************************************************************************)
(* The chain.  scene.chain[s][k] is the write of k in slot s, NoWrite if   *)
(* there is none; a skipped slot has no block.                             *)
(***************************************************************************)
HasBlock(s) == s \in Slots \ scene.skipped
ParentOf(s) == Max({0} \cup {t \in 1..(s - 1) : HasBlock(t)})
Changes(k, s) == IF HasBlock(s) THEN Parse(scene.chain[s][k]) ELSE {}

\* The mint as of the end of slot s: NoState when it does not exist.
ChainState(k, s) ==
    LET at == Max({0} \cup {t \in 1..s : Changes(k, t) # {}})
    IN IF at = 0 THEN NoState ELSE (CHOOSE c \in Changes(k, at) : TRUE).state

NewestWrite(k, s) == Max({0} \cup {t \in 1..s : scene.chain[t][k] # NoWrite})

(***************************************************************************)
(* The indexer's copy.                                                     *)
(***************************************************************************)
\* Inner::apply: the store, the closes that wait for their mint while the
\* bootstrap runs, and the keys to write.
ApplyChange(inner, k, slot, change) ==
    IF /\ change = Closed
       /\ inner.bootstrapping
       /\ inner.store[k] = Missing
    THEN [inner EXCEPT !.closedPending[k] = Max({@, slot})]
    ELSE LET entry == Apply(inner.store[k], slot, change)
         IN IF entry = inner.store[k] THEN inner
            ELSE [inner EXCEPT !.store[k] = entry,
                               !.pendingToDb[k] = Max({@, slot})]

\* All the changes of one block.
ApplyChanges(inner, slot, changes) ==
    FoldSet(LAMBDA pair, acc : ApplyChange(acc, pair[1], slot, pair[2]),
            inner, changes)

PendingKeys(inner) == {k \in Keys : inner.pendingToDb[k] # 0}

\* take_pending_rows.
PendingRows(inner) ==
    [k \in PendingKeys(inner) |-> RowOf(inner.store[k], inner.pendingToDb[k])]
TakenPending(inner) == [inner EXCEPT !.pendingToDb = [k \in Keys |-> 0]]

\* Mutant: an open gap does not hold the slot back.
CompleteThroughGap(inner) == inner.last

\* complete_through: never at or past an open gap.
CompleteThrough(inner) ==
    IF inner.lowestGap = 0 THEN inner.last
    ELSE Min({inner.last, inner.lowestGap - 1})

\* start_write_if_needed.
WriteDue(inner) ==
    /\ ~inner.running
    /\ IF inner.lastDb = 0 THEN Cardinality(PendingKeys(inner)) >= scene.chunk
       ELSE CompleteThrough(inner) >= inner.lastDb + scene.interval

StartWriteIfNeeded(inner) ==
    IF WriteDue(inner)
    THEN /\ ix' = [TakenPending(inner) EXCEPT !.running = TRUE]
         /\ jobs' = jobs \cup
                {[rows |-> PendingRows(inner), pc |-> "rows",
                  to |-> IF inner.lastDb = 0 THEN 0
                         ELSE CompleteThrough(inner)]}
    ELSE ix' = inner /\ jobs' = jobs

\* on_snapshot_account, for the accounts of the files in any order.
OnSnapshotAccount(seed) ==
    /\ seed \in seeds
    /\ seeds' = seeds \ {seed}
    /\ StartWriteIfNeeded(
           ApplyChanges([ix EXCEPT !.last = Max({@, seed.slot})], seed.slot,
               {<<seed.key, c>> : c \in Parse(scene.chain[seed.slot][seed.key])}))
    /\ UNCHANGED <<scene, db, boot, stream, notes, server, faults>>

\* on_block, for a confirmed or a repaired block.
OnBlock(s, keys, gap) ==
    StartWriteIfNeeded(
        ApplyChanges([ix EXCEPT !.lowestGap = gap, !.last = Max({@, s})], s,
                     UNION {{<<k, c>> : c \in Changes(k, s)} : k \in keys}))

(***************************************************************************)
(* The background writes: the rows, then mints_saved_slot, then the flag.  *)
(***************************************************************************)
WriteRows(job) ==
    /\ job \in jobs /\ job.pc = "rows"
    /\ db' = [db EXCEPT !.rows = [k \in Keys |->
                 IF k \in DOMAIN job.rows THEN Upsert(@[k], job.rows[k])
                                          ELSE @[k]]]
    /\ jobs' = (jobs \ {job}) \cup {[job EXCEPT !.pc = "saved"]}
    /\ UNCHANGED <<scene, ix, boot, seeds, stream, notes, server, faults>>

WriteLastDbSlot(job) ==
    /\ job \in jobs /\ job.pc = "saved"
    /\ db' = IF job.to = 0 THEN db ELSE [db EXCEPT !.saved = job.to]
    /\ jobs' = (jobs \ {job}) \cup {[job EXCEPT !.pc = "end"]}
    /\ UNCHANGED <<scene, ix, boot, seeds, stream, notes, server, faults>>

WriteEnds(job) ==
    /\ job \in jobs /\ job.pc = "end"
    /\ jobs' = jobs \ {job}
    /\ ix' = [ix EXCEPT !.running = FALSE,
                        !.lastDb = IF job.to = 0 THEN @ ELSE job.to]
    /\ UNCHANGED <<scene, db, boot, seeds, stream, notes, server, faults>>

\* A failed write leaves its keys to the next trigger.
WriteFails(job) ==
    /\ job \in jobs /\ job.pc \in {"rows", "saved"}
    /\ (job.to = 0 => "chunk" \in scene.fails)
    /\ faults > 0 /\ faults' = faults - 1
    /\ jobs' = jobs \ {job}
    /\ ix' = [ix EXCEPT
          !.running = FALSE,
          !.pendingToDb = [k \in Keys |->
              IF k \in DOMAIN job.rows THEN Max({@[k], job.rows[k].slot})
                                       ELSE @[k]]]
    /\ UNCHANGED <<scene, db, boot, seeds, stream, notes, server>>

(***************************************************************************)
(* finish_bootstrap, once the snapshot is loaded.  The wait for a running  *)
(* write and the take of the rows lock the state separately; a write that  *)
(* starts in between is in the scenes with the hazard "race".              *)
(***************************************************************************)
BootWait ==
    /\ boot.pc = "wait" /\ seeds = {} /\ ~ix.running
    /\ boot' = [boot EXCEPT !.pc = "take"]
    /\ UNCHANGED <<scene, ix, db, jobs, seeds, stream, notes, server, faults>>

BootTake ==
    /\ boot.pc = "take"
    /\ ("race" \notin scene.fails => ~ix.running)
    /\ LET waited == {k \in Keys : ix.closedPending[k] # 0}
           closed == FoldSet(LAMBDA k, acc :
                        ApplyChange(acc, k, ix.closedPending[k], Closed),
                        [ix EXCEPT !.bootstrapping = FALSE], waited)
       IN /\ boot' = [pc |-> "rows", rows |-> PendingRows(closed),
                      to |-> CompleteThrough(closed)]
          /\ ix' = [TakenPending(closed) EXCEPT
                       !.running = TRUE, !.closedPending = [k \in Keys |-> 0]]
    /\ UNCHANGED <<scene, db, jobs, seeds, stream, notes, server, faults>>

BootRows ==
    /\ boot.pc = "rows"
    /\ db' = [db EXCEPT !.rows = [k \in Keys |->
                 IF k \in DOMAIN boot.rows THEN Upsert(@[k], boot.rows[k])
                                           ELSE @[k]]]
    /\ boot' = [boot EXCEPT !.pc = "saved"]
    /\ UNCHANGED <<scene, ix, jobs, seeds, stream, notes, server, faults>>

BootSaved ==
    /\ boot.pc = "saved"
    /\ db' = [db EXCEPT !.saved = boot.to]
    /\ boot' = [boot EXCEPT !.pc = "end"]
    /\ UNCHANGED <<scene, ix, jobs, seeds, stream, notes, server, faults>>

BootEnd ==
    /\ boot.pc = "end"
    /\ ix' = [ix EXCEPT !.running = FALSE, !.lastDb = boot.to]
    /\ boot' = [boot EXCEPT !.pc = "done"]
    /\ UNCHANGED <<scene, db, jobs, seeds, stream, notes, server, faults>>

(***************************************************************************)
(* The indexer's main loop and the gap filler, as far as they call the     *)
(* mint cache: check_slot_gap, save_block, the confirmed row.              *)
(***************************************************************************)
\* SelfHealingState::lowest_gap.
LowestGap == IF stream.gaps = {} THEN 0 ELSE Min(stream.gaps)

\* A confirmed block never reaches the indexer.
LoseBlock ==
    /\ stream.saving = 0 /\ stream.late = 0 /\ stream.next \in scene.lost
    /\ stream' = [stream EXCEPT !.next = @ + 1]
    /\ UNCHANGED <<scene, ix, db, jobs, boot, seeds, notes, server, faults>>

\* process_update: the blocks between the parent's chain and the last one
\* received are queued for repair, then save_block hands over the mints.
ReceiveBlock ==
    LET s == stream.next
        gap == {t \in (stream.seen + 1)..(s - 1) : stream.seen # 0 /\ HasBlock(t)}
        gaps == stream.gaps \cup gap
    IN /\ stream.saving = 0 /\ stream.late = 0 /\ s \in Slots /\ HasBlock(s)
       /\ OnBlock(s, Keys, IF gaps = {} THEN 0 ELSE Min(gaps))
       /\ stream' = [stream EXCEPT !.next = s + 1, !.seen = s, !.saving = s,
                                   !.gaps = gaps]
       /\ UNCHANGED <<scene, db, boot, seeds, notes, server, faults>>

\* A block of a gap that arrives after all: check_slot_gap takes it off the
\* list, then save_block hands over its mints.
LateBlock ==
    /\ stream.saving = 0 /\ stream.late = 0
    /\ \E s \in stream.gaps \cap scene.late :
           stream' = [stream EXCEPT !.gaps = @ \ {s}, !.late = s]
    /\ UNCHANGED <<scene, ix, db, jobs, boot, seeds, notes, server, faults>>

SaveLateBlock ==
    /\ stream.late # 0
    /\ OnBlock(stream.late, Keys, LowestGap)
    /\ stream' = [stream EXCEPT !.late = 0]
    /\ UNCHANGED <<scene, db, boot, seeds, notes, server, faults>>

SkipSlot ==
    /\ stream.saving = 0 /\ stream.next \in Slots /\ ~HasBlock(stream.next)
    /\ stream' = [stream EXCEPT !.next = @ + 1]
    /\ UNCHANGED <<scene, ix, db, jobs, boot, seeds, notes, server, faults>>

\* The block's confirmed row, with the health of that moment.
ConfirmBlock ==
    /\ stream.saving # 0
    /\ notes' = Append(notes, [slot |-> stream.saving,
                               health |-> boot.pc = "done" /\ stream.gaps = {}])
    /\ stream' = [stream EXCEPT !.saving = 0]
    /\ UNCHANGED <<scene, ix, db, jobs, boot, seeds, server, faults>>

\* The gap filler's snapshot of slot z: it holds the newest write of each
\* account only.
StartFill ==
    /\ stream.gaps # {} /\ stream.fill = {}
    /\ boot.pc = "done"
    /\ \E z \in Max(stream.gaps)..stream.seen :
           stream' = [stream EXCEPT !.fill = stream.gaps, !.z = z]
    /\ UNCHANGED <<scene, ix, db, jobs, boot, seeds, notes, server, faults>>

RepairBlock ==
    /\ stream.fill # {}
    /\ LET s == Min(stream.fill)
       IN /\ OnBlock(s, {k \in Keys : NewestWrite(k, stream.z) = s}, LowestGap)
          /\ stream' = [stream EXCEPT !.fill = @ \ {s}, !.gaps = @ \ {s}]
    /\ UNCHANGED <<scene, db, boot, seeds, notes, server, faults>>

(***************************************************************************)
(* The API.                                                                *)
(***************************************************************************)
\* MintCacheApi::on_block: the feed brings the block of the chain, possibly
\* one of a fork at the same slot, or misses it.
FeedBlock(hashes) ==
    /\ feed \in Slots /\ HasBlock(feed)
    /\ ("main" \notin hashes => feed \in scene.missed)
    /\ ("fork" \in hashes => feed \in scene.forks)
    /\ buffer' = buffer \cup {[slot |-> feed, hash |-> h] : h \in hashes}
    /\ feed' = feed + 1
    /\ UNCHANGED <<scene, indexer, api, reloads, task, faults>>

FeedSkips ==
    /\ feed \in Slots /\ ~HasBlock(feed)
    /\ feed' = feed + 1
    /\ UNCHANGED <<scene, indexer, api, buffer, reloads, task, faults>>

\* prune_buffer.
Pruned(slot) == {b \in buffer : b.slot > slot}

\* The changes of a buffered block: a fork's close every mint.
BlockChanges(b) ==
    IF b.hash = "main" THEN UNION {{<<k, c>> : c \in Changes(k, b.slot)} : k \in Keys}
    ELSE {<<k, Closed>> : k \in Keys}

\* Mutant: the block of a slot is taken without looking at its hash.
LinkedBySlot(slot) ==
    IF [slot |-> slot, hash |-> "fork"] \in buffer THEN [slot |-> slot, hash |-> "fork"]
    ELSE [slot |-> slot, hash |-> "main"]

\* The block of the walk at a slot: the one whose hash the child names.
Linked(slot) == [slot |-> slot, hash |-> "main"]

\* apply_chain: the blocks from the confirmed one back to the applied one,
\* along the parent links.
ChainSlots(slot) == {t \in (api.applied + 1)..slot : HasBlock(t)}
ChainReaches(slot) ==
    /\ \A t \in ChainSlots(slot) : Linked(t) \in buffer
    /\ ParentOf(Min(ChainSlots(slot))) = api.applied
ChainApplied(slot) ==
    LET after[t \in api.applied..slot] ==
          IF t = api.applied THEN api.store
          ELSE IF HasBlock(t)
          THEN FoldSet(LAMBDA pair, acc :
                  [acc EXCEPT ![pair[1]] = Apply(@, t, pair[2])],
                  after[t - 1], BlockChanges(Linked(t)))
          ELSE after[t - 1]
    IN after[slot]

NoReload == [after |-> 0, target |-> 0]

\* request_reload: a pending one widens to cover both.
Widened(pending, after, target) ==
    IF pending = NoReload THEN [after |-> after, target |-> target]
    ELSE [after |-> Min({pending.after, after}),
          target |-> Max({pending.target, target})]

\* slot_syncronizer.rs run: on_confirmed, then the slot is published.
OnConfirmed ==
    LET note == Head(notes)
        restored == note.health /\ reloads.since # -1
        chained == /\ note.slot > api.applied
                   /\ reloads.pending = NoReload
        missing == chained /\ ~ChainReaches(note.slot)
        requested == IF missing
                     THEN Widened(reloads.pending, api.applied, note.slot)
                     ELSE reloads.pending
    IN /\ notes # <<>>
       /\ notes' = Tail(notes)
       /\ IF note.slot <= api.confirmed
          THEN UNCHANGED <<api, buffer, reloads>>
          ELSE IF api.status = "loading"
          THEN /\ api' = [api EXCEPT !.confirmed = note.slot]
               /\ UNCHANGED <<buffer, reloads>>
          ELSE /\ reloads' =
                    [since |-> IF note.health THEN -1
                               ELSE IF reloads.since = -1 THEN api.applied
                               ELSE reloads.since,
                     pending |-> IF restored
                                 THEN Widened(requested, reloads.since, note.slot)
                                 ELSE requested]
               /\ IF chained /\ ~missing
                  THEN /\ api' = [api EXCEPT !.store = ChainApplied(note.slot),
                                             !.applied = note.slot,
                                             !.confirmed = note.slot]
                       /\ buffer' = Pruned(note.slot)
                  ELSE /\ api' = [api EXCEPT !.confirmed = note.slot]
                       /\ UNCHANGED buffer
       /\ UNCHANGED <<scene, ix, db, jobs, boot, seeds, stream, feed, task, faults>>

\* Mutant: the load waits until the table covers the newest confirmed slot.
LoadSlotCaughtUp ==
    /\ task.pc = "load" /\ db.saved # 0 /\ db.saved >= api.confirmed
    /\ task' = [task EXCEPT !.pc = "pages", !.slot = db.saved, !.after = 0,
                            !.store = [k \in Keys |-> Missing]]
    /\ UNCHANGED <<scene, indexer, api, buffer, feed, reloads, faults>>

\* load: mints_saved_slot first, then the table page by page.
LoadSlot ==
    /\ task.pc = "load" /\ db.saved # 0
    /\ task' = [task EXCEPT !.pc = "pages", !.slot = db.saved, !.after = 0,
                            !.store = [k \in Keys |-> Missing]]
    /\ UNCHANGED <<scene, indexer, api, buffer, feed, reloads, faults>>

LoadPage ==
    LET left == {k \in Keys : k > task.after /\ db.rows[k] # NoRow}
    IN /\ task.pc = "pages" /\ left # {}
       /\ task' = [task EXCEPT
                      !.store[Min(left)] = ApplyRow(@, db.rows[Min(left)]),
                      !.after = Min(left)]
       /\ UNCHANGED <<scene, indexer, api, buffer, feed, reloads, faults>>

GoLive ==
    /\ task.pc = "pages"
    /\ \A k \in Keys : k > task.after => db.rows[k] = NoRow
    /\ IF task.after = 0
       THEN /\ task' = [task EXCEPT !.pc = "load"]
            /\ UNCHANGED <<api, buffer>>
       ELSE /\ api' = [api EXCEPT !.status = "live", !.store = task.store,
                                  !.applied = task.slot]
            /\ buffer' = Pruned(task.slot)
            /\ task' = [task EXCEPT !.pc = "idle", !.store = [k \in Keys |-> Missing]]
    /\ UNCHANGED <<scene, indexer, feed, reloads, faults>>

\* run_reload: once mints_saved_slot covers the target.
ReloadSlot ==
    /\ task.pc = "idle" /\ reloads.pending # NoReload
    /\ db.saved >= reloads.pending.target
    /\ task' = [task EXCEPT !.pc = "rows", !.slot = db.saved,
                            !.request = reloads.pending]
    /\ UNCHANGED <<scene, indexer, api, buffer, feed, reloads, faults>>

\* read_after.
ReloadRows ==
    /\ task.pc = "rows"
    /\ task' = [task EXCEPT !.pc = "apply", !.rows = [k \in Keys |->
          IF db.rows[k].slot > task.request.after THEN db.rows[k] ELSE NoRow]]
    /\ UNCHANGED <<scene, indexer, api, buffer, feed, reloads, faults>>

ReloadApply ==
    LET applied == Max({task.slot, api.applied})
    IN /\ task.pc = "apply"
       /\ api' = [api EXCEPT
              !.store = [k \in Keys |-> ApplyRow(@[k], task.rows[k])],
              !.applied = applied]
       /\ buffer' = Pruned(applied)
       /\ task' = [task EXCEPT !.pc = "clear", !.rows = [k \in Keys |-> NoRow]]
       /\ UNCHANGED <<scene, indexer, feed, reloads, faults>>

\* Mutant: a reload that ran stays pending.
ReloadClearForgets ==
    /\ task.pc = "clear"
    /\ task' = [task EXCEPT !.pc = "idle", !.request = NoReload]
    /\ UNCHANGED <<scene, indexer, api, buffer, feed, reloads, faults>>

\* A request added while this one ran stays pending.
ReloadClear ==
    /\ task.pc = "clear"
    /\ reloads' = [reloads EXCEPT !.pending =
                      IF @ = task.request THEN NoReload ELSE @]
    /\ task' = [task EXCEPT !.pc = "idle", !.request = NoReload]
    /\ UNCHANGED <<scene, indexer, api, buffer, feed, faults>>

\* A failed query: the load starts over, the reload stays pending.
TaskFails ==
    /\ task.pc \in {"pages", "rows"}
    /\ faults > 0 /\ faults' = faults - 1
    /\ task' = [task EXCEPT !.pc = IF @ = "pages" THEN "load" ELSE "idle",
                            !.store = [k \in Keys |-> Missing],
                            !.request = NoReload]
    /\ UNCHANGED <<scene, indexer, api, buffer, feed, reloads>>

\* lookup_one.
LookupOne(k, request) ==
    LET entry == api.store[k]
    IN IF api.status = "loading" THEN [from |-> "loading", state |-> NoState]
       ELSE IF entry.kind = "immutable" THEN [from |-> "found", state |-> entry.state]
       ELSE IF entry.slot > request THEN [from |-> "newer", state |-> NoState]
       ELSE IF api.applied < request THEN [from |-> "behind", state |-> NoState]
       ELSE IF entry.kind = "tombstone" THEN [from |-> "closed", state |-> NoState]
       ELSE IF entry.kind = "mutable" THEN [from |-> "found", state |-> entry.state]
       ELSE [from |-> "missing", state |-> NoState]

-----------------------------------------------------------------------------
Init ==
    /\ scene \in Scenes
    /\ ix = [store |-> [k \in Keys |-> Missing], bootstrapping |-> TRUE,
             closedPending |-> [k \in Keys |-> 0],
             pendingToDb |-> [k \in Keys |-> 0], last |-> 0, lowestGap |-> 0,
             lastDb |-> 0, running |-> FALSE]
    /\ db = [rows |-> [k \in Keys |-> NoRow], saved |-> 0]
    /\ jobs = {}
    /\ boot = [pc |-> "wait", rows |-> << >>, to |-> 0]
    /\ seeds = {q \in [key : Keys, slot : 1..Anchor] :
                   /\ scene.chain[q.slot][q.key] # NoWrite
                   /\ \/ q.slot = 1
                      \/ q.slot = NewestWrite(q.key, Anchor)}
    /\ stream = [next |-> scene.first, seen |-> 0, saving |-> 0, gaps |-> {},
                 late |-> 0, fill |-> {}, z |-> 0]
    /\ notes = <<>>
    /\ api = [status |-> "loading", store |-> [k \in Keys |-> Missing],
              applied |-> 0, confirmed |-> 0]
    /\ buffer = {}
    /\ feed = scene.first
    /\ reloads = [since |-> -1, pending |-> NoReload]
    /\ task = [pc |-> "load", slot |-> 0, after |-> 0, request |-> NoReload,
               store |-> [k \in Keys |-> Missing],
               rows |-> [k \in Keys |-> NoRow]]
    /\ faults = scene.faults

Next ==
    \/ \E seed \in seeds : OnSnapshotAccount(seed)
    \/ \E job \in jobs :
          WriteRows(job) \/ WriteLastDbSlot(job) \/ WriteEnds(job) \/ WriteFails(job)
    \/ BootWait \/ BootTake \/ BootRows \/ BootSaved \/ BootEnd
    \/ LoseBlock \/ ReceiveBlock \/ LateBlock \/ SaveLateBlock
    \/ SkipSlot \/ ConfirmBlock
    \/ StartFill \/ RepairBlock
    \/ \E hashes \in SUBSET {"main", "fork"} : FeedBlock(hashes)
    \/ FeedSkips
    \/ OnConfirmed
    \/ LoadSlot \/ LoadPage \/ GoLive
    \/ ReloadSlot \/ ReloadRows \/ ReloadApply \/ ReloadClear \/ TaskFails

\* The background writes end, the API's task polls every 10 s, the feed and
\* the notifications are delivered; nothing obliges a query to succeed, so
\* the failures are limited by the scene.
Fairness ==
    /\ WF_vars(\E seed \in seeds : OnSnapshotAccount(seed))
    /\ WF_vars(\E job \in jobs : WriteRows(job) \/ WriteLastDbSlot(job) \/ WriteEnds(job))
    /\ WF_vars(BootWait \/ BootTake \/ BootRows \/ BootSaved \/ BootEnd)
    /\ WF_vars(ReceiveBlock \/ LoseBlock \/ SaveLateBlock \/ SkipSlot \/ ConfirmBlock)
    /\ WF_vars(OnConfirmed)
    /\ WF_vars(LoadSlot \/ LoadPage \/ GoLive)
    /\ WF_vars(ReloadSlot \/ ReloadRows \/ ReloadApply \/ ReloadClear)

Spec == Init /\ [][Next]_vars /\ Fairness

-----------------------------------------------------------------------------
(***************************************************************************)
(* What the cache promises.                                                *)
(***************************************************************************)

\* mints is complete through mints_saved_slot (db.rs write_last_db_slot):
\* whatever the order of the snapshot files, the blocks, the repairs and the
\* failed writes, the row of every key is the mint's state on the chain as
\* of that slot, or of the row's own slot when the row is newer.  The API
\* never reloads rows at or below the slot, so a row missing here is served
\* wrong for good.
TableComplete ==
    db.saved # 0 => \A k \in Keys :
        db.rows[k].state = ChainState(k, Max({db.rows[k].slot, db.saved}))

\* lookup_one answers from memory only what the chain held at the request's
\* slot: for every slot that a request can have picked, a mint found in the
\* cache has the state of that slot and a mint reported closed did not exist
\* then, while loads, reloads, missed blocks, forks and repairs go on.  (A
\* mint that was only created later has no token accounts to be read with.)
CacheExact ==
    \A k \in Keys : \A request \in Anchor..api.confirmed :
        LET answer == LookupOne(k, request)
            created == \E t \in 1..request : Changes(k, t) # {}
        IN answer.from \in {"found", "closed"} /\ created
             => answer.state = ChainState(k, request)

\* run_reload: a reload that the table covers is not left pending, and the
\* requests past the applied slot do not read Postgres for ever.
ReloadsRun ==
    []<>(\/ reloads.pending = NoReload
         \/ db.saved < reloads.pending.target)

\* The API leaves the loading state once the bootstrap wrote a mint.
GoesLive ==
    (db.saved # 0 /\ \E k \in Keys : db.rows[k] # NoRow) ~> (api.status = "live")
=============================================================================
