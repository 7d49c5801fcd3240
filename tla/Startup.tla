------------------------------ MODULE Startup ------------------------------
(***************************************************************************)
(* The start of an indexer: the first block spawns the load of a snapshot  *)
(* pair (modules/snapshot.rs, crates/snapshot), blocks are saved and       *)
(* finalized while it runs, and the accounts they touched are deleted from *)
(* snapshot_accounts once it is over (UpdatedAccountsDuringStartup), after *)
(* which the Startup reason goes and the node serves reads.  The tables,   *)
(* the owner map, save_block and the drainer are those of AccountStore.    *)
(*                                                                         *)
(* Slot 0 of the history stands for the past.  The account files of the    *)
(* pair are its slots; a version that a later slot of the pair supersedes  *)
(* may be gone from them.  A load that fails panics and ends the process   *)
(* (panic_handler.rs), and the trackers seeded by the load are in Supply,  *)
(* LargestAccounts and MintCache: both are left out, as are lost blocks.   *)
(***************************************************************************)
EXTENDS AccountStore

VARIABLES snapState,   \* snapshot_processing_state
          main,        \* what the main loop does with the block `head'
          loader,      \* control state of the spawned load
          unread,      \* account files not opened yet: [key, slot]
          scanned,     \* accounts of opened files whose rows are not inserted yet
          versions,    \* temp_snapshot_account_versions: [key, slot, owner]
          cache,       \* UpdatedAccountsDuringStartup::accounts
          fin,         \* slot finalize_slot is at work on, 0 when none
          oneShot,     \* the one-shot cleanup: its control state, keys and cutoff
          starting,    \* the Startup reason is active
          unmasked,    \* history: slots saved without writing their masks
          early        \* history: those saved before the last file was read

loadVars == <<snapState, main, loader, unread, scanned, versions>>
cacheVars == <<cache, fin, oneShot, starting, unmasked, early>>

startupVars == <<vars, loadVars, cacheVars>>

\* A deployment with a snapshot section or without; the state of an account before
\* the first slot, and the slots before the first block of the stream (`quiet');
\* whether the system program is indexed; whether blocks touch other accounts too
\* (`busy'); whether an account may move to a program that is not indexed before
\* the load reached its file (`leaves'), or was in more than one indexed program
\* before the stream (`returns'); and whether a block saved while files were left to
\* read is finalized before the load ends (`prompt': the load goes on for minutes
\* after its last file, a block is finalized within seconds unless a gap pauses
\* finalization).  "elsewhere" is any account besides Keys.
ASSUME StartupAssumption ==
  /\ "elsewhere" \notin Keys
  /\ \A m \in Modes :
       /\ {m.load, m.system, m.busy, m.leaves, m.returns, m.prompt} \subseteq BOOLEAN
       /\ m.before \subseteq AllUpdates
       /\ m.quiet \in 0..m.slots

System == "system"   \* owner of an account closed on the chain

\* The history before the stream, empty for a node that loads none of it.
Past ==
  IF ~mode.load THEN {[s \in 0..mode.quiet |-> NoUpdate]}
  ELSE {past \in [0..mode.quiet -> [Keys -> mode.before \cup mode.updates]] :
          /\ past[0] \in [Keys -> mode.before]
          /\ \A s \in 1..mode.quiet : past[s] \in Blocks
          /\ mode.returns \/ \A k \in Keys, s, t \in 0..mode.quiet :
               {past[s][k], past[t][k]} \subseteq Owners => past[s][k] = past[t][k]}

StartupInit ==
  /\ mode \in Modes
  /\ head = mode.quiet
  /\ \E past \in Past :
       update = [s \in 0..MaxSlot |-> IF s <= mode.quiet THEN past[s] ELSE NoUpdate]
  /\ CleanupInit({})
  /\ owners = [k \in Keys |-> NoEntry]
  /\ missed = {} /\ lastSlot = 0 /\ changed = {}
  /\ blocks = [s \in Slots |-> NoBlock]
  /\ saver = [t \in {"main", "fill"} |-> Idle]
  /\ confirmed = 0 /\ finalTip = 0 /\ apiTip = 0 /\ unsaved = {}
  /\ snapState = "NotStarted" /\ main = "wait" /\ loader = "none"
  /\ unread = {} /\ scanned = {} /\ versions = {}
  /\ cache = {} /\ fin = 0 /\ starting = TRUE /\ unmasked = {} /\ early = {}
  /\ oneShot = [at |-> "none", keys |-> {}, cutoff |-> 0]

IsStartup == snapState \in {"NotStarted", "Started"}

----------------------------------------------------------------------------
(* The main loop                                                           *)

\* Updates a block may carry now, see `leaves'.
Carries ==
  [Keys -> IF mode.leaves \/ loader \notin {"none", "download", "files"}
             THEN mode.updates ELSE mode.updates \ {"other"}]

\* process_snapshot_if_needed of the next block: the first one spawns the load, or
\* without a snapshot section ends startup at once.
ProcessSnapshotIfNeeded(block) ==
  /\ main = "wait" /\ ~saver["main"].busy
  /\ head < mode.slots
  /\ head' = head + 1 /\ lastSlot' = head'
  /\ update' = [update EXCEPT ![head'] = block]
  /\ IF snapState # "NotStarted"
       THEN main' = "save" /\ UNCHANGED <<snapState, loader, starting>>
     ELSE IF mode.load
       THEN main' = "mark" /\ loader' = "download" /\ UNCHANGED <<snapState, starting>>
     ELSE \* finish_startup_without_snapshot
          /\ main' = "save" /\ snapState' = "FinishedAndCleanedUp" /\ starting' = FALSE
          /\ UNCHANGED loader
  /\ UNCHANGED <<mode, cleanupVars, missed, owners, changed, blocks, saver, confirmed,
                 finalTip, apiTip, unsaved, unread, scanned, versions, cache, fin, oneShot, unmasked, early>>

\* The state becomes Started after the task was spawned, whatever it is by then.
MarkStarted ==
  /\ main = "mark"
  /\ snapState' = "Started"
  /\ main' = "save"
  /\ UNCHANGED <<vars, loader, unread, scanned, versions, cacheVars>>

\* save_block delays the masks of a block until the snapshot is processed.
MaskWork == IF IsStartup THEN {"rows"} ELSE AllWork

SaveBlock ==
  /\ main = "save"
  /\ SaveStart("main", head, update[head], MaskWork)
  /\ unmasked' = IF MaskWork = AllWork THEN unmasked ELSE unmasked \cup {head}
  /\ early' = IF unread # {} \/ loader = "download" THEN early \cup {head} ELSE early
  /\ main' = "wait"
  /\ UNCHANGED <<mode, cleanupVars, update, head, missed, lastSlot, confirmed, finalTip,
                 apiTip, unsaved, snapState, loader, unread, scanned, versions, cache, fin,
                 oneShot, starting>>

SaveWrites ==
  /\ SaveMasks("main") \/ SaveRows("main") \/ SaveConfirm("main")
  /\ UNCHANGED <<loadVars, cacheVars>>

----------------------------------------------------------------------------
(* The load                                                                *)

\* The versions a pair whose newest slot is s may hold: the newest of each account,
\* but a closed account without older versions may be gone.
PairVersions(s) ==
  LET written == {v \in [key : Keys, slot : 0..s] : update[v.slot][v.key] # "none"}
      newest == {v \in written : \A w \in written : w.key = v.key => w.slot <= v.slot}
  IN  {vs \in SUBSET written : \A v \in newest :
         \/ v \in vs
         \/ update[v.slot][v.key] = "closed" /\ \A w \in vs : w.key # v.key}

\* get_snapshot_data waits for a pair that covers the first block; its files are
\* downloaded and unpacked.
Suitable(s) == s \in (mode.quiet + 1)..head

Download ==
  /\ loader = "download"
  /\ \E s \in Slots : Suitable(s) /\ unread' \in PairVersions(s)
  /\ loader' = "files"
  /\ UNCHANGED <<vars, snapState, main, scanned, versions, cacheVars>>

\* The owner map after upsert_account of one loaded account.
SeedOwner(k, o, s) ==
  IF ~mode.map \/ o \notin Owners \/ (Known(k) /\ ~OwnerMoved(k, o, s)) THEN owners
  ELSE [owners EXCEPT ![k] = [owner |-> o, slot |-> s]]

\* A worker reads an account of its file: open ones of indexed programs go into
\* the owner map.
ReadAccount(v) ==
  LET o == update[v.slot][v.key]
  IN  /\ loader = "files" /\ v \in unread
      /\ unread' = unread \ {v}
      /\ scanned' = scanned \cup {v}
      /\ owners' = SeedOwner(v.key, o, v.slot)
      /\ changed' = IF o \in Owners /\ OwnerMoved(v.key, o, v.slot)
                      THEN changed \cup {[slot |-> v.slot, key |-> v.key,
                                          owner |-> owners[v.key].owner]}
                      ELSE changed
      /\ UNCHANGED <<mode, cleanupVars, update, head, missed, lastSlot, blocks, saver,
                     confirmed, finalTip, apiTip, unsaved, snapState, main, loader, versions, cacheVars>>

\* The row of a loaded version: none under a program that is not indexed.  Closed
\* accounts belong to the system program, indexed or not.
LoadedRow(v) ==
  LET o == update[v.slot][v.key]
  IN  CASE o \in Owners -> {[key |-> v.key, owner |-> o, slot |-> v.slot, open |-> TRUE]}
        [] o = "closed" /\ mode.system ->
             {[key |-> v.key, owner |-> System, slot |-> v.slot, open |-> FALSE]}
        [] OTHER -> {}

LoadedVersion(v) == [key |-> v.key, slot |-> v.slot, owner |-> update[v.slot][v.key]]

\* The rows of the worker's chunks, and every version, indexed or not.
InsertAccount(v) ==
  /\ loader = "files" /\ v \in scanned
  /\ scanned' = scanned \ {v}
  /\ snapshot' = snapshot \cup LoadedRow(v)
  /\ versions' = versions \cup {LoadedVersion(v)}
  /\ UNCHANGED <<mode, accounts, queue, highWater, sinceDrain, lastDrain, wake, drainer,
                 taken, storeVars, snapState, main, loader, unread, cacheVars>>

\* accounts_to_delete: the versions that a newer one of the pair supersedes.
Superseded == {t \in versions : \E n \in versions : n.key = t.key /\ n.slot > t.slot}

CleanUpDuplicatedAccounts ==
  /\ loader = "files" /\ unread = {} /\ scanned = {}
  /\ snapshot' = {r \in snapshot : ~ \E t \in Superseded :
                    t.key = r.key /\ t.slot = r.slot
                    /\ r.owner = IF t.owner = "closed" THEN System ELSE t.owner}
  /\ loader' = "closed"
  /\ UNCHANGED <<mode, accounts, queue, highWater, sinceDrain, lastDrain, wake, drainer,
                 taken, storeVars, snapState, main, unread, scanned, versions, cacheVars>>

CleanUpClosedAccounts ==
  /\ loader = "closed"
  /\ snapshot' = {r \in snapshot : r.open}
  /\ loader' = "flip"
  /\ UNCHANGED <<mode, accounts, queue, highWater, sinceDrain, lastDrain, wake, drainer,
                 taken, storeVars, snapState, main, unread, scanned, versions, cacheVars>>

\* The load returned: the state becomes Finished.
LoadFinished ==
  /\ loader = "flip"
  /\ mode.prompt => \A s \in early : blocks[s] = NoBlock
  /\ snapState' = "Finished"
  /\ loader' = "done"
  /\ UNCHANGED <<vars, main, unread, scanned, versions, cacheVars>>

Loader ==
  \/ Download
  \/ \E v \in unread : ReadAccount(v)
  \/ \E v \in scanned : InsertAccount(v)
  \/ CleanUpDuplicatedAccounts
  \/ CleanUpClosedAccounts
  \/ LoadFinished

----------------------------------------------------------------------------
(* finalize_slot and the one-shot cleanup                                  *)

\* cleanup_stored_accounts_once: after startup the cached accounts, if any, are
\* handed to a task of their own.
CleanupDueCleaned == snapState = "FinishedAndCleanedUp" /\ cache # {}

CleanupDue == ~IsStartup /\ cache # {}

CleanupStoredAccountsOnce(s) ==
  IF CleanupDue
    THEN /\ oneShot' = [at |-> "run", keys |-> cache, cutoff |-> s]
         /\ cache' = {}
    ELSE UNCHANGED <<oneShot, cache>>

\* The first part of finalize_slot: the Finalized row, then the one-shot.
FinalizeRow(s) ==
  /\ fin = 0
  /\ blocks[s].saved
  /\ \A r \in Slots : r < s => blocks[r] = NoBlock
  /\ fin' = s
  /\ finalTip' = s
  /\ CleanupStoredAccountsOnce(s)
  /\ UNCHANGED <<mode, cleanupVars, update, head, missed, lastSlot, owners, changed, blocks,
                 saver, confirmed, apiTip, unsaved, loadVars, starting, unmasked, early>>

\* The accounts of a block besides Keys, whose rows are of no interest here.
OtherKeys == IF mode.busy THEN {"elsewhere"} ELSE {}

\* What a slot finalized during startup adds to the cache: its keys, and every
\* close, known to the owner map or not.
CacheKeysRouted(s) == {i.key : i \in KeysForSlot(s)} \cup OtherKeys

CacheKeys(s) == {i.key : i \in KeysForSlot(s)} \cup blocks[s].closed \cup OtherKeys

\* The rest: the state is read once more, then the keys are queued.
FinalizeKeys ==
  /\ fin # 0
  /\ cache' = IF IsStartup THEN cache \cup CacheKeys(fin) ELSE cache
  /\ queue' = MergeByMax(queue \cup KeysForSlot(fin))
  /\ blocks' = [blocks EXCEPT ![fin] = NoBlock]
  /\ fin' = 0
  /\ UNCHANGED <<mode, accounts, snapshot, highWater, sinceDrain, lastDrain, wake, drainer,
                 taken, update, head, missed, lastSlot, owners, changed, saver, confirmed,
                 finalTip, apiTip, unsaved, loadVars, oneShot, starting, unmasked, early>>

\* delete_below_uniform_cutoff, for some of the keys when a chunk fails; only when
\* every chunk ran startup is complete.
BelowUniformCutoff(keys, cutoff) ==
  {r \in snapshot : r.key \in keys => r.slot >= cutoff}

OneShot ==
  /\ oneShot.at = "run"
  /\ \/ /\ snapshot' = BelowUniformCutoff(oneShot.keys, oneShot.cutoff)
        /\ oneShot' = [oneShot EXCEPT !.at = "done"]
        /\ snapState' = "FinishedAndCleanedUp"
        /\ starting' = FALSE
     \/ /\ mode.deleteFails
        /\ \E ran \in SUBSET oneShot.keys :
             ran # oneShot.keys /\ snapshot' = BelowUniformCutoff(ran, oneShot.cutoff)
        /\ oneShot' = [oneShot EXCEPT !.at = "failed"]
        /\ UNCHANGED <<snapState, starting>>
  /\ UNCHANGED <<mode, accounts, queue, highWater, sinceDrain, lastDrain, wake, drainer,
                 taken, storeVars, main, loader, unread, scanned, versions, cache, fin,
                 unmasked, early>>

\* A drain of the queue, in one step: its wakes, windows and failures and the
\* order of its tables are those of Cleanup, checked in AccountStore.  During
\* startup it leaves snapshot_accounts alone.
StartupDrain ==
  /\ queue # {}
  /\ snapshot' = IF IsStartup THEN snapshot ELSE DeleteBelow(snapshot, queue)
  /\ accounts' = DeleteBelow(accounts, queue)
  /\ queue' = {}
  /\ UNCHANGED <<mode, highWater, sinceDrain, lastDrain, wake, drainer, taken, storeVars,
                 loadVars, cacheVars>>

----------------------------------------------------------------------------

MainLoop ==
  \/ \E b \in Carries : ProcessSnapshotIfNeeded(b)
  \/ MarkStarted
  \/ SaveBlock
  \/ SaveWrites

Finalizer == (\E s \in Slots : FinalizeRow(s)) \/ FinalizeKeys

StartupNext == MainLoop \/ Loader \/ Finalizer \/ OneShot \/ StartupDrain

\* Each task keeps running: blocks arrive, the load and the statements end.
StartupSpec ==
  /\ StartupInit /\ [][StartupNext]_startupVars
  /\ WF_startupVars(MainLoop) /\ WF_startupVars(Loader) /\ WF_startupVars(Finalizer)
  /\ WF_startupVars(OneShot) /\ WF_startupVars(StartupDrain)

----------------------------------------------------------------------------
(* Properties                                                              *)

\* A block saved before the load was over wrote no masks; until its slot is
\* finalized and drained the rows it closed or moved are still visible.
Unsettled(k) ==
  \E s \in unmasked :
    /\ update[s][k] # "none"
    /\ blocks[s] # NoBlock \/ \E i \in queue : i.key = k

\* Once the Startup reason is gone, getProgramAccounts lists a key under exactly
\* the program that owns it on the chain, for every key no unmasked block left
\* unsettled: neither a version of an older file, nor one loaded after its close
\* was saved or finalized, nor one the one-shot took or spared wrongly is read
\* (finalize_slot.rs 425-436, 502-568, save_block.rs 203-215).
ReadsExactOnceStarted ==
  ~starting => \A k \in Keys : ~Unsettled(k) =>
    \A o \in Owners, tip \in {confirmed, finalTip} :
      ProgramRead(k, o, tip) = {OnChain(k, tip) = o}

\* Stated by account_owner_map.rs 100: upsert_account does not overwrite a more recent
\* slot with an older one.  Hence no version of the pair replaces the owner a block
\* saved during the load wrote later.
NewerOwnerKept ==
  [][\A k \in Keys : owners[k] # NoEntry /\ owners'[k] \notin {owners[k], NoEntry} =>
       \A s \in unmasked : update[s][k] \in Owners => s <= owners'[k].slot]_startupVars

\* When the load ended with accounts in the cache, the next finalized slot ends
\* startup, or the one-shot failed and the node stays unhealthy: the Startup
\* reason waits for nothing else (finalize_slot.rs 502-568).  The case that
\* Started overwrites Finished is left out.
StartupEnds ==
  (snapState = "Finished" /\ main # "mark" /\ cache # {} /\ fin = 0 /\ finalTip < mode.slots)
    ~> (~starting \/ oneShot.at = "failed")

=============================================================================
