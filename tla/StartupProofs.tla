---------------------------- MODULE StartupProofs ----------------------------
(***************************************************************************)
(* Proof that once a node has reported itself started, getProgramAccounts  *)
(* reads the chain (StartupReadsExact): the rows the snapshot load brought *)
(* agree with the blocks that were saved, and partly finalized, while it   *)
(* ran.                                                                    *)
(*                                                                         *)
(* The inductive invariant, StartInv, is built in layers, each inductive   *)
(* relative to those above it:                                             *)
(*   StartType      types, of the files, the cache and the one-shot too    *)
(*   StartOrder     a slot of the stream is received, saved, finalized     *)
(*   StartPhase     the snapshot state, the load, the main loop, the       *)
(*                  one-shot and the Startup reason go together            *)
(*   StartHistory   rows, files, blocks and queued items stem from the     *)
(*                  chain                                                  *)
(*   StartMap       the owner map, seeded from files and fed by blocks     *)
(*   PairOf         what the load has yet to insert and what it inserted   *)
(*                  are the chain at one slot of the stream                *)
(*   EarlyHandled   what blocks touched while files were read is cached    *)
(*   StreamRowsHandled, PairRowsHandled                                    *)
(*                  a version that ended under its program is masked, or   *)
(*                  its delete is on the way                               *)
(*   StreamRowsKept the current version of a written account is kept       *)
(* `Ordinary' names the deployments the theorem is about.                  *)
(***************************************************************************)
EXTENDS Startup, AccountStoreProofs

USE DEF cleanupVars, storeVars, vars, loadVars, cacheVars

----------------------------------------------------------------------------
(* Types                                                                   *)

\* What the load may hold of the pair, and what the cache may hold.
LoadRow == [key : Keys, owner : Owners \cup {System}, slot : 0..MaxSlot, open : BOOLEAN]
Version == [key : Keys, slot : 0..MaxSlot]
CacheKey == Keys \cup {"elsewhere"}
BlockData == [saved : BOOLEAN, open : SUBSET KeyOwner, closed : SUBSET Keys, pairs : SUBSET KeyOwner]
OneShotType == [at : {"none", "run", "done", "failed"}, keys : SUBSET CacheKey, cutoff : 0..MaxSlot]

\* Types.  Before the load is over snapshot_accounts holds closed rows of the system
\* program, so these are not the types of AccountStore.
StartType ==
  /\ mode \in Modes
  /\ accounts \subseteq Row /\ snapshot \subseteq LoadRow /\ queue \subseteq Item
  /\ update \in [0..MaxSlot -> [Keys -> AllUpdates]]
  /\ head \in 0..MaxSlot /\ confirmed \in 0..MaxSlot /\ finalTip \in 0..MaxSlot
  /\ owners \in [Keys -> Entry]
  /\ changed \subseteq [slot : Slots, key : Keys, owner : Owners]
  /\ blocks \in [Slots -> BlockData]
  /\ saver \in [Tasks -> Saving]
  /\ unread \subseteq Version /\ scanned \subseteq Version
  /\ versions \subseteq [key : Keys, slot : 0..MaxSlot, owner : AllUpdates]
  /\ snapState \in {"NotStarted", "Started", "Finished", "FinishedAndCleanedUp"}
  /\ main \in {"wait", "mark", "save"}
  /\ loader \in {"none", "download", "files", "closed", "flip", "done"}
  /\ cache \subseteq CacheKey /\ fin \in 0..MaxSlot
  /\ oneShot \in OneShotType
  /\ starting \in BOOLEAN /\ unmasked \subseteq Slots /\ early \subseteq Slots

\* The last slot whose block save_block has taken in.
Begun == IF main = "wait" THEN head ELSE head - 1

\* The last slot whose writes are done.
Done == IF main = "wait" /\ ~Busy("main") THEN head ELSE head - 1

\* The slots of the stream come one after the other: received, taken in by save_block,
\* written, finalized; those at work on are the newest one and `fin'.
StartOrder ==
  /\ saver["fill"] = Idle
  /\ Busy("main") \/ saver["main"] = Idle
  /\ mode.quiet <= head /\ head <= mode.slots
  /\ Busy("main") => main = "wait" /\ saver["main"].slot = head
  /\ Busy("main") \/ main # "wait" => mode.quiet < head
  /\ \A s \in Slots : s > head => update[s] = NoUpdate
  /\ finalTip <= confirmed /\ confirmed <= Done
  /\ finalTip # 0 => mode.quiet < finalTip
  /\ \A s \in Slots : blocks[s] # NoBlock => mode.quiet < s /\ s <= Begun
  /\ \A s \in Slots : blocks[s].saved => s <= confirmed
  /\ fin # 0 => fin = finalTip /\ blocks[fin].saved
  /\ \A s \in Slots : s <= finalTip /\ s # fin => blocks[s] = NoBlock
  /\ \A s \in (mode.quiet + 1)..Done : s <= finalTip \/ blocks[s].saved
  /\ Busy("main") => ~blocks[head].saved

\* Facts of the types that the steps below share.
LEMMA StartFacts ==
  ASSUME StartType
  PROVE  /\ Tasks = {"main", "fill"} /\ Slots \subseteq Nat /\ MaxSlot \in Nat
         /\ \A s : s \in Slots <=> s \in Nat /\ 1 <= s /\ s <= MaxSlot
         /\ head \in Nat /\ head <= MaxSlot /\ finalTip \in Nat /\ confirmed \in Nat
         /\ fin \in Nat /\ finalTip <= MaxSlot
         /\ mode.quiet \in Nat /\ mode.slots \in Nat /\ mode.slots <= MaxSlot
         /\ \A k \in Keys : Known(k) => owners[k].owner \in Owners /\ owners[k].owner # NoOwner
         /\ \A k \in Keys : owners[k].slot \in Nat /\ owners[k].slot <= MaxSlot
         /\ \A o \in Owners : o \notin {"none", "other", "closed"} /\ o # NoOwner
         /\ Begun \in Int /\ Done \in Int
<1>1. MaxSlot \in Nat /\ NoOwner \notin Owners /\ Owners \cap {"none", "other", "closed"} = {}
  BY CleanupAssumption, StoreAssumption
<1>2. mode.slots \in 0..MaxSlot /\ mode.quiet \in 0..mode.slots
  BY StoreAssumption, StartupAssumption DEF StartType
<1>3. \A k \in Keys : owners[k] \in Entry
  BY DEF StartType
<1> QED
  BY <1>1, <1>2, <1>3 DEF StartType, Slots, Tasks, Entry, Known, NoEntry, Begun, Done

\* What save_block does in memory.
LEMMA BlockStarted ==
  ASSUME StartType, NEW s \in Slots, NEW block \in [Keys -> AllUpdates], NEW work \in SUBSET AllWork,
         SaveStart("main", s, block, work)
  PROVE  /\ ~Busy("main")
         /\ saver'["main"] = [busy |-> TRUE, slot |-> s, open |-> OpenBy(block),
                              closed |-> ClosedBy(block, s), todo |-> work]
         /\ saver'["fill"] = saver["fill"] /\ saver' \in [Tasks -> Saving]
         /\ blocks'[s] = [saved |-> FALSE, open |-> OpenBy(block), closed |-> ClosedBy(block, s),
                          pairs |-> IF mode.map THEN PairsBy(block, s) ELSE {}]
         /\ blocks' \in [Slots -> BlockData]
         /\ \A u \in Slots : u # s => blocks'[u] = blocks[u]
         /\ owners' = Upsert(block, s) /\ owners' \in [Keys -> Entry]
         /\ changed' = changed \cup ChangedBy(block, s)
         /\ changed' \subseteq [slot : Slots, key : Keys, owner : Owners]
<1> DEFINE map == Upsert(block, s)
           closed == ClosedBy(block, s)
           moved == changed \cup ChangedBy(block, s)
           pairs == PairsBy(block, s)
<1>1. owners \in [Keys -> Entry] /\ saver \in [Tasks -> Saving]
      /\ changed \subseteq [slot : Slots, key : Keys, owner : Owners] /\ blocks \in [Slots -> BlockData]
  BY DEF StartType
<1>2. map \in [Keys -> Entry]
  BY <1>1 DEF Upsert, Entry, Slots
<1>3. closed \subseteq Keys /\ OpenBy(block) \subseteq KeyOwner
  BY DEF ClosedBy, OpenBy, KeyOwner
<1>4. moved \subseteq [slot : Slots, key : Keys, owner : Owners]
  BY <1>1 DEF ChangedBy, OwnerMoved, Known, Entry
<1>5. pairs \subseteq KeyOwner
  <2>1. \A k \in Keys : map[k] # NoEntry => map[k].owner \in Owners
    BY <1>2 DEF Entry
  <2>2. pairs = {[key |-> k, owner |-> map[k].owner] : k \in {c \in closed : map[c] # NoEntry}}
                \cup {[key |-> c.key, owner |-> c.owner] : c \in {d \in moved : d.slot = s}}
    BY DEF PairsBy
  <2> HIDE DEF map, closed, moved, pairs
  <2> QED
    BY <1>3, <1>4, <2>1, <2>2 DEF KeyOwner
<1>6. /\ owners' = map /\ changed' = moved /\ ~saver["main"].busy
      /\ blocks' = [blocks EXCEPT ![s] = [saved |-> FALSE, open |-> OpenBy(block),
                                          closed |-> closed,
                                          pairs |-> IF mode.map THEN pairs ELSE {}]]
      /\ saver' = [saver EXCEPT !["main"] = [busy |-> TRUE, slot |-> s, open |-> OpenBy(block),
                                             closed |-> closed, todo |-> work]]
  BY DEF SaveStart, PairsBy
<1> HIDE DEF map, closed, moved, pairs
<1>7. s \in 0..MaxSlot
  BY DEF Slots
<1>8. [busy |-> TRUE, slot |-> s, open |-> OpenBy(block), closed |-> closed, todo |-> work] \in Saving
  BY <1>3, <1>7 DEF Saving
<1>9. [saved |-> FALSE, open |-> OpenBy(block), closed |-> closed,
        pairs |-> IF mode.map THEN pairs ELSE {}] \in BlockData
  BY <1>3, <1>5 DEF BlockData
<1>10. saver' \in [Tasks -> Saving]
  BY <1>1, <1>6, <1>8
<1>11. blocks' \in [Slots -> BlockData]
  BY <1>1, <1>6, <1>9
<1> QED
  BY <1>1, <1>2, <1>4, <1>6, <1>10, <1>11 DEF map, closed, moved, pairs, Tasks, Busy

\* The keys a finalized slot queues are well typed.
LEMMA QueuedKeysType ==
  ASSUME StartType, NEW s \in Slots
  PROVE  KeysForSlot(s) \subseteq Item
<1>1. /\ blocks[s].open \subseteq KeyOwner /\ blocks[s].closed \subseteq Keys
      /\ blocks[s].pairs \subseteq KeyOwner
  BY DEF StartType, BlockData
<1>2. s \in 1..MaxSlot /\ s \in 1..(MaxSlot + 1) /\ s + 1 \in 1..(MaxSlot + 1)
  BY CleanupAssumption DEF Slots
<1> QED
  BY <1>1, <1>2 DEF KeysForSlot, Item, KeyOwner

\* Where the next block goes, and the one save_block takes in.
LEMMA StreamSlot ==
  ASSUME StartType, StartOrder
  PROVE  /\ head < mode.slots => head + 1 \in Slots
         /\ Busy("main") \/ main # "wait" => head \in Slots
         /\ update[head] \in [Keys -> AllUpdates]
<1>1. update \in [0..MaxSlot -> [Keys -> AllUpdates]] /\ head \in 0..MaxSlot
  BY DEF StartType
<1>2. /\ Busy("main") \/ main # "wait" => mode.quiet < head
      /\ head \in Nat /\ head <= MaxSlot /\ mode.quiet \in Nat /\ mode.slots \in Nat /\ mode.slots <= MaxSlot
  BY StartFacts DEF StartOrder
<1>3. MaxSlot \in Nat /\ Slots = 1..MaxSlot
  BY CleanupAssumption DEF Slots
<1>4. head < mode.slots => head + 1 \in Slots
  BY <1>2, <1>3
<1>5. Busy("main") \/ main # "wait" => head \in Slots
  BY <1>2, <1>3
<1> QED
  BY <1>1, <1>4, <1>5

\* Every step has one of these forms.
LEMMA StartSteps ==
  ASSUME [StartupNext]_startupVars
  PROVE  \/ \E b \in Carries : ProcessSnapshotIfNeeded(b)
         \/ MarkStarted
         \/ SaveBlock
         \/ SaveMasks("main") /\ UNCHANGED <<loadVars, cacheVars>>
         \/ SaveRows("main") /\ UNCHANGED <<loadVars, cacheVars>>
         \/ SaveConfirm("main") /\ UNCHANGED <<loadVars, cacheVars>>
         \/ Download
         \/ \E v \in unread : ReadAccount(v)
         \/ \E v \in scanned : InsertAccount(v)
         \/ CleanUpDuplicatedAccounts
         \/ CleanUpClosedAccounts
         \/ LoadFinished
         \/ \E s \in Slots : FinalizeRow(s)
         \/ FinalizeKeys
         \/ OneShot
         \/ StartupDrain
         \/ UNCHANGED startupVars
  BY DEF StartupNext, MainLoop, SaveWrites, Loader, Finalizer

\* The state at the start has the types.
LEMMA StartTypeInit == StartupInit => StartType
<1> SUFFICES ASSUME StartupInit PROVE StartType
  OBVIOUS
<1> USE CleanupAssumption, StoreAssumption, StartupAssumption
<1>1. mode \in Modes /\ mode.slots \in 0..MaxSlot /\ mode.quiet \in 0..mode.slots
      /\ mode.before \subseteq AllUpdates /\ mode.updates \subseteq AllUpdates /\ "none" \in AllUpdates
  BY DEF StartupInit, AllUpdates
<1>2. PICK past \in Past : update = [s \in 0..MaxSlot |-> IF s <= mode.quiet THEN past[s] ELSE NoUpdate]
  BY DEF StartupInit
<1>3. past \in [0..mode.quiet -> [Keys -> AllUpdates]]
  <2>1. CASE ~mode.load
    BY <1>1, <2>1 DEF Past, NoUpdate
  <2>2. CASE mode.load
    <3>1. past \in [0..mode.quiet -> [Keys -> mode.before \cup mode.updates]]
      BY <2>2 DEF Past
    <3> QED
      BY <1>1, <3>1
  <2> QED
    BY <2>1, <2>2
<1>4. NoUpdate \in [Keys -> AllUpdates]
  BY <1>1 DEF NoUpdate
<1>5. update \in [0..MaxSlot -> [Keys -> AllUpdates]]
  BY <1>1, <1>2, <1>3, <1>4
<1>6. saver \in [Tasks -> Saving] /\ owners \in [Keys -> Entry]
  BY DEF StartupInit, Saving, Idle, Tasks, Entry
<1>7. blocks \in [Slots -> BlockData]
  BY DEF StartupInit, NoBlock, BlockData
<1>8. accounts = {} /\ snapshot = {} /\ queue = {}
  BY DEF StartupInit, CleanupInit
<1>9. oneShot \in OneShotType
  BY DEF StartupInit, OneShotType
<1> QED
  BY <1>1, <1>5, <1>6, <1>7, <1>8, <1>9 DEF StartType, StartupInit

\* The parts of save_block that write.
LEMMA SaveWritesType ==
  ASSUME StartType, StartOrder, SaveMasks("main") \/ SaveRows("main") \/ SaveConfirm("main"),
         UNCHANGED <<loadVars, cacheVars>>
  PROVE  StartType'
<1>0. /\ saver \in [Tasks -> Saving] /\ owners \in [Keys -> Entry] /\ blocks \in [Slots -> BlockData]
      /\ accounts \subseteq Row /\ "main" \in Tasks /\ MaxSlot \in Nat
      /\ changed \subseteq [slot : Slots, key : Keys, owner : Owners]
  BY StartFacts DEF StartType
<1>f. /\ saver["main"].slot \in 0..MaxSlot /\ saver["main"].closed \subseteq Keys
      /\ saver["main"].open \subseteq KeyOwner
      /\ \A k \in Keys : Known(k) => owners[k].owner \in Owners
  BY <1>0, StartFacts DEF Saving
<1>1. CASE SaveMasks("main")
  <2>1. accounts' \subseteq Row
    <3> SUFFICES ASSUME NEW r \in accounts', r \notin accounts PROVE r \in Row
      BY <1>0
    <3>2. CASE r \in RoutedMasks("main")
      <4>1. PICK k \in Keys, o \in Owners :
              r = [key |-> k, owner |-> o, slot |-> saver["main"].slot, open |-> FALSE]
        BY <1>0, <1>f, <3>2 DEF RoutedMasks
      <4> QED
        BY <1>f, <4>1, RowType
    <3>3. CASE \E m \in MaskByScan(saver["main"].closed, saver["main"].slot) : r \in m
      <4>1. PICK m \in MaskByScan(saver["main"].closed, saver["main"].slot) : r \in m
        BY <3>3
      <4>2. r.key \in saver["main"].closed /\ r.owner \in Owners
            /\ r = [key |-> r.key, owner |-> r.owner, slot |-> saver["main"].slot, open |-> FALSE]
        BY <4>1, ScannedMask
      <4> QED
        BY <1>f, <4>2, RowType
    <3> QED
      BY <1>1, <3>2, <3>3, MasksInserted
  <2>2. owners' \in [Keys -> Entry]
    BY <1>0, <1>1 DEF SaveMasks, Entry
  <2>3. saver' \in [Tasks -> Saving]
    BY <1>0, <1>1 DEF SaveMasks, Saving
  <2>4. changed' \subseteq [slot : Slots, key : Keys, owner : Owners]
    BY <1>0, <1>1 DEF SaveMasks
  <2>5. UNCHANGED <<mode, snapshot, queue, update, head, blocks, confirmed, finalTip>>
    BY <1>1 DEF SaveMasks
  <2> QED
    BY <2>1, <2>2, <2>3, <2>4, <2>5 DEF StartType
<1>2. CASE SaveRows("main")
  <2>1. accounts' \subseteq Row
    <3>1. OpenRows("main") \subseteq Row
      <4> SUFFICES ASSUME NEW o \in saver["main"].open
                   PROVE  [key |-> o.key, owner |-> o.owner, slot |-> saver["main"].slot, open |-> TRUE] \in Row
        BY DEF OpenRows
      <4>1. o.key \in Keys /\ o.owner \in Owners
        BY <1>f DEF KeyOwner
      <4> QED
        BY <1>f, <4>1, RowType
    <3> QED
      BY <1>0, <1>2, <3>1, RowsInserted
  <2>2. saver' \in [Tasks -> Saving]
    BY <1>0, <1>2 DEF SaveRows, Saving
  <2>3. UNCHANGED <<mode, snapshot, queue, update, head, owners, changed, blocks, confirmed, finalTip>>
    BY <1>2 DEF SaveRows
  <2> QED
    BY <2>1, <2>2, <2>3 DEF StartType
<1>3. CASE SaveConfirm("main")
  <2>1. head \in Slots /\ saver["main"].slot = head
    BY <1>3, StreamSlot DEF SaveConfirm, StartOrder, Busy
  <2>2. saver' \in [Tasks -> Saving]
    <3>1. Idle \in Saving
      BY <1>0 DEF Saving, Idle
    <3> QED
      BY <1>0, <1>3, <3>1 DEF SaveConfirm
  <2>3. blocks' \in [Slots -> BlockData]
    <3>1. blocks[head] \in BlockData
      BY <1>0, <2>1
    <3>2. [blocks[head] EXCEPT !.saved = TRUE] \in BlockData
      BY <3>1 DEF BlockData
    <3>3. blocks' = [blocks EXCEPT ![head] = [blocks[head] EXCEPT !.saved = TRUE]]
      BY <1>0, <1>3, <2>1 DEF SaveConfirm
    <3> QED
      BY <1>0, <2>1, <3>2, <3>3
  <2>4. UNCHANGED <<mode, accounts, snapshot, queue, update, head, owners, changed, finalTip>>
        /\ confirmed' \in {confirmed, head}
    BY <1>3, <2>1 DEF SaveConfirm
  <2> QED
    BY <2>2, <2>3, <2>4 DEF StartType
<1> QED
  BY <1>1, <1>2, <1>3

\* The types hold at every step.
LEMMA StartTypeStep ==
  ASSUME StartType, StartOrder, [StartupNext]_startupVars
  PROVE  StartType'
<1>f. /\ MaxSlot \in Nat /\ head \in Nat /\ mode.quiet \in Nat
      /\ \A s : s \in Slots <=> s \in Nat /\ 1 <= s /\ s <= MaxSlot
  BY StartFacts
<1>1. ASSUME NEW b \in Carries, ProcessSnapshotIfNeeded(b) PROVE StartType'
  <2>1. b \in [Keys -> AllUpdates]
    <3>1. mode.updates \subseteq AllUpdates
      BY StoreAssumption DEF StartType
    <3> QED
      BY <3>1 DEF Carries
  <2>2. head' = head + 1 /\ head' \in Slots /\ update' = [update EXCEPT ![head'] = b]
    BY <1>1, StreamSlot DEF ProcessSnapshotIfNeeded
  <2>3. head' \in 0..MaxSlot /\ update' \in [0..MaxSlot -> [Keys -> AllUpdates]]
    BY <1>f, <2>1, <2>2 DEF StartType
  <2>4. /\ UNCHANGED <<mode, accounts, snapshot, queue, owners, changed, blocks, saver, confirmed,
                       finalTip, unread, scanned, versions, cache, fin, oneShot, unmasked, early>>
        /\ main' \in {"mark", "save"} /\ loader' \in {loader, "download"} /\ starting' \in {starting, FALSE}
        /\ snapState' \in {snapState, "FinishedAndCleanedUp"}
    BY <1>1 DEF ProcessSnapshotIfNeeded
  <2> QED
    BY <2>3, <2>4 DEF StartType
<1>2. CASE MarkStarted
  BY <1>2 DEF MarkStarted, StartType
<1>3. CASE SaveBlock
  <2>1. head \in Slots /\ update[head] \in [Keys -> AllUpdates] /\ MaskWork \in SUBSET AllWork
    BY <1>3, StreamSlot DEF SaveBlock, MaskWork, AllWork
  <2>2. SaveStart("main", head, update[head], MaskWork)
    BY <1>3 DEF SaveBlock
  <2>3. /\ saver' \in [Tasks -> Saving] /\ blocks' \in [Slots -> BlockData] /\ owners' \in [Keys -> Entry]
        /\ changed' \subseteq [slot : Slots, key : Keys, owner : Owners]
    BY <2>1, <2>2, BlockStarted
  <2>4. /\ UNCHANGED <<mode, accounts, snapshot, queue, update, head, confirmed, finalTip, snapState,
                       loader, unread, scanned, versions, cache, fin, oneShot, starting>>
        /\ main' = "wait" /\ unmasked' \subseteq unmasked \cup {head} /\ early' \subseteq early \cup {head}
    BY <1>3 DEF SaveBlock
  <2> QED
    BY <2>1, <2>3, <2>4 DEF StartType
<1>4. CASE SaveMasks("main") /\ UNCHANGED <<loadVars, cacheVars>>
  BY <1>4, SaveWritesType
<1>5. CASE SaveRows("main") /\ UNCHANGED <<loadVars, cacheVars>>
  BY <1>5, SaveWritesType
<1>6. CASE SaveConfirm("main") /\ UNCHANGED <<loadVars, cacheVars>>
  BY <1>6, SaveWritesType
<1>7. CASE Download
  <2>1. PICK s \in Slots : Suitable(s) /\ unread' \in PairVersions(s)
    BY <1>7 DEF Download
  <2>2. unread' \subseteq Version
    BY <1>f, <2>1 DEF PairVersions, Version
  <2> QED
    BY <1>7, <2>2 DEF Download, StartType
<1>8. ASSUME NEW v \in unread, ReadAccount(v) PROVE StartType'
  <2>1. v \in Version /\ v.key \in Keys /\ v.slot \in 0..MaxSlot
    BY DEF StartType, Version
  <2>2. owners \in [Keys -> Entry] /\ changed \subseteq [slot : Slots, key : Keys, owner : Owners]
    BY DEF StartType
  <2>3. owners' \in [Keys -> Entry]
    BY <1>8, <2>1, <2>2 DEF ReadAccount, SeedOwner, Entry
  <2>4. changed' \subseteq [slot : Slots, key : Keys, owner : Owners]
    <3>1. ASSUME OwnerMoved(v.key, update[v.slot][v.key], v.slot)
          PROVE  [slot |-> v.slot, key |-> v.key, owner |-> owners[v.key].owner]
                   \in [slot : Slots, key : Keys, owner : Owners]
      <4>1. owners[v.key].owner \in Owners /\ owners[v.key].slot \in Nat /\ owners[v.key].slot < v.slot
        BY <2>1, <3>1, StartFacts DEF OwnerMoved
      <4>2. v.slot \in Slots
        BY <1>f, <2>1, <4>1
      <4> QED
        BY <2>1, <4>1, <4>2
    <3> QED
      BY <1>8, <2>2, <3>1 DEF ReadAccount
  <2>5. /\ UNCHANGED <<mode, accounts, snapshot, queue, update, head, blocks, saver, confirmed, finalTip,
                       snapState, main, loader, versions, cacheVars>>
        /\ unread' \subseteq unread /\ scanned' = scanned \cup {v}
    BY <1>8 DEF ReadAccount
  <2> QED
    BY <2>1, <2>3, <2>4, <2>5 DEF StartType
<1>9. ASSUME NEW v \in scanned, InsertAccount(v) PROVE StartType'
  <2>1. v \in Version /\ v.key \in Keys /\ v.slot \in 0..MaxSlot
    BY DEF StartType, Version
  <2>2. update[v.slot][v.key] \in AllUpdates
    BY <2>1 DEF StartType
  <2>3. LoadedVersion(v) \in [key : Keys, slot : 0..MaxSlot, owner : AllUpdates]
    BY <2>1, <2>2 DEF LoadedVersion
  <2>4. LoadedRow(v) \subseteq LoadRow
    <3> DEFINE o == update[v.slot][v.key]
    <3>1. CASE o \in Owners
      <4>1. LoadedRow(v) = {[key |-> v.key, owner |-> o, slot |-> v.slot, open |-> TRUE]}
        <5>1. o # "closed"
          BY <3>1, StartFacts
        <5> QED
          BY <3>1, <5>1 DEF LoadedRow
      <4> HIDE DEF o
      <4> QED
        BY <2>1, <3>1, <4>1 DEF LoadRow
    <3>2. CASE o \notin Owners
      <4>1. LoadedRow(v) \subseteq {[key |-> v.key, owner |-> System, slot |-> v.slot, open |-> FALSE]}
        <5>1. CASE o = "closed" /\ mode.system
          BY <3>2, <5>1 DEF LoadedRow
        <5>2. CASE ~(o = "closed" /\ mode.system)
          BY <3>2, <5>2 DEF LoadedRow
        <5> QED
          BY <5>1, <5>2
      <4>2. [key |-> v.key, owner |-> System, slot |-> v.slot, open |-> FALSE] \in LoadRow
        BY <2>1 DEF LoadRow
      <4> QED
        BY <4>1, <4>2
    <3> QED
      BY <3>1, <3>2
  <2>5. /\ UNCHANGED <<mode, accounts, queue, storeVars, snapState, main, loader, unread, cacheVars>>
        /\ scanned' \subseteq scanned /\ snapshot' = snapshot \cup LoadedRow(v)
        /\ versions' = versions \cup {LoadedVersion(v)}
    BY <1>9 DEF InsertAccount
  <2> QED
    BY <2>3, <2>4, <2>5 DEF StartType
<1>10. CASE CleanUpDuplicatedAccounts
  BY <1>10 DEF CleanUpDuplicatedAccounts, StartType
<1>11. CASE CleanUpClosedAccounts
  BY <1>11 DEF CleanUpClosedAccounts, StartType
<1>12. CASE LoadFinished
  BY <1>12 DEF LoadFinished, StartType
<1>13. ASSUME NEW s \in Slots, FinalizeRow(s) PROVE StartType'
  <2>1. oneShot' \in OneShotType /\ cache' \subseteq CacheKey
    <3>1. s \in 0..MaxSlot
      BY <1>f
    <3>2. cache \subseteq CacheKey /\ oneShot \in OneShotType
      BY DEF StartType
    <3>3. CASE CleanupDue
      BY <1>13, <3>1, <3>2, <3>3 DEF FinalizeRow, CleanupStoredAccountsOnce, OneShotType
    <3>4. CASE ~CleanupDue
      BY <1>13, <3>2, <3>4 DEF FinalizeRow, CleanupStoredAccountsOnce
    <3> QED
      BY <3>3, <3>4
  <2>2. /\ UNCHANGED <<mode, accounts, snapshot, queue, update, head, owners, changed, blocks, saver,
                       confirmed, loadVars, starting, unmasked, early>>
        /\ fin' = s /\ finalTip' = s
    BY <1>13 DEF FinalizeRow
  <2>3. fin' \in 0..MaxSlot /\ finalTip' \in 0..MaxSlot
    BY <1>f, <2>2
  <2>4. /\ mode' \in Modes /\ accounts' \subseteq Row /\ snapshot' \subseteq LoadRow /\ queue' \subseteq Item
        /\ update' \in [0..MaxSlot -> [Keys -> AllUpdates]]
        /\ head' \in 0..MaxSlot /\ confirmed' \in 0..MaxSlot
    BY <2>2 DEF StartType
  <2>5. /\ owners' \in [Keys -> Entry] /\ changed' \subseteq [slot : Slots, key : Keys, owner : Owners]
        /\ blocks' \in [Slots -> BlockData] /\ saver' \in [Tasks -> Saving]
    BY <2>2 DEF StartType
  <2>6. /\ unread' \subseteq Version /\ scanned' \subseteq Version
        /\ versions' \subseteq [key : Keys, slot : 0..MaxSlot, owner : AllUpdates]
    BY <2>2 DEF StartType
  <2>7. /\ snapState' \in {"NotStarted", "Started", "Finished", "FinishedAndCleanedUp"}
        /\ main' \in {"wait", "mark", "save"}
        /\ loader' \in {"none", "download", "files", "closed", "flip", "done"}
        /\ starting' \in BOOLEAN /\ unmasked' \subseteq Slots /\ early' \subseteq Slots
    BY <2>2 DEF StartType
  <2> QED
    BY <2>1, <2>3, <2>4, <2>5, <2>6, <2>7 DEF StartType
<1>14. CASE FinalizeKeys
  <2>1. fin \in Slots
    <3>1. fin # 0
      BY <1>14 DEF FinalizeKeys
    <3>2. fin \in 0..MaxSlot
      BY DEF StartType
    <3> QED
      BY <1>f, <3>1, <3>2, StartFacts
  <2>2. queue' \subseteq Item
    <3>1. queue \cup KeysForSlot(fin) \subseteq Item
      BY <2>1, QueuedKeysType DEF StartType
    <3> QED
      BY <1>14, <3>1, MergeSelects DEF FinalizeKeys
  <2>3. cache' \subseteq CacheKey
    <3>1. CacheKeys(fin) \subseteq CacheKey
      <4>1. \A i \in KeysForSlot(fin) : i.key \in Keys
        BY <2>1, QueuedKeysType DEF Item
      <4>2. blocks[fin].closed \subseteq Keys
        BY <2>1 DEF StartType, BlockData
      <4> QED
        BY <4>1, <4>2 DEF CacheKeys, CacheKey, OtherKeys
    <3> QED
      BY <1>14, <3>1 DEF FinalizeKeys, StartType
  <2>4. blocks' \in [Slots -> BlockData]
    <3>1. NoBlock \in BlockData
      BY DEF NoBlock, BlockData
    <3> QED
      BY <1>14, <3>1 DEF FinalizeKeys, StartType
  <2>5. /\ UNCHANGED <<mode, accounts, snapshot, update, head, owners, changed, saver,
                       confirmed, finalTip, loadVars, oneShot, starting, unmasked, early>>
        /\ fin' = 0
    BY <1>14 DEF FinalizeKeys
  <2> QED
    BY <1>f, <2>2, <2>3, <2>4, <2>5 DEF StartType
<1>15. CASE OneShot
  <2>1. oneShot' \in OneShotType
    BY <1>15 DEF OneShot, StartType, OneShotType
  <2>2. snapshot' \subseteq snapshot
    BY <1>15 DEF OneShot, BelowUniformCutoff
  <2>3. /\ UNCHANGED <<mode, accounts, queue, storeVars, main, loader, unread, scanned, versions, cache,
                       fin, unmasked, early>>
        /\ snapState' \in {snapState, "FinishedAndCleanedUp"} /\ starting' \in {starting, FALSE}
    BY <1>15 DEF OneShot
  <2> QED
    BY <2>1, <2>2, <2>3 DEF StartType
<1>16. CASE StartupDrain
  <2>1. accounts' \subseteq accounts /\ snapshot' \subseteq snapshot /\ queue' = {}
    BY <1>16 DEF StartupDrain, DeleteBelow
  <2> QED
    BY <1>16, <2>1 DEF StartupDrain, StartType
<1>17. CASE UNCHANGED startupVars
  BY <1>17 DEF startupVars, StartType
<1> QED
  BY <1>1, <1>2, <1>3, <1>4, <1>5, <1>6, <1>7, <1>8, <1>9, <1>10, <1>11, <1>12, <1>13, <1>14, <1>15,
     <1>16, <1>17, StartSteps

\* The order at the start.
LEMMA StartOrderInit == StartupInit => StartOrder
<1> SUFFICES ASSUME StartupInit PROVE StartOrder
  OBVIOUS
<1>1. StartType
  BY StartTypeInit
<1>2. /\ head = mode.quiet /\ confirmed = 0 /\ finalTip = 0 /\ fin = 0 /\ main = "wait"
      /\ saver = [t \in {"main", "fill"} |-> Idle] /\ blocks = [s \in Slots |-> NoBlock]
  BY DEF StartupInit
<1>3. saver["main"] = Idle /\ saver["fill"] = Idle /\ ~Busy("main")
  BY <1>2 DEF Idle, Busy
<1>4. \A s \in Slots : s > head => update[s] = NoUpdate
  <2>1. PICK past \in Past : update = [s \in 0..MaxSlot |-> IF s <= mode.quiet THEN past[s] ELSE NoUpdate]
    BY DEF StartupInit
  <2> QED
    BY <1>1, <1>2, <2>1, StartFacts
<1>5. mode.quiet <= mode.slots
  BY <1>1, StartupAssumption, StoreAssumption DEF StartType
<1>6. \A s \in Slots : blocks[s] = NoBlock /\ ~blocks[s].saved
  BY <1>2 DEF NoBlock
<1>7. Begun = head /\ Done = head
  BY <1>2, <1>3 DEF Begun, Done
<1> QED
  BY <1>1, <1>2, <1>3, <1>4, <1>5, <1>6, <1>7, StartFacts DEF StartOrder

\* What the order says of the newest slot.
LEMMA OrderFacts ==
  ASSUME StartType, StartOrder
  PROVE  /\ Begun \in Nat /\ Done \in Nat /\ Done <= Begun /\ Begun <= head
         /\ mode.quiet <= Begun /\ mode.quiet <= Done
         /\ finalTip <= confirmed /\ confirmed <= Done
         /\ Busy("main") => Begun = head /\ Done = head - 1
         /\ main # "wait" => Begun = head - 1 /\ Done = head - 1 /\ ~Busy("main") /\ mode.quiet < head
         /\ main = "wait" => Begun = head
         /\ Busy("main") \/ main # "wait" => head \in Slots
         /\ fin # 0 => fin \in Slots /\ fin <= finalTip
         /\ saver["main"].todo # {} => Busy("main")
<1>1. Idle.todo = {} /\ Idle.busy = FALSE
  BY DEF Idle
<1> QED
  BY <1>1, StartFacts DEF StartOrder, Begun, Done, Busy

\* The order does not depend on what the blocks write, nor on the load.
LEMMA OrderKept ==
  ASSUME StartType, StartOrder,
         UNCHANGED <<mode, head, main, update, finalTip, confirmed, blocks, fin>>,
         saver'["fill"] = saver["fill"],
         \/ saver'["main"] = saver["main"]
         \/ saver["main"].busy /\ saver'["main"].busy /\ saver'["main"].slot = saver["main"].slot
  PROVE  StartOrder' /\ Begun' = Begun /\ Done' = Done
<1>1. Busy("main")' <=> Busy("main")
  BY DEF Busy
<1>2. Begun' = Begun /\ Done' = Done
  BY <1>1 DEF Begun, Done
<1> QED
  BY <1>1, <1>2 DEF StartOrder, Busy

\* The order when a block arrives.
LEMMA OrderArrival ==
  ASSUME StartType, StartOrder, NEW b \in Carries, ProcessSnapshotIfNeeded(b)
  PROVE  /\ StartOrder' /\ Begun' = Begun /\ Done' = Done /\ Begun = head
         /\ head' = head + 1 /\ head' \in Slots /\ head' \in 0..MaxSlot
         /\ \A s \in 0..MaxSlot : s # head' => update'[s] = update[s]
         /\ update'[head'] = b /\ main' # "wait" /\ main = "wait" /\ ~Busy("main")
<1>1. /\ main = "wait" /\ ~Busy("main") /\ head < mode.slots /\ head' = head + 1
      /\ update' = [update EXCEPT ![head'] = b] /\ main' \in {"mark", "save"}
      /\ UNCHANGED <<mode, blocks, saver, confirmed, finalTip, fin>>
  BY DEF ProcessSnapshotIfNeeded, Busy
<1>2. Busy("main")' <=> Busy("main")
  BY <1>1 DEF Busy
<1>3. Begun' = head /\ Done' = head /\ Begun = head /\ Done = head
  BY <1>1, <1>2, StartFacts DEF Begun, Done
<1>4. head' \in Slots /\ head' \in 0..MaxSlot
  BY <1>1, StreamSlot, StartFacts
<1>5. \A s \in 0..MaxSlot : s # head' => update'[s] = update[s]
  BY <1>1 DEF StartType
<1>6. update'[head'] = b
  BY <1>1, <1>4 DEF StartType
<1>7. StartOrder'
  BY <1>1, <1>2, <1>3, <1>4, <1>5, StartFacts DEF StartOrder
<1> QED
  BY <1>1, <1>3, <1>4, <1>5, <1>6, <1>7

\* The order when save_block takes the block in.
LEMMA OrderTaken ==
  ASSUME StartType, StartOrder, SaveBlock
  PROVE  StartOrder' /\ Begun' = head /\ Begun = head - 1 /\ Done' = head - 1 /\ Done = head - 1
<1>1. head \in Slots /\ update[head] \in [Keys -> AllUpdates] /\ MaskWork \in SUBSET AllWork
  BY StreamSlot DEF SaveBlock, MaskWork, AllWork
<1>2. SaveStart("main", head, update[head], MaskWork)
  BY DEF SaveBlock
<1>3. /\ main = "save" /\ main' = "wait"
      /\ UNCHANGED <<mode, update, head, confirmed, finalTip, fin>>
  BY DEF SaveBlock
<1>4. /\ ~Busy("main") /\ saver'["main"].busy /\ saver'["main"].slot = head /\ saver'["fill"] = saver["fill"]
      /\ ~blocks'[head].saved
      /\ \A u \in Slots : u # head => blocks'[u] = blocks[u]
  <2> DEFINE closed == ClosedBy(update[head], head)
             pairs == IF mode.map THEN PairsBy(update[head], head) ELSE {}
  <2>1. /\ ~Busy("main") /\ saver'["fill"] = saver["fill"]
        /\ saver'["main"] = [busy |-> TRUE, slot |-> head, open |-> OpenBy(update[head]),
                              closed |-> closed, todo |-> MaskWork]
        /\ blocks'[head] = [saved |-> FALSE, open |-> OpenBy(update[head]), closed |-> closed,
                             pairs |-> pairs]
        /\ \A u \in Slots : u # head => blocks'[u] = blocks[u]
    BY <1>1, <1>2, BlockStarted
  <2> HIDE DEF closed, pairs
  <2> QED
    BY <2>1
<1>5. Begun' = head /\ Begun = head - 1 /\ Done' = head - 1 /\ Done = head - 1 /\ Busy("main")'
  BY <1>3, <1>4 DEF Begun, Done, Busy
<1>6. mode.quiet < head
  BY <1>3 DEF StartOrder
<1>7. finalTip <= confirmed /\ confirmed < head /\ (fin # 0 => fin = finalTip /\ blocks[fin].saved)
  BY <1>1, <1>5, StartFacts DEF StartOrder
<1>8. fin # 0 => fin \in Slots /\ fin # head
  BY <1>7, StartFacts
<1>9. StartOrder'
  BY <1>1, <1>3, <1>4, <1>5, <1>6, <1>7, <1>8, StartFacts DEF StartOrder, Busy
<1> QED
  BY <1>5, <1>9

\* The order when the writes of the block are done.
LEMMA OrderConfirmed ==
  ASSUME StartType, StartOrder, SaveConfirm("main"), UNCHANGED <<loadVars, cacheVars>>
  PROVE  /\ StartOrder' /\ Begun' = Begun /\ Begun = head /\ Done' = head /\ Done = head - 1
         /\ confirmed' = head /\ head' = head
         /\ blocks'[head] = [blocks[head] EXCEPT !.saved = TRUE]
         /\ \A u \in Slots : u # head => blocks'[u] = blocks[u]
         /\ saver'["main"] = Idle
<1>1. saver["main"].busy /\ saver["main"].slot = head /\ main = "wait" /\ mode.quiet < head /\ head \in Slots
  BY StreamSlot DEF SaveConfirm, StartOrder, Busy
<1>2. /\ confirmed' = IF head > confirmed THEN head ELSE confirmed
      /\ blocks' = [blocks EXCEPT ![head].saved = TRUE]
      /\ saver' = [saver EXCEPT !["main"] = Idle]
      /\ UNCHANGED <<mode, update, head, finalTip, fin, main>>
  BY <1>1 DEF SaveConfirm
<1>3. saver'["main"] = Idle /\ saver'["fill"] = saver["fill"] /\ ~Idle.busy
  BY <1>2 DEF StartType, Tasks, Idle
<1>4. Begun' = Begun /\ Begun = head /\ Done' = head /\ Done = head - 1 /\ ~Busy("main")'
  BY <1>1, <1>2, <1>3 DEF Begun, Done, Busy
<1>5. confirmed' = head
  BY <1>1, <1>2, <1>4, StartFacts DEF StartOrder
<1>6. /\ blocks'[head] = [blocks[head] EXCEPT !.saved = TRUE] /\ blocks'[head].saved
      /\ \A u \in Slots : u # head => blocks'[u] = blocks[u]
  <2>1. blocks[head] \in BlockData
    BY <1>1 DEF StartType
  <2>2. [blocks[head] EXCEPT !.saved = TRUE].saved
    BY <2>1 DEF BlockData
  <2> QED
    BY <1>1, <1>2, <2>2 DEF StartType
<1>7. finalTip <= confirmed /\ confirmed < head /\ (fin # 0 => fin = finalTip /\ blocks[fin].saved)
  BY <1>1, <1>4, StartFacts DEF StartOrder
<1>8. fin # 0 => fin \in Slots /\ fin # head
  BY <1>7, StartFacts
<1>9. StartOrder'
  BY <1>1, <1>2, <1>3, <1>4, <1>5, <1>6, <1>7, <1>8, StartFacts DEF StartOrder
<1> QED
  BY <1>2, <1>3, <1>4, <1>5, <1>6, <1>9

\* The order when a slot becomes finalized.
LEMMA OrderFinalized ==
  ASSUME StartType, StartOrder, NEW s \in Slots, FinalizeRow(s)
  PROVE  /\ StartOrder' /\ Begun' = Begun /\ Done' = Done
         /\ finalTip < s /\ finalTip' = s /\ fin = 0 /\ fin' = s /\ mode.quiet < s /\ s <= confirmed
         /\ \A u \in Slots : u < s => blocks[u] = NoBlock
<1>1. /\ fin = 0 /\ blocks[s].saved /\ \A r \in Slots : r < s => blocks[r] = NoBlock
      /\ fin' = s /\ finalTip' = s
      /\ UNCHANGED <<mode, update, head, blocks, saver, confirmed, main>>
  BY DEF FinalizeRow
<1>2. Begun' = Begun /\ Done' = Done /\ (Busy("main")' <=> Busy("main"))
  BY <1>1 DEF Begun, Done, Busy
<1>3. blocks[s] # NoBlock
  BY <1>1 DEF NoBlock
<1>4. finalTip < s /\ mode.quiet < s /\ s <= confirmed
  BY <1>1, <1>3, StartFacts DEF StartOrder
<1>5. StartOrder'
  BY <1>1, <1>2, <1>4, StartFacts DEF StartOrder
<1> QED
  BY <1>1, <1>2, <1>4, <1>5

\* The order when its keys are queued.
LEMMA OrderQueued ==
  ASSUME StartType, StartOrder, FinalizeKeys
  PROVE  /\ StartOrder' /\ Begun' = Begun /\ Done' = Done
         /\ fin \in Slots /\ fin = finalTip /\ fin' = 0 /\ blocks'[fin] = NoBlock
         /\ \A u \in Slots : u # fin => blocks'[u] = blocks[u]
<1>1. /\ fin # 0 /\ blocks' = [blocks EXCEPT ![fin] = NoBlock] /\ fin' = 0
      /\ UNCHANGED <<mode, update, head, finalTip, saver, confirmed, main>>
  BY DEF FinalizeKeys
<1>2. Begun' = Begun /\ Done' = Done /\ (Busy("main")' <=> Busy("main"))
  BY <1>1 DEF Begun, Done, Busy
<1>3. fin \in Slots /\ fin = finalTip
  BY <1>1, StartFacts DEF StartOrder
<1>4. blocks'[fin] = NoBlock /\ ~blocks'[fin].saved /\ \A u \in Slots : u # fin => blocks'[u] = blocks[u]
  BY <1>1, <1>3 DEF StartType, NoBlock
<1>5. StartOrder'
  BY <1>1, <1>2, <1>3, <1>4, StartFacts DEF StartOrder
<1> QED
  BY <1>1, <1>2, <1>3, <1>4, <1>5

\* The steps that write masks or rows leave the order and the memory of the block.
LEMMA OrderWrites ==
  ASSUME StartType, StartOrder, SaveMasks("main") \/ SaveRows("main"), UNCHANGED <<loadVars, cacheVars>>
  PROVE  /\ StartOrder' /\ Begun' = Begun /\ Done' = Done /\ Busy("main") /\ Busy("main")'
         /\ saver'["main"].slot = head /\ saver["main"].slot = head
         /\ saver'["main"].open = saver["main"].open /\ saver'["main"].closed = saver["main"].closed
         /\ saver'["main"].todo \subseteq saver["main"].todo
         /\ SaveRows("main") => saver'["main"].todo = saver["main"].todo \ {"rows"}
         /\ SaveMasks("main") => saver'["main"].todo = saver["main"].todo \ {"masks"}
         /\ UNCHANGED <<mode, snapshot, queue, update, head, blocks, confirmed, finalTip>>
<1>1. saver \in [Tasks -> Saving] /\ "main" \in Tasks /\ "fill" \in Tasks /\ saver["main"] \in Saving
  BY StartFacts DEF StartType
<1> DEFINE Writes(w) ==
      /\ saver' = [saver EXCEPT !["main"].todo = @ \ {w}] /\ saver["main"].todo # {}
      /\ UNCHANGED <<mode, snapshot, queue, update, head, blocks, confirmed, finalTip>>
<1>2. (SaveMasks("main") => Writes("masks")) /\ (SaveRows("main") => Writes("rows"))
  BY DEF SaveMasks, SaveRows
<1>3. ASSUME NEW w, Writes(w)
      PROVE  /\ saver'["main"].busy = saver["main"].busy /\ saver'["main"].slot = saver["main"].slot
             /\ saver'["main"].open = saver["main"].open /\ saver'["main"].closed = saver["main"].closed
             /\ saver'["main"].todo = saver["main"].todo \ {w}
             /\ saver'["fill"] = saver["fill"]
  BY <1>1, <1>3 DEF Saving
<1>4. saver["main"].slot = head /\ saver["main"].busy
  BY <1>2, OrderFacts DEF StartOrder, Busy
<1>5. fin' = fin /\ main' = main
  OBVIOUS
<1>6. ASSUME NEW w, Writes(w)
      PROVE  StartOrder' /\ Begun' = Begun /\ Done' = Done
  <2>1. UNCHANGED <<mode, head, main, update, finalTip, confirmed, blocks, fin>>
    BY <1>5, <1>6
  <2> HIDE DEF Writes
  <2> QED
    BY <1>3, <1>4, <1>6, <2>1, OrderKept
<1>7. Writes("masks") \/ Writes("rows")
  BY <1>2
<1> QED
  BY <1>2, <1>3, <1>4, <1>6, <1>7 DEF Busy

\* The other steps leave it too.
LEMMA OrderElse ==
  ASSUME StartType, StartOrder,
         \/ MarkStarted \/ Loader \/ OneShot \/ StartupDrain \/ UNCHANGED startupVars
  PROVE  /\ StartOrder' /\ Begun' = Begun /\ Done' = Done
         /\ UNCHANGED <<mode, head, update, finalTip, confirmed, blocks, fin, saver, unmasked, early>>
         /\ MarkStarted \/ UNCHANGED main
<1>1. CASE MarkStarted
  <2>1. UNCHANGED <<mode, head, update, finalTip, confirmed, blocks, fin, saver, unmasked, early>>
        /\ main = "mark" /\ main' = "save"
    BY <1>1 DEF MarkStarted
  <2>2. Begun' = Begun /\ Done' = Done /\ (Busy("main")' <=> Busy("main"))
    BY <2>1 DEF Begun, Done, Busy
  <2> QED
    BY <1>1, <2>1, <2>2 DEF StartOrder
<1>2. CASE Loader \/ OneShot \/ StartupDrain \/ UNCHANGED startupVars
  <2>1. UNCHANGED <<mode, head, main, update, finalTip, confirmed, blocks, fin, saver, unmasked, early>>
    <3>1. CASE Loader
      BY <3>1 DEF Loader, Download, ReadAccount, InsertAccount, CleanUpDuplicatedAccounts,
                  CleanUpClosedAccounts, LoadFinished
    <3>2. CASE OneShot
      BY <3>2 DEF OneShot
    <3>3. CASE StartupDrain
      BY <3>3 DEF StartupDrain
    <3>4. CASE UNCHANGED startupVars
      BY <3>4 DEF startupVars
    <3> QED
      BY <1>2, <3>1, <3>2, <3>3, <3>4
  <2> QED
    BY <2>1, OrderKept
<1> QED
  BY <1>1, <1>2

\* The order holds at every step.
LEMMA StartOrderStep ==
  ASSUME StartType, StartOrder, [StartupNext]_startupVars
  PROVE  StartOrder'
<1>1. CASE \E b \in Carries : ProcessSnapshotIfNeeded(b)
  BY <1>1, OrderArrival
<1>2. CASE MarkStarted \/ Loader \/ OneShot \/ StartupDrain \/ UNCHANGED startupVars
  BY <1>2, OrderElse
<1>3. CASE SaveBlock
  BY <1>3, OrderTaken
<1>4. CASE (SaveMasks("main") \/ SaveRows("main")) /\ UNCHANGED <<loadVars, cacheVars>>
  BY <1>4, OrderWrites
<1>5. CASE SaveConfirm("main") /\ UNCHANGED <<loadVars, cacheVars>>
  BY <1>5, OrderConfirmed
<1>6. CASE \E s \in Slots : FinalizeRow(s)
  BY <1>6, OrderFinalized
<1>7. CASE FinalizeKeys
  BY <1>7, OrderQueued
<1> QED
  BY <1>1, <1>2, <1>3, <1>4, <1>5, <1>6, <1>7 DEF StartupNext, MainLoop, SaveWrites, Finalizer

\* Where the load and the one-shot are, and which slots were saved without masks:
\* masks are written after the load only, when the main loop is past `mark'.
SlotsSaved ==
  /\ unmasked \subseteq (mode.quiet + 1)..Begun /\ early \subseteq unmasked
  /\ main = "mark" => head = mode.quiet + 1
  /\ snapState # "NotStarted" => mode.quiet < head
  /\ snapState = "NotStarted" => Begun = mode.quiet
  /\ \A s \in (mode.quiet + 1)..Begun : s \notin unmasked => ~IsStartup
  /\ "masks" \in saver["main"].todo => head \notin unmasked
  /\ \A r \in accounts : ~r.open => ~IsStartup /\ main # "mark"

\* Once the one-shot began the cache is gone, and the masks of blocks are written.
OneShotPhase ==
  oneShot.at # "none" =>
    /\ mode.load /\ ~IsStartup /\ main # "mark" /\ cache = {}
    /\ mode.quiet < oneShot.cutoff /\ oneShot.cutoff <= finalTip

\* Without a load nothing waits for one.
WithoutLoad ==
  ~mode.load =>
    /\ loader = "none" /\ snapshot = {} /\ unmasked = {} /\ cache = {} /\ main # "mark"
    /\ unread = {} /\ scanned = {}
    /\ head = mode.quiet => snapState = "NotStarted" /\ starting = TRUE
    /\ head # mode.quiet => snapState = "FinishedAndCleanedUp"

\* The states of the load, of the main loop and of the Startup reason go together.
LoadPhase ==
  mode.load =>
    /\ oneShot.at = "done" \/ starting = TRUE
    /\ loader = "none" => head = mode.quiet
    /\ head = mode.quiet => loader = "none"
    /\ loader # "done" => IsStartup
    /\ snapState = "NotStarted" => loader = "none" \/ main = "mark"
    /\ snapState = "FinishedAndCleanedUp" => oneShot.at = "done"
    /\ loader \in {"none", "download"} => snapshot = {} /\ scanned = {} /\ versions = {}
    /\ loader # "files" => unread = {} /\ scanned = {}
    /\ loader \in {"none", "download"} => (mode.quiet + 1)..Begun \subseteq early

\* Together.
StartPhase == SlotsSaved /\ OneShotPhase /\ WithoutLoad /\ LoadPhase

\* The phase at the start.
LEMMA StartPhaseInit == StartupInit => StartPhase
<1> SUFFICES ASSUME StartupInit PROVE StartPhase
  OBVIOUS
<1>1. StartType /\ StartOrder
  BY StartTypeInit, StartOrderInit
<1>2. /\ head = mode.quiet /\ main = "wait" /\ snapState = "NotStarted" /\ loader = "none"
      /\ unread = {} /\ scanned = {} /\ versions = {} /\ cache = {} /\ starting = TRUE /\ unmasked = {}
      /\ early = {} /\ accounts = {} /\ snapshot = {} /\ oneShot.at = "none"
      /\ saver["main"] = Idle
  BY DEF StartupInit, CleanupInit
<1>3. Begun = mode.quiet /\ Idle.todo = {}
  BY <1>2 DEF Begun, Idle
<1> QED
  BY <1>1, <1>2, <1>3, StartFacts DEF StartPhase, SlotsSaved, OneShotPhase, WithoutLoad, LoadPhase, IsStartup

\* The phase when a block arrives.
LEMMA PhaseArrival ==
  ASSUME StartType, StartOrder, StartPhase, NEW b \in Carries, ProcessSnapshotIfNeeded(b)
  PROVE  StartPhase'
<1>1. /\ main = "wait" /\ head' = head + 1 /\ mode.quiet <= head /\ head \in Nat /\ mode.quiet \in Nat
      /\ Begun' = head /\ Begun = head
  BY StartFacts, OrderArrival DEF StartOrder
<1>2. /\ UNCHANGED <<mode, accounts, snapshot, saver, finalTip, unread, scanned, versions, cache,
                     oneShot, unmasked, early>>
      /\ \/ /\ snapState # "NotStarted" /\ main' = "save" /\ UNCHANGED <<snapState, loader, starting>>
         \/ /\ snapState = "NotStarted" /\ mode.load /\ main' = "mark" /\ loader' = "download"
            /\ UNCHANGED <<snapState, starting>>
         \/ /\ snapState = "NotStarted" /\ ~mode.load /\ main' = "save"
            /\ snapState' = "FinishedAndCleanedUp" /\ starting' = FALSE /\ UNCHANGED loader
  BY DEF ProcessSnapshotIfNeeded
<1>3. "masks" \notin saver["main"].todo
  BY OrderArrival, OrderFacts
<1>4. CASE snapState # "NotStarted"
  BY <1>1, <1>2, <1>3, <1>4 DEF StartPhase, SlotsSaved, OneShotPhase, WithoutLoad, LoadPhase, IsStartup
<1>5. CASE snapState = "NotStarted" /\ mode.load
  <2>1. head = mode.quiet
    BY <1>1, <1>5 DEF StartPhase, SlotsSaved, OneShotPhase, WithoutLoad, LoadPhase
  <2> QED
    BY <1>1, <1>2, <1>3, <1>5, <2>1 DEF StartPhase, SlotsSaved, OneShotPhase, WithoutLoad, LoadPhase, IsStartup
<1>6. CASE snapState = "NotStarted" /\ ~mode.load
  BY <1>1, <1>2, <1>3, <1>6 DEF StartPhase, SlotsSaved, OneShotPhase, WithoutLoad, LoadPhase, IsStartup
<1> QED
  BY <1>4, <1>5, <1>6

\* The phase when save_block takes the block in: startup has begun by then.
LEMMA PhaseTaken ==
  ASSUME StartType, StartOrder, StartPhase, SaveBlock
  PROVE  /\ StartPhase' /\ snapState # "NotStarted"
         /\ head \in unmasked' <=> IsStartup
         /\ head \in early' => mode.load /\ IsStartup
         /\ head \in early' <=> unread # {} \/ loader = "download"
         /\ unmasked' = IF IsStartup THEN unmasked \cup {head} ELSE unmasked
         /\ early' = IF unread # {} \/ loader = "download" THEN early \cup {head} ELSE early
<1>1. /\ Begun' = head /\ Begun = head - 1 /\ head \in Nat /\ mode.quiet \in Nat /\ head \in Slots
  BY StartFacts, OrderTaken, StreamSlot DEF SaveBlock
<1>2. /\ main = "save" /\ main' = "wait" /\ mode.quiet < head
      /\ UNCHANGED <<mode, accounts, snapshot, head, finalTip, snapState, loader, unread, scanned, versions,
                     cache, oneShot, starting>>
  BY DEF SaveBlock, StartOrder
<1>3. unmasked' = IF IsStartup THEN unmasked \cup {head} ELSE unmasked
  BY DEF SaveBlock, MaskWork, AllWork
<1>4. early' = IF unread # {} \/ loader = "download" THEN early \cup {head} ELSE early
  BY DEF SaveBlock
<1>5. snapState # "NotStarted"
  BY <1>1, <1>2 DEF StartPhase, SlotsSaved, OneShotPhase, WithoutLoad, LoadPhase
<1>6. "masks" \in saver'["main"].todo => ~IsStartup
  <2>1. update[head] \in [Keys -> AllUpdates] /\ MaskWork \in SUBSET AllWork
    BY StreamSlot DEF SaveBlock, MaskWork, AllWork
  <2>2. saver'["main"] = [busy |-> TRUE, slot |-> head, open |-> OpenBy(update[head]),
                          closed |-> ClosedBy(update[head], head), todo |-> MaskWork]
    BY <1>1, <2>1, BlockStarted DEF SaveBlock
  <2> QED
    BY <2>2 DEF MaskWork
<1>7. head \notin unmasked /\ head \notin early
  BY <1>1 DEF StartPhase, SlotsSaved, OneShotPhase, WithoutLoad, LoadPhase
<1>8. unread # {} \/ loader = "download" => mode.load /\ IsStartup
  BY DEF StartPhase, SlotsSaved, OneShotPhase, WithoutLoad, LoadPhase
<1>9. /\ unmasked' \subseteq (mode.quiet + 1)..Begun' /\ early' \subseteq unmasked'
      /\ \A s \in (mode.quiet + 1)..Begun' : s \notin unmasked' => ~IsStartup
      /\ loader \in {"none", "download"} /\ mode.load => (mode.quiet + 1)..Begun' \subseteq early'
  BY <1>1, <1>2, <1>3, <1>4, <1>8 DEF StartPhase, SlotsSaved, OneShotPhase, WithoutLoad, LoadPhase
<1>10. IsStartup' = IsStartup
  BY <1>2 DEF IsStartup
<1>11. StartPhase'
  <2>1. SlotsSaved'
    BY <1>1, <1>2, <1>3, <1>5, <1>6, <1>7, <1>9, <1>10 DEF StartPhase, SlotsSaved
  <2>2. OneShotPhase' /\ LoadPhase'
    BY <1>1, <1>2, <1>9, <1>10 DEF StartPhase, OneShotPhase, LoadPhase
  <2>3. WithoutLoad'
    BY <1>1, <1>2, <1>3, <1>10 DEF StartPhase, WithoutLoad, IsStartup
  <2> QED
    BY <2>1, <2>2, <2>3 DEF StartPhase
<1> QED
  BY <1>3, <1>4, <1>5, <1>7, <1>8, <1>11

\* The phase when the block's writes are issued.
LEMMA PhaseWrites ==
  ASSUME StartType, StartOrder, StartPhase, SaveMasks("main") \/ SaveRows("main") \/ SaveConfirm("main"),
         UNCHANGED <<loadVars, cacheVars>>
  PROVE  StartPhase' /\ (SaveMasks("main") => ~IsStartup /\ main = "wait" /\ head \notin unmasked)
<1>0. IsStartup' = IsStartup
  BY DEF IsStartup
<1>1. CASE SaveMasks("main")
  <2>1. /\ Begun' = Begun /\ Begun = head /\ Busy("main") /\ saver'["main"].todo \subseteq saver["main"].todo
        /\ UNCHANGED <<mode, snapshot, head, finalTip>> /\ main = "wait" /\ head \in Slots
        /\ mode.quiet < head
    BY <1>1, OrderWrites, OrderFacts DEF StartOrder
  <2>2. "masks" \in saver["main"].todo
    BY <1>1 DEF SaveMasks
  <2>3. ~IsStartup /\ head \notin unmasked
    BY <2>1, <2>2, StartFacts DEF StartPhase, SlotsSaved, OneShotPhase, WithoutLoad, LoadPhase
  <2> QED
    BY <1>0, <2>1, <2>3 DEF StartPhase, SlotsSaved, OneShotPhase, WithoutLoad, LoadPhase
<1>2. CASE SaveRows("main")
  <2>1. /\ Begun' = Begun /\ saver'["main"].todo \subseteq saver["main"].todo
        /\ UNCHANGED <<mode, snapshot, head, finalTip>>
    BY <1>2, OrderWrites
  <2>2. \A r \in accounts' : ~r.open => r \in accounts
    BY <1>2, RowsInserted DEF OpenRows
  <2>3. SaveMasks("main") => ~IsStartup /\ main = "wait" /\ head \notin unmasked
    BY <1>1, <2>1, OrderWrites, OrderFacts, StartFacts DEF StartPhase, SlotsSaved, OneShotPhase, WithoutLoad, LoadPhase, StartOrder, SaveMasks
  <2> QED
    BY <1>0, <2>1, <2>2, <2>3 DEF StartPhase, SlotsSaved, OneShotPhase, WithoutLoad, LoadPhase
<1>3. CASE SaveConfirm("main") /\ ~SaveMasks("main")
  <2>1. Begun' = Begun /\ saver'["main"] = Idle /\ Idle.todo = {}
    BY <1>3, OrderConfirmed DEF Idle
  <2>2. UNCHANGED <<mode, accounts, snapshot, head, finalTip>>
    BY <1>3 DEF SaveConfirm
  <2> QED
    BY <1>0, <1>3, <2>1, <2>2 DEF StartPhase, SlotsSaved, OneShotPhase, WithoutLoad, LoadPhase
<1> QED
  BY <1>1, <1>2, <1>3

\* The phase through the load.
LEMMA PhaseLoad ==
  ASSUME StartType, StartOrder, StartPhase, MarkStarted \/ Loader
  PROVE  /\ StartPhase'
         /\ Loader => mode.load /\ IsStartup /\ mode.quiet < head
         /\ MarkStarted => mode.load /\ head = mode.quiet + 1 /\ IsStartup'
<1>1. /\ Begun' = Begun /\ Begun \in Nat /\ mode.quiet <= head /\ head \in Nat /\ mode.quiet \in Nat
      /\ UNCHANGED <<mode, head, saver, finalTip, unmasked, early>> /\ (MarkStarted \/ UNCHANGED main)
  BY OrderElse, OrderFacts, StartFacts DEF StartOrder
<1>2. CASE MarkStarted
  <2>1. /\ main = "mark" /\ main' = "save" /\ snapState' = "Started"
        /\ UNCHANGED <<accounts, snapshot, loader, unread, scanned, versions, cache, oneShot, starting>>
    BY <1>2 DEF MarkStarted
  <2>2. Begun = mode.quiet
    BY <1>1, <2>1 DEF StartPhase, SlotsSaved, OneShotPhase, WithoutLoad, LoadPhase, Begun
  <2>3. ~ Loader
    BY <2>1 DEF Loader, Download, ReadAccount, InsertAccount, CleanUpDuplicatedAccounts,
                CleanUpClosedAccounts, LoadFinished
  <2> QED
    BY <1>1, <1>2, <2>1, <2>2, <2>3 DEF StartPhase, SlotsSaved, OneShotPhase, WithoutLoad, LoadPhase, IsStartup
<1>3. CASE Loader
  <2>0. loader \notin {"none", "done"}
    BY <1>3 DEF Loader, Download, ReadAccount, InsertAccount, CleanUpDuplicatedAccounts,
                CleanUpClosedAccounts, LoadFinished
  <2>1. mode.load /\ IsStartup /\ mode.quiet < head
    BY <1>1, <2>0 DEF StartPhase, SlotsSaved, OneShotPhase, WithoutLoad, LoadPhase
  <2>2. ~ MarkStarted
    BY <1>3 DEF MarkStarted, Loader, Download, ReadAccount, InsertAccount, CleanUpDuplicatedAccounts,
                CleanUpClosedAccounts, LoadFinished
  <2>3. oneShot.at = "none" /\ \A r \in accounts : r.open
    BY <2>1 DEF StartPhase, SlotsSaved, OneShotPhase, WithoutLoad, LoadPhase
  <2>4. UNCHANGED <<accounts, cache, oneShot, starting, main>>
    BY <1>3 DEF Loader, Download, ReadAccount, InsertAccount, CleanUpDuplicatedAccounts,
                CleanUpClosedAccounts, LoadFinished
  <2>5. CASE Download
    <3>1. loader = "download" /\ loader' = "files" /\ UNCHANGED <<snapState, snapshot, scanned, versions>>
      BY <2>5 DEF Download
    <3> QED
      BY <1>1, <2>1, <2>2, <2>3, <2>4, <3>1 DEF StartPhase, SlotsSaved, OneShotPhase, WithoutLoad, LoadPhase, IsStartup
  <2>6. CASE (\E v \in unread : ReadAccount(v)) \/ \E v \in scanned : InsertAccount(v)
    <3>1. loader = "files" /\ loader' = loader /\ UNCHANGED snapState
      BY <2>6 DEF ReadAccount, InsertAccount
    <3> QED
      BY <1>1, <2>1, <2>2, <2>3, <2>4, <3>1 DEF StartPhase, SlotsSaved, OneShotPhase, WithoutLoad, LoadPhase, IsStartup
  <2>7. CASE CleanUpDuplicatedAccounts
    <3>1. /\ loader = "files" /\ loader' = "closed" /\ unread = {} /\ scanned = {}
          /\ UNCHANGED <<snapState, unread, scanned>>
      BY <2>7 DEF CleanUpDuplicatedAccounts
    <3> QED
      BY <1>1, <2>1, <2>2, <2>3, <2>4, <3>1 DEF StartPhase, SlotsSaved, OneShotPhase, WithoutLoad, LoadPhase, IsStartup
  <2>8. CASE CleanUpClosedAccounts
    <3>1. loader = "closed" /\ loader' = "flip" /\ UNCHANGED <<snapState, unread, scanned>>
      BY <2>8 DEF CleanUpClosedAccounts
    <3> QED
      BY <1>1, <2>1, <2>2, <2>3, <2>4, <3>1 DEF StartPhase, SlotsSaved, OneShotPhase, WithoutLoad, LoadPhase, IsStartup
  <2>9. CASE LoadFinished
    <3>1. /\ loader = "flip" /\ loader' = "done" /\ snapState' = "Finished"
          /\ UNCHANGED <<snapshot, unread, scanned>>
      BY <2>9 DEF LoadFinished
    <3> QED
      BY <1>1, <2>1, <2>2, <2>3, <2>4, <3>1 DEF StartPhase, SlotsSaved, OneShotPhase, WithoutLoad, LoadPhase, IsStartup
  <2> QED
    BY <1>3, <2>5, <2>6, <2>7, <2>8, <2>9 DEF Loader
<1> QED
  BY <1>2, <1>3

\* The phase when a slot is finalized, and when its keys are queued.
LEMMA PhaseFinalize ==
  ASSUME StartType, StartOrder, StartPhase,
         (\E s \in Slots : FinalizeRow(s)) \/ FinalizeKeys
  PROVE  /\ StartPhase'
         /\ UNCHANGED <<mode, accounts, snapshot, head, main, saver, snapState, loader, unread, scanned,
                        versions, starting, unmasked, early, owners, changed, update, confirmed>>
         /\ \A s \in Slots : FinalizeRow(s) /\ ~CleanupDue => UNCHANGED <<oneShot, cache>>
         /\ \A s \in Slots : FinalizeRow(s) /\ CleanupDue =>
              /\ mode.load /\ oneShot.at = "none" /\ cache' = {}
              /\ oneShot' = [at |-> "run", keys |-> cache, cutoff |-> s]
<1>0. /\ mode.quiet \in Nat /\ finalTip \in Nat /\ head \in Nat
  BY StartFacts
<1>u. UNCHANGED <<mode, accounts, snapshot, head, main, saver, snapState, loader, unread, scanned,
                  versions, starting, unmasked, early, owners, changed, update, confirmed>>
  BY DEF FinalizeRow, FinalizeKeys
<1>1. ASSUME NEW s \in Slots, FinalizeRow(s)
      PROVE  /\ StartPhase'
             /\ ~CleanupDue => UNCHANGED <<oneShot, cache>>
             /\ CleanupDue => /\ mode.load /\ oneShot.at = "none" /\ cache' = {}
                              /\ oneShot' = [at |-> "run", keys |-> cache, cutoff |-> s]
  <2>1. /\ Begun' = Begun /\ finalTip < s /\ finalTip' = s /\ mode.quiet < s /\ s <= Done /\ s \in Nat
    BY <1>1, OrderFinalized, OrderFacts, StartFacts
  <2>2. CASE ~CleanupDue
    <3>1. UNCHANGED <<oneShot, cache>>
      BY <1>1, <2>2 DEF FinalizeRow, CleanupStoredAccountsOnce
    <3>2. oneShot.cutoff \in Nat
      BY StartFacts DEF StartType, OneShotType
    <3> QED
      BY <1>0, <1>u, <2>1, <2>2, <3>1, <3>2 DEF StartPhase, SlotsSaved, OneShotPhase, WithoutLoad, LoadPhase, IsStartup
  <2>3. CASE CleanupDue
    <3>1. /\ oneShot' = [at |-> "run", keys |-> cache, cutoff |-> s] /\ cache' = {}
          /\ ~IsStartup /\ cache # {}
      BY <1>1, <2>3 DEF FinalizeRow, CleanupStoredAccountsOnce, CleanupDue
    <3>2. oneShot.at = "none" /\ mode.load
      BY <3>1 DEF StartPhase, SlotsSaved, OneShotPhase, WithoutLoad, LoadPhase
    <3>3. main # "mark"
      <4> SUFFICES ASSUME main = "mark" PROVE FALSE
        OBVIOUS
      <4>1. head = mode.quiet + 1 /\ Done = head - 1
        BY OrderFacts DEF StartPhase, SlotsSaved, OneShotPhase, WithoutLoad, LoadPhase
      <4> QED
        BY <1>0, <2>1, <4>1
    <3>4. oneShot'.at = "run" /\ oneShot'.cutoff = s
      BY <3>1
    <3> QED
      BY <1>0, <1>u, <2>1, <2>3, <3>1, <3>2, <3>3, <3>4 DEF StartPhase, SlotsSaved, OneShotPhase, WithoutLoad, LoadPhase, IsStartup
  <2> QED
    BY <2>2, <2>3
<1>2. CASE FinalizeKeys
  <2>1. /\ Begun' = Begun /\ mode.quiet < head
    BY <1>0, <1>2, OrderQueued, OrderFacts, StartFacts DEF StartOrder
  <2>2. UNCHANGED <<oneShot, finalTip>> /\ (~IsStartup => cache' = cache)
    BY <1>2 DEF FinalizeKeys
  <2>3. \A s \in Slots : ~ FinalizeRow(s)
    BY <1>2 DEF FinalizeKeys, FinalizeRow
  <2> QED
    BY <1>0, <1>u, <2>1, <2>2, <2>3 DEF StartPhase, SlotsSaved, OneShotPhase, WithoutLoad, LoadPhase, IsStartup
<1>3. FinalizeKeys => \A s \in Slots : ~ FinalizeRow(s)
  BY DEF FinalizeKeys, FinalizeRow
<1> QED
  BY <1>u, <1>1, <1>2, <1>3

\* The phase through the cleanups.
LEMMA PhaseCleanup ==
  ASSUME StartType, StartOrder, StartPhase, OneShot \/ StartupDrain
  PROVE  /\ StartPhase'
         /\ OneShot => /\ mode.load /\ ~IsStartup /\ main # "mark" /\ loader = "done"
                       /\ UNCHANGED <<accounts, owners, changed, queue, loader, main, cache>>
         /\ snapshot' \subseteq snapshot /\ accounts' \subseteq accounts
<1>1. /\ Begun' = Begun /\ UNCHANGED <<mode, head, saver, finalTip, unmasked, early, main>>
      /\ finalTip <= head /\ finalTip \in Nat /\ head \in Nat /\ mode.quiet \in Nat
  <2>1. /\ Begun' = Begun /\ UNCHANGED <<mode, head, saver, finalTip, unmasked, early>>
        /\ MarkStarted \/ UNCHANGED main
    BY OrderElse
  <2>2. UNCHANGED main
    BY DEF OneShot, StartupDrain
  <2> QED
    BY <2>1, <2>2, OrderFacts, StartFacts
<1>2. CASE OneShot
  <2>1. oneShot.at = "run"
    BY <1>2 DEF OneShot
  <2>2. /\ mode.load /\ ~IsStartup /\ main # "mark" /\ cache = {} /\ loader = "done"
        /\ mode.quiet < oneShot.cutoff /\ oneShot.cutoff <= finalTip
    BY <2>1 DEF StartPhase, SlotsSaved, OneShotPhase, WithoutLoad, LoadPhase
  <2>3. UNCHANGED <<accounts, owners, changed, queue, loader, unread, scanned, versions, main, cache>>
        /\ snapshot' \subseteq snapshot
    BY <1>2 DEF OneShot, BelowUniformCutoff
  <2>4. oneShot'.cutoff = oneShot.cutoff
        /\ \/ oneShot'.at = "done" /\ snapState' = "FinishedAndCleanedUp" /\ starting' = FALSE
           \/ oneShot'.at = "failed" /\ UNCHANGED <<snapState, starting>>
    BY <1>2 DEF OneShot, StartType, OneShotType
  <2>5. oneShot.cutoff \in Nat
    BY StartFacts DEF StartType, OneShotType
  <2> QED
    BY <1>1, <2>1, <2>2, <2>3, <2>4, <2>5 DEF StartPhase, SlotsSaved, OneShotPhase, WithoutLoad, LoadPhase, IsStartup
<1>3. CASE StartupDrain /\ ~OneShot
  <2>1. /\ UNCHANGED <<snapState, loader, unread, scanned, versions, cache, oneShot, starting>>
        /\ snapshot' \subseteq snapshot /\ accounts' \subseteq accounts
    BY <1>3 DEF StartupDrain, DeleteBelow
  <2> QED
    BY <1>1, <1>3, <2>1 DEF StartPhase, SlotsSaved, OneShotPhase, WithoutLoad, LoadPhase, IsStartup
<1> QED
  BY <1>2, <1>3

\* The phase holds at every step.
LEMMA StartPhaseStep ==
  ASSUME StartType, StartOrder, StartPhase, [StartupNext]_startupVars
  PROVE  StartPhase'
<1>1. CASE \E b \in Carries : ProcessSnapshotIfNeeded(b)
  BY <1>1, PhaseArrival
<1>2. CASE SaveBlock
  BY <1>2, PhaseTaken
<1>3. CASE SaveWrites
  BY <1>3, PhaseWrites DEF SaveWrites
<1>4. CASE MarkStarted \/ Loader
  BY <1>4, PhaseLoad
<1>5. CASE Finalizer
  BY <1>5, PhaseFinalize DEF Finalizer
<1>6. CASE OneShot \/ StartupDrain
  BY <1>6, PhaseCleanup
<1>7. CASE UNCHANGED startupVars
  BY <1>7 DEF startupVars, StartPhase, SlotsSaved, OneShotPhase, WithoutLoad, LoadPhase, Begun,
              IsStartup
<1> QED
  BY <1>1, <1>2, <1>3, <1>4, <1>5, <1>6, <1>7 DEF StartupNext, MainLoop

\* The statements of save_block, one at a time.
WriteMasks == SaveMasks("main") /\ UNCHANGED <<loadVars, cacheVars>>
WriteRows == SaveRows("main") /\ UNCHANGED <<loadVars, cacheVars>>
WriteConfirmed == SaveConfirm("main") /\ UNCHANGED <<loadVars, cacheVars>>

\* Which steps change what.
LEMMA Changers ==
  ASSUME [StartupNext]_startupVars
  PROVE  /\ UNCHANGED <<head, update>> \/ \E b \in Carries : ProcessSnapshotIfNeeded(b)
         /\ UNCHANGED <<owners, changed>> \/ SaveBlock \/ WriteMasks \/ \E v \in unread : ReadAccount(v)
         /\ UNCHANGED blocks \/ SaveBlock \/ WriteConfirmed \/ FinalizeKeys
         /\ UNCHANGED accounts \/ WriteMasks \/ WriteRows \/ StartupDrain
         /\ \/ UNCHANGED snapshot \/ (\E v \in scanned : InsertAccount(v)) \/ CleanUpDuplicatedAccounts
            \/ CleanUpClosedAccounts \/ OneShot \/ StartupDrain
         /\ UNCHANGED queue \/ FinalizeKeys \/ StartupDrain
         /\ UNCHANGED saver \/ SaveBlock \/ WriteMasks \/ WriteRows \/ WriteConfirmed
         /\ UNCHANGED finalTip \/ \E s \in Slots : FinalizeRow(s)
         /\ \/ UNCHANGED <<unread, scanned>> \/ Download \/ (\E v \in unread : ReadAccount(v))
            \/ \E v \in scanned : InsertAccount(v)
         /\ UNCHANGED <<cache, oneShot>> \/ (\E s \in Slots : FinalizeRow(s)) \/ FinalizeKeys \/ OneShot
         /\ UNCHANGED mode
<1>1. ASSUME NEW b \in Carries, ProcessSnapshotIfNeeded(b)
      PROVE  UNCHANGED <<mode, owners, changed, blocks, accounts, snapshot, queue, saver, finalTip, unread, scanned, cache,
                         oneShot>>
  BY <1>1 DEF ProcessSnapshotIfNeeded
<1>2. CASE MarkStarted \/ LoadFinished
  BY <1>2 DEF MarkStarted, LoadFinished
<1>3. CASE SaveBlock
  BY <1>3 DEF SaveBlock
<1>4. CASE WriteMasks
  <2>1. UNCHANGED <<mode, snapshot, queue, update, head, blocks, finalTip>>
    BY <1>4 DEF SaveMasks, WriteMasks
  <2> QED
    BY <1>4, <2>1 DEF WriteMasks
<1>5. CASE WriteRows
  <2>1. UNCHANGED <<mode, snapshot, queue, update, head, owners, changed, blocks, finalTip>>
    BY <1>5 DEF SaveRows, WriteRows
  <2> QED
    BY <1>5, <2>1 DEF WriteRows
<1>6. CASE WriteConfirmed
  <2>1. UNCHANGED <<mode, accounts, snapshot, queue, update, head, owners, changed, finalTip>>
    BY <1>6 DEF SaveConfirm, WriteConfirmed
  <2> QED
    BY <1>6, <2>1 DEF WriteConfirmed
<1>7. CASE Download
  BY <1>7 DEF Download
<1>8. CASE \E v \in unread : ReadAccount(v)
  BY <1>8 DEF ReadAccount
<1>9. CASE \E v \in scanned : InsertAccount(v)
  BY <1>9 DEF InsertAccount
<1>10. CASE CleanUpDuplicatedAccounts
  BY <1>10 DEF CleanUpDuplicatedAccounts
<1>11. CASE CleanUpClosedAccounts
  BY <1>11 DEF CleanUpClosedAccounts
<1>12. CASE \E s \in Slots : FinalizeRow(s)
  BY <1>12 DEF FinalizeRow
<1>13. CASE FinalizeKeys
  BY <1>13 DEF FinalizeKeys
<1>14. CASE OneShot
  BY <1>14 DEF OneShot
<1>15. CASE StartupDrain
  BY <1>15 DEF StartupDrain
<1>16. CASE UNCHANGED startupVars
  BY <1>16 DEF startupVars
<1> QED
  BY <1>1, <1>2, <1>3, <1>4, <1>5, <1>6, <1>7, <1>8, <1>9, <1>10, <1>11, <1>12, <1>13, <1>14, <1>15,
     <1>16, StartSteps DEF WriteMasks, WriteRows, WriteConfirmed

\* The chain only grows, and so does the finalized slot.
LEMMA StartGrows ==
  ASSUME StartType, StartOrder, [StartupNext]_startupVars
  PROVE  /\ head \in Nat /\ head' \in Nat /\ head <= head' /\ head' <= MaxSlot /\ MaxSlot \in Nat
         /\ finalTip \in Nat /\ finalTip' \in Nat /\ finalTip <= finalTip' /\ mode' = mode
         /\ mode.quiet \in Nat /\ mode.quiet <= head
         /\ \A s \in 0..head : update'[s] = update[s]
         /\ head' = head \/ head' = head + 1
<1>0. /\ head \in Nat /\ finalTip \in Nat /\ MaxSlot \in Nat /\ head <= MaxSlot /\ mode.quiet \in Nat
      /\ mode.quiet <= head /\ mode' = mode
  BY StartFacts, Changers DEF StartOrder
<1>1. ASSUME NEW b \in Carries, ProcessSnapshotIfNeeded(b)
      PROVE  /\ head' = head + 1 /\ head' <= MaxSlot /\ \A s \in 0..head : update'[s] = update[s]
  <2>1. /\ head' = head + 1 /\ head' \in 0..MaxSlot
        /\ \A s \in 0..MaxSlot : s # head' => update'[s] = update[s]
    BY <1>1, OrderArrival
  <2> QED
    BY <1>0, <2>1
<1>2. finalTip' \in Nat /\ finalTip <= finalTip'
  <2>1. ASSUME NEW s \in Slots, FinalizeRow(s) PROVE finalTip' \in Nat /\ finalTip <= finalTip'
    BY <1>0, <2>1, OrderFinalized, StartFacts
  <2> QED
    BY <1>0, <2>1, Changers
<1>3. UNCHANGED <<head, update>> \/ \E b \in Carries : ProcessSnapshotIfNeeded(b)
  BY Changers
<1> QED
  BY <1>0, <1>1, <1>2, <1>3

----------------------------------------------------------------------------
(* What stems from the chain                                               *)

\* A recorded block holds what the chain did in its slot.
BlockOk(b, s) ==
  /\ \A o \in b.open : update[s][o.key] = o.owner
  /\ \A k \in b.closed : update[s][k] \in Gone
  /\ \A p \in b.pairs : update[s][p.key] \notin {"none", p.owner}

\* Rows of the stream are of slots of the stream.
StreamRowsFollow == \A r \in accounts : RowFollowsChain(r) /\ mode.quiet < r.slot

\* Open rows of the pair are writes of the chain, and so is what is not inserted yet.
PairFollows ==
  /\ \A r \in snapshot : r.open => r.owner \in Owners /\ r.slot <= head /\ update[r.slot][r.key] = r.owner
  /\ \A v \in unread \cup scanned : v.slot <= head /\ update[v.slot][v.key] # "none"

\* What is queued is of finalized slots.
QueueFollows == \A i \in queue : ItemFollowsChain(i)

\* save_block writes what the block holds.
WritesFollow ==
  Busy("main") => /\ saver["main"].open = OpenBy(update[head])
                  /\ \A k \in saver["main"].closed : update[head][k] \in Gone
                  /\ blocks[head].closed = saver["main"].closed

\* Without the owner map it stays empty.
MapUnused == ~mode.map => changed = {} /\ \A k \in Keys : owners[k] = NoEntry

\* The one-shot deletes keys that a finalized slot touched.
CacheFollows ==
  \A k \in (cache \cup oneShot.keys) \cap Keys :
    \E s \in (mode.quiet + 1)..finalTip : Touched(k, s)

\* Together.
StartHistory ==
  /\ BlocksFollowChain /\ ChangedFollowsChain /\ StreamRowsFollow /\ PairFollows
  /\ QueueFollows /\ WritesFollow /\ MapUnused /\ CacheFollows

\* The start has no history.
LEMMA StartHistoryInit == StartupInit => StartHistory
<1> SUFFICES ASSUME StartupInit PROVE StartHistory
  OBVIOUS
<1>1. /\ accounts = {} /\ snapshot = {} /\ queue = {} /\ unread = {} /\ scanned = {} /\ cache = {}
      /\ oneShot = [at |-> "none", keys |-> {}, cutoff |-> 0]
      /\ changed = {} /\ owners = [k \in Keys |-> NoEntry]
      /\ blocks = [s \in Slots |-> NoBlock] /\ saver = [t \in {"main", "fill"} |-> Idle]
  BY DEF StartupInit, CleanupInit
<1>2. BlocksFollowChain
  BY <1>1 DEF BlocksFollowChain, NoBlock
<1>3. ~Busy("main")
  BY <1>1 DEF Busy, Idle
<1>4. oneShot.keys = {}
  BY <1>1
<1> QED
  BY <1>1, <1>2, <1>3, <1>4 DEF StartHistory, ChangedFollowsChain, StreamRowsFollow, PairFollows, QueueFollows,
                         WritesFollow, MapUnused, CacheFollows

\* What save_block records of the newest block is what the chain did there.
LEMMA TakenFollows ==
  ASSUME StartType, StartOrder, ChangedFollowsChain, SaveBlock
  PROVE  /\ head \in Slots
         /\ BlockOk(blocks'[head], head)
         /\ \A c \in changed' : c.slot <= head /\ update[c.slot][c.key] \notin {"none", c.owner}
         /\ saver'["main"].open = OpenBy(update[head])
         /\ \A k \in saver'["main"].closed : update[head][k] \in Gone
         /\ blocks'[head].closed = saver'["main"].closed
<1> DEFINE block == update[head]
<1>0. /\ Owners \cap {"none", "other", "closed"} = {} /\ owners \in [Keys -> Entry]
      /\ changed \subseteq [slot : Slots, key : Keys, owner : Owners] /\ head \in Nat
  BY StoreAssumption, StartFacts DEF StartType
<1>1. /\ head \in Slots /\ block \in [Keys -> AllUpdates] /\ MaskWork \in SUBSET AllWork
      /\ SaveStart("main", head, block, MaskWork)
  BY StreamSlot DEF SaveBlock, MaskWork, AllWork
<1>2. /\ saver'["main"] = [busy |-> TRUE, slot |-> head, open |-> OpenBy(block),
                           closed |-> ClosedBy(block, head), todo |-> MaskWork]
      /\ blocks'[head] = [saved |-> FALSE, open |-> OpenBy(block), closed |-> ClosedBy(block, head),
                          pairs |-> IF mode.map THEN PairsBy(block, head) ELSE {}]
      /\ changed' = changed \cup ChangedBy(block, head)
  BY <1>1, BlockStarted
<1>3. \A o \in OpenBy(block) : block[o.key] = o.owner
  BY DEF OpenBy
<1>4. \A k \in ClosedBy(block, head) : k \in Keys /\ block[k] \in Gone
  BY DEF ClosedBy, Gone
<1>5. \A c \in ChangedBy(block, head) : c.slot = head /\ block[c.key] \notin {"none", c.owner}
  BY <1>0 DEF ChangedBy, OwnerMoved
<1>6. \A c \in changed : c.slot <= head /\ update[c.slot][c.key] \notin {"none", c.owner}
  BY DEF ChangedFollowsChain
<1>7. ASSUME NEW p \in PairsBy(block, head) PROVE block[p.key] \notin {"none", p.owner}
  <2>1. CASE \E k \in ClosedBy(block, head) : /\ Upsert(block, head)[k] # NoEntry
                                              /\ p = [key |-> k, owner |-> Upsert(block, head)[k].owner]
    <3>1. PICK k \in ClosedBy(block, head) : /\ Upsert(block, head)[k] # NoEntry
                                            /\ p = [key |-> k, owner |-> Upsert(block, head)[k].owner]
      BY <2>1
    <3>2. Upsert(block, head)[k] \in Entry
      BY <1>0, <1>1, <1>4, StartFacts DEF Upsert, Entry
    <3>3. p.owner \in Owners /\ p.key = k
      BY <3>1, <3>2 DEF Entry
    <3> QED
      BY <1>0, <1>4, <3>3 DEF Gone
  <2>2. CASE \E c \in changed \cup ChangedBy(block, head) :
               c.slot = head /\ p = [key |-> c.key, owner |-> c.owner]
    BY <1>5, <1>6, <2>2
  <2> QED
    BY <2>1, <2>2 DEF PairsBy
<1> HIDE DEF block
<1>8. /\ saver'["main"].open = OpenBy(block) /\ saver'["main"].closed = ClosedBy(block, head)
      /\ blocks'[head].open = OpenBy(block) /\ blocks'[head].closed = ClosedBy(block, head)
      /\ \A p \in blocks'[head].pairs : p \in PairsBy(block, head)
  BY <1>2
<1>9. BlockOk(blocks'[head], head)
  BY <1>3, <1>4, <1>7, <1>8 DEF BlockOk, block
<1> QED
  BY <1>0, <1>1, <1>2, <1>4, <1>5, <1>6, <1>8, <1>9 DEF block

\* Recorded blocks stay what the chain did.
LEMMA BlocksFollowStep ==
  ASSUME StartType, StartOrder, StartHistory, [StartupNext]_startupVars
  PROVE  BlocksFollowChain'
<1>0. /\ head \in Nat /\ \A s \in 0..head : update'[s] = update[s]
  BY StartGrows
<1>1. ASSUME NEW s \in Slots, blocks[s] # NoBlock PROVE s \in 0..head
  BY <1>0, <1>1, OrderFacts, StartFacts DEF StartOrder
<1>n. \A s \in Slots : BlockOk(NoBlock, s)'
  BY DEF BlockOk, NoBlock
<1>2. \A s \in Slots : BlockOk(blocks[s], s)
  BY DEF StartHistory, BlocksFollowChain, BlockOk
<1>3. ASSUME NEW s \in Slots, blocks'[s] = blocks[s] PROVE BlockOk(blocks[s], s)'
  <2>1. CASE blocks[s] = NoBlock
    BY <1>3, <1>n, <2>1 DEF BlockOk
  <2>2. CASE blocks[s] # NoBlock
    <3>1. update'[s] = update[s]
      BY <1>0, <1>1, <2>2
    <3> QED
      BY <1>2, <1>3, <3>1 DEF BlockOk
  <2> QED
    BY <2>1, <2>2
<1>4. CASE UNCHANGED blocks
  BY <1>3, <1>4 DEF BlocksFollowChain, BlockOk
<1>5. CASE SaveBlock
  <2>1. head \in Slots /\ BlockOk(blocks'[head], head) /\ update' = update
    BY <1>5, TakenFollows DEF StartHistory, SaveBlock
  <2>2. \A u \in Slots : u # head => blocks'[u] = blocks[u]
    <3>1. /\ SaveStart("main", head, update[head], MaskWork) /\ update[head] \in [Keys -> AllUpdates]
          /\ MaskWork \in SUBSET AllWork
      BY <1>5, StreamSlot DEF SaveBlock, MaskWork, AllWork
    <3> QED
      BY <2>1, <3>1, BlockStarted
  <2>3. \A u \in Slots : BlockOk(blocks'[u], u)
    BY <1>2, <2>1, <2>2
  <2> QED
    BY <2>1, <2>3 DEF BlocksFollowChain, BlockOk
<1>6. CASE WriteConfirmed
  <2>1. /\ blocks'[head] = [blocks[head] EXCEPT !.saved = TRUE] /\ update' = update
        /\ \A u \in Slots : u # head => blocks'[u] = blocks[u]
    BY <1>6, OrderConfirmed DEF WriteConfirmed, SaveConfirm
  <2>2. ASSUME NEW u \in Slots
        PROVE  /\ blocks'[u].open = blocks[u].open /\ blocks'[u].closed = blocks[u].closed
               /\ blocks'[u].pairs = blocks[u].pairs
    <3>1. blocks[u] \in BlockData
      BY DEF StartType
    <3> QED
      BY <2>1, <3>1 DEF BlockData
  <2> QED
    BY <1>2, <2>1, <2>2 DEF BlocksFollowChain, BlockOk
<1>7. CASE FinalizeKeys
  <2>1. blocks'[fin] = NoBlock /\ \A u \in Slots : u # fin => blocks'[u] = blocks[u]
    BY <1>7, OrderQueued
  <2>2. update' = update
    BY <1>7 DEF FinalizeKeys
  <2>3. \A u \in Slots : BlockOk(blocks'[u], u)
    BY <1>2, <1>n, <2>1, <2>2 DEF BlockOk
  <2> QED
    BY <2>2, <2>3 DEF BlocksFollowChain, BlockOk
<1> QED
  BY <1>4, <1>5, <1>6, <1>7, Changers

\* So do the changes the owner map noted, those of the load's accounts too.
LEMMA ChangedFollowsStep ==
  ASSUME StartType, StartOrder, StartHistory, [StartupNext]_startupVars
  PROVE  ChangedFollowsChain'
<1>0. /\ head \in Nat /\ head' \in Nat /\ head <= head' /\ \A s \in 0..head : update'[s] = update[s]
  BY StartGrows
<1>1. changed \subseteq [slot : Slots, key : Keys, owner : Owners]
  BY DEF StartType
<1>2. \A c \in changed : c.slot \in 0..head /\ update[c.slot][c.key] \notin {"none", c.owner}
  BY <1>0, <1>1, StartFacts DEF StartHistory, ChangedFollowsChain
<1>3. ASSUME \A c \in changed' : c.slot \in 0..head /\ update[c.slot][c.key] \notin {"none", c.owner}
      PROVE  ChangedFollowsChain'
  BY <1>0, <1>3 DEF ChangedFollowsChain
<1>4. CASE UNCHANGED <<owners, changed>>
  BY <1>2, <1>3, <1>4
<1>5. CASE SaveBlock
  <2>1. \A c \in changed' : c.slot <= head /\ update[c.slot][c.key] \notin {"none", c.owner}
    BY <1>5, TakenFollows DEF StartHistory
  <2>2. update' = update /\ head' = head
    BY <1>5 DEF SaveBlock
  <2> QED
    BY <2>1, <2>2 DEF ChangedFollowsChain
<1>6. CASE WriteMasks
  <2>1. changed' \subseteq changed
    BY <1>6 DEF WriteMasks, SaveMasks
  <2> QED
    BY <1>2, <1>3, <2>1
<1>7. ASSUME NEW v \in unread, ReadAccount(v) PROVE ChangedFollowsChain'
  <2>1. v.slot <= head /\ v.slot \in Nat /\ v.key \in Keys
    BY StartFacts DEF StartHistory, PairFollows, StartType, Version
  <2>2. ASSUME NEW c \in changed', c \notin changed
        PROVE  c.slot = v.slot /\ c.key = v.key /\ update[v.slot][v.key] \notin {"none", c.owner}
    <3>1. /\ update[v.slot][v.key] \in Owners /\ OwnerMoved(v.key, update[v.slot][v.key], v.slot)
          /\ c = [slot |-> v.slot, key |-> v.key, owner |-> owners[v.key].owner]
      BY <1>7, <2>2 DEF ReadAccount
    <3> QED
      BY <3>1, StartFacts DEF OwnerMoved
  <2> QED
    BY <1>0, <1>2, <1>3, <2>1, <2>2
<1> QED
  BY <1>4, <1>5, <1>6, <1>7, Changers

\* So do the rows and masks of the stream.
LEMMA StreamRowsStep ==
  ASSUME StartType, StartOrder, StartHistory, [StartupNext]_startupVars
  PROVE  StreamRowsFollow'
<1>0. /\ head \in Nat /\ head' \in Nat /\ head <= head' /\ \A s \in 0..head : update'[s] = update[s]
      /\ mode' = mode /\ Owners \cap {"none", "closed", "other"} = {}
  BY StartGrows, StoreAssumption
<1>1. \A r \in accounts : RowFollowsChain(r) /\ mode.quiet < r.slot /\ r.slot \in Nat
  BY StartFacts DEF StartHistory, StreamRowsFollow, StartType, Row
<1>2. ASSUME \A r \in accounts' : RowFollowsChain(r) /\ mode.quiet < r.slot /\ r.slot \in Nat
      PROVE  StreamRowsFollow'
  <2>1. ASSUME NEW r \in accounts' PROVE RowFollowsChain(r)'
    BY <1>0, <1>2 DEF RowFollowsChain
  <2> QED
    BY <1>0, <1>2, <2>1 DEF StreamRowsFollow
<1>3. CASE UNCHANGED accounts \/ StartupDrain
  <2>1. accounts' \subseteq accounts
    BY <1>3 DEF StartupDrain, DeleteBelow
  <2> QED
    BY <1>1, <1>2, <2>1
<1>4. CASE WriteMasks \/ WriteRows
  <2>1. Busy("main") /\ saver["main"].slot = head /\ mode.quiet < head /\ head # 0 /\ head <= head
    BY <1>0, <1>4, OrderWrites, StartFacts DEF WriteMasks, WriteRows, StartOrder
  <2>2. /\ saver["main"].open = OpenBy(update[head])
        /\ \A k \in saver["main"].closed : update[head][k] \in Gone
        /\ saver["main"].closed \subseteq Keys
    BY <2>1, StartFacts DEF StartHistory, WritesFollow, StartType, Saving
  <2>3. ASSUME NEW r \in accounts', r \notin accounts
        PROVE  r.slot = head /\ RowFollowsChain(r)
    <3>1. CASE WriteRows
      <4>1. r \in OpenRows("main")
        BY <2>3, <3>1, RowsInserted DEF WriteRows
      <4>2. PICK o \in OpenBy(update[head]) : r = [key |-> o.key, owner |-> o.owner, slot |-> head, open |-> TRUE]
        BY <2>1, <2>2, <4>1 DEF OpenRows
      <4>3. update[head][o.key] = o.owner
        BY <4>2 DEF OpenBy
      <4> QED
        BY <2>1, <4>2, <4>3 DEF RowFollowsChain
    <3>2. CASE WriteMasks
      <4>1. \/ r \in RoutedMasks("main")
            \/ \E m \in MaskByScan(saver["main"].closed, saver["main"].slot) : r \in m
        BY <2>3, <3>2, MasksInserted DEF WriteMasks
      <4>2. CASE \E k \in saver["main"].closed : /\ Known(k)
               /\ r = [key |-> k, owner |-> owners[k].owner, slot |-> head, open |-> FALSE]
        <5>1. PICK k \in saver["main"].closed : /\ Known(k)
               /\ r = [key |-> k, owner |-> owners[k].owner, slot |-> head, open |-> FALSE]
          BY <4>2
        <5>2. owners[k].owner \in Owners
          BY <2>2, <5>1, StartFacts
        <5>3. update[head][k] \in Gone
          BY <2>2
        <5> QED
          BY <1>0, <2>1, <5>1, <5>2, <5>3 DEF RowFollowsChain, Gone
      <4>3. CASE \E c \in changed : /\ c.slot = head
               /\ r = [key |-> c.key, owner |-> c.owner, slot |-> head, open |-> FALSE]
        BY <2>1, <4>3 DEF RowFollowsChain, StartHistory, ChangedFollowsChain
      <4>4. CASE \E m \in MaskByScan(saver["main"].closed, saver["main"].slot) : r \in m
        <5>1. r.key \in saver["main"].closed /\ r.owner \in Owners
             /\ r = [key |-> r.key, owner |-> r.owner, slot |-> saver["main"].slot, open |-> FALSE]
          BY <4>4, ScannedMask
        <5>2. update[head][r.key] \in Gone /\ r.open = FALSE /\ r.slot = head
          BY <2>1, <2>2, <5>1
        <5> QED
          BY <1>0, <2>1, <5>1, <5>2 DEF RowFollowsChain, Gone
      <4>5. r \in RoutedMasks("main") =>
              \/ \E k \in saver["main"].closed : /\ Known(k)
                   /\ r = [key |-> k, owner |-> owners[k].owner, slot |-> head, open |-> FALSE]
              \/ \E c \in changed : /\ c.slot = head
                   /\ r = [key |-> c.key, owner |-> c.owner, slot |-> head, open |-> FALSE]
        BY <2>1 DEF RoutedMasks
      <4> QED
        BY <4>1, <4>2, <4>3, <4>4, <4>5
    <3> QED
      BY <1>4, <3>1, <3>2
  <2> QED
    BY <1>0, <1>1, <1>2, <2>1, <2>3
<1> QED
  BY <1>3, <1>4, Changers

\* So does the pair.
LEMMA PairFollowsStep ==
  ASSUME StartType, StartOrder, StartHistory, [StartupNext]_startupVars
  PROVE  PairFollows'
<1>0. /\ head \in Nat /\ head' \in Nat /\ head <= head' /\ \A s \in 0..head : update'[s] = update[s]
      /\ Owners \cap {"none", "closed", "other"} = {}
  BY StartGrows, StoreAssumption
<1> DEFINE RowOk(r) == r.open => r.owner \in Owners /\ r.slot <= head /\ update[r.slot][r.key] = r.owner
           VersionOk(v) == v.slot <= head /\ update[v.slot][v.key] # "none"
<1>1. /\ \A r \in snapshot : RowOk(r) /\ r.slot \in Nat
      /\ \A v \in unread \cup scanned : VersionOk(v) /\ v.slot \in Nat /\ v.key \in Keys
  BY StartFacts DEF StartHistory, PairFollows, StartType, LoadRow, Version
<1>2. ASSUME \A r \in snapshot' : RowOk(r) /\ r.slot \in Nat,
             \A v \in unread' \cup scanned' : VersionOk(v) /\ v.slot \in Nat
      PROVE  PairFollows'
  BY <1>0, <1>2 DEF PairFollows
<1>3. \A r \in snapshot' : RowOk(r) /\ r.slot \in Nat
  <2>1. ASSUME NEW v \in scanned, InsertAccount(v), NEW r \in snapshot', r \notin snapshot
        PROVE  RowOk(r) /\ r.slot \in Nat
    <3>1. r \in LoadedRow(v)
      BY <2>1 DEF InsertAccount
    <3>2. VersionOk(v) /\ v.slot \in Nat
      BY <1>1
    <3>3. CASE update[v.slot][v.key] \in Owners
      <4>1. update[v.slot][v.key] # "closed"
        BY <1>0, <3>3
      <4>2. r = [key |-> v.key, owner |-> update[v.slot][v.key], slot |-> v.slot, open |-> TRUE]
        BY <3>1, <3>3, <4>1 DEF LoadedRow
      <4> QED
        BY <3>2, <3>3, <4>2
    <3>4. CASE update[v.slot][v.key] \notin Owners
      <4>1. CASE update[v.slot][v.key] = "closed" /\ mode.system
        <5>1. r = [key |-> v.key, owner |-> System, slot |-> v.slot, open |-> FALSE]
          BY <3>1, <3>4, <4>1 DEF LoadedRow
        <5> QED
          BY <3>2, <5>1
      <4>2. CASE ~(update[v.slot][v.key] = "closed" /\ mode.system)
        BY <3>1, <3>4, <4>2 DEF LoadedRow
      <4> QED
        BY <4>1, <4>2
    <3> QED
      BY <3>3, <3>4
  <2>2. ASSUME CleanUpDuplicatedAccounts \/ CleanUpClosedAccounts \/ OneShot \/ StartupDrain
        PROVE  snapshot' \subseteq snapshot
    BY <2>2 DEF CleanUpDuplicatedAccounts, CleanUpClosedAccounts, OneShot, BelowUniformCutoff, StartupDrain,
                DeleteBelow
  <2> HIDE DEF RowOk
  <2> QED
    BY <1>1, <2>1, <2>2, Changers
<1>4. \A v \in unread' \cup scanned' : VersionOk(v) /\ v.slot \in Nat
  <2>1. CASE Download
    <3>1. PICK s \in Slots : Suitable(s) /\ unread' \in PairVersions(s)
      BY <2>1 DEF Download
    <3>2. s \in Nat /\ s <= head /\ scanned' = scanned
      BY <2>1, <3>1, StartFacts DEF Suitable, Download
    <3>3. \A v \in unread' : v.slot \in 0..s /\ update[v.slot][v.key] # "none"
      BY <3>1 DEF PairVersions
    <3> QED
      BY <1>0, <1>1, <3>2, <3>3
  <2>2. ASSUME NEW v \in unread, ReadAccount(v) PROVE unread' \cup scanned' \subseteq unread \cup scanned
    BY <2>2 DEF ReadAccount
  <2>3. ASSUME NEW v \in scanned, InsertAccount(v) PROVE unread' \cup scanned' \subseteq unread \cup scanned
    BY <2>3 DEF InsertAccount
  <2> HIDE DEF VersionOk
  <2> QED
    BY <1>1, <2>1, <2>2, <2>3, Changers
<1> QED
  BY <1>2, <1>3, <1>4

\* So does what is queued.
LEMMA QueueFollowsStep ==
  ASSUME StartType, StartOrder, StartHistory, [StartupNext]_startupVars
  PROVE  QueueFollows'
<1>0. /\ head \in Nat /\ finalTip \in Nat /\ finalTip' \in Nat /\ finalTip <= finalTip'
      /\ \A s \in 0..head : update'[s] = update[s]
  BY StartGrows
<1>f. finalTip <= head
  BY StartFacts DEF StartOrder, Done
<1>1. ASSUME NEW i \in queue' PROVE ItemFollowsChain(i)'
  <2>1. ASSUME ItemFollowsChain(i) PROVE ItemFollowsChain(i)'
    <3>1. PICK s \in 1..finalTip :
            /\ Touched(i.key, s) /\ i.cutoff \in {s, s + 1}
            /\ i.cutoff = s + 1 => IF i.owner = NoOwner THEN update[s][i.key] \in Gone
                                                      ELSE update[s][i.key] # i.owner
      BY <2>1 DEF ItemFollowsChain
    <3>2. s \in 1..finalTip' /\ update'[s] = update[s]
      BY <1>0, <1>f
    <3> QED
      BY <3>1, <3>2 DEF ItemFollowsChain, Touched
  <2>2. CASE FinalizeKeys
    <3>1. i \in queue \cup KeysForSlot(fin)
      BY <2>2, MergeSelects DEF FinalizeKeys
    <3>2. fin \in Slots /\ fin \in 1..finalTip
      BY <1>0, <2>2, OrderQueued, StartFacts
    <3>3. ASSUME i \in KeysForSlot(fin) PROVE ItemFollowsChain(i)
      <4>1. /\ \A o \in blocks[fin].open : update[fin][o.key] = o.owner /\ o.owner \in Owners /\ o.key \in Keys
            /\ \A k \in blocks[fin].closed : update[fin][k] \in Gone
            /\ \A p \in blocks[fin].pairs : update[fin][p.key] \notin {"none", p.owner} /\ p.owner \in Owners
        BY <3>2 DEF StartHistory, BlocksFollowChain, StartType, BlockData, KeyOwner
      <4>2. Owners \cap {"none", "closed", "other"} = {} /\ NoOwner \notin Owners /\ fin # fin + 1
        BY <3>2, StoreAssumption, CleanupAssumption
      <4>3. CASE \E p \in blocks[fin].open : i.key = p.key /\ i.cutoff = fin
        BY <3>2, <4>1, <4>2, <4>3 DEF ItemFollowsChain, Touched
      <4>4. CASE \E p \in blocks[fin].pairs : i.key = p.key /\ i.owner = p.owner /\ i.cutoff = fin + 1
        BY <3>2, <4>1, <4>2, <4>4 DEF ItemFollowsChain, Touched
      <4>5. CASE \E k \in blocks[fin].closed : i.key = k /\ i.owner = NoOwner /\ i.cutoff = fin + 1
        BY <3>2, <4>1, <4>2, <4>5 DEF ItemFollowsChain, Touched, Gone
      <4>6. \/ \E p \in blocks[fin].open : i.key = p.key /\ i.cutoff = fin
            \/ \E p \in blocks[fin].pairs : i.key = p.key /\ i.owner = p.owner /\ i.cutoff = fin + 1
            \/ \E k \in blocks[fin].closed : i.key = k /\ i.owner = NoOwner /\ i.cutoff = fin + 1
        BY <3>3 DEF KeysForSlot
      <4> QED
        BY <4>3, <4>4, <4>5, <4>6
    <3> QED
      BY <2>1, <3>1, <3>3 DEF StartHistory, QueueFollows
  <2>3. CASE UNCHANGED queue
    BY <2>1, <2>3 DEF StartHistory, QueueFollows
  <2>4. CASE StartupDrain
    BY <2>4 DEF StartupDrain
  <2> QED
    BY <2>2, <2>3, <2>4, Changers
<1> QED
  BY <1>1 DEF QueueFollows

\* What the block writes stays what the chain did.
LEMMA WritesFollowStep ==
  ASSUME StartType, StartOrder, StartHistory, [StartupNext]_startupVars
  PROVE  WritesFollow'
<1>1. CASE SaveBlock
  <2>1. /\ saver'["main"].open = OpenBy(update[head])
        /\ \A k \in saver'["main"].closed : update[head][k] \in Gone
        /\ blocks'[head].closed = saver'["main"].closed
    BY <1>1, TakenFollows DEF StartHistory
  <2>2. head' = head /\ update' = update
    BY <1>1 DEF SaveBlock
  <2> QED
    BY <2>1, <2>2 DEF WritesFollow
<1>2. CASE WriteMasks \/ WriteRows
  <2>1. /\ Busy("main") /\ UNCHANGED <<update, head, blocks>>
        /\ saver'["main"].open = saver["main"].open /\ saver'["main"].closed = saver["main"].closed
    BY <1>2, OrderWrites DEF WriteMasks, WriteRows
  <2> QED
    BY <2>1 DEF StartHistory, WritesFollow
<1>3. CASE WriteConfirmed
  BY <1>3, OrderConfirmed DEF WriteConfirmed, WritesFollow, Busy, Idle
<1>4. CASE UNCHANGED saver
  <2>0. Busy("main")' <=> Busy("main")
    BY <1>4 DEF Busy
  <2>1. CASE Busy("main")
    <3>1. UNCHANGED <<head, update>>
      <4>1. \A b \in Carries : ~ ProcessSnapshotIfNeeded(b)
        BY <2>1 DEF ProcessSnapshotIfNeeded, Busy
      <4> QED
        BY <4>1, Changers
    <3>2. head \in Slots /\ blocks'[head] = blocks[head]
      <4>1. ~ SaveBlock
        BY <2>1 DEF SaveBlock, SaveStart, Busy
      <4>2. head \in Slots
        BY <2>1, OrderFacts
      <4>3. FinalizeKeys => fin \in Slots /\ fin # head
        <5> SUFFICES ASSUME FinalizeKeys PROVE fin \in Slots /\ fin # head
          OBVIOUS
        <5>1. fin \in Slots /\ fin = finalTip /\ finalTip <= Done /\ Done = head - 1
          BY <2>1, OrderQueued, OrderFacts, StartFacts
        <5> QED
          BY <5>1, StartFacts
      <4>4. FinalizeKeys => blocks'[head] = blocks[head]
        BY <4>2, <4>3, OrderQueued
      <4>5. ~ WriteConfirmed
        BY <1>4, <2>1, OrderConfirmed DEF WriteConfirmed, Busy, Idle
      <4> QED
        BY <4>1, <4>2, <4>4, <4>5, Changers
    <3> QED
      BY <1>4, <2>1, <3>1, <3>2 DEF StartHistory, WritesFollow
  <2> QED
    BY <2>0, <2>1 DEF WritesFollow
<1> QED
  BY <1>1, <1>2, <1>3, <1>4, Changers

\* Without the owner map nothing is mapped.
LEMMA MapUnusedStep ==
  ASSUME StartType, StartOrder, StartHistory, [StartupNext]_startupVars
  PROVE  MapUnused'
<1> SUFFICES ASSUME ~mode'.map PROVE changed' = {} /\ \A k \in Keys : owners'[k] = NoEntry
  BY DEF MapUnused
<1>0. ~mode.map /\ changed = {} /\ \A k \in Keys : owners[k] = NoEntry /\ ~Known(k)
  BY Changers DEF StartHistory, MapUnused, Known
<1>1. CASE SaveBlock
  <2>1. /\ SaveStart("main", head, update[head], MaskWork) /\ update[head] \in [Keys -> AllUpdates]
        /\ MaskWork \in SUBSET AllWork /\ head \in Slots
    BY <1>1, StreamSlot DEF SaveBlock, MaskWork, AllWork
  <2>2. owners' = Upsert(update[head], head) /\ changed' = changed \cup ChangedBy(update[head], head)
    BY <2>1, BlockStarted
  <2> QED
    BY <1>0, <2>2 DEF Upsert, ChangedBy, OwnerMoved
<1>2. CASE WriteMasks
  BY <1>0, <1>2 DEF WriteMasks, SaveMasks
<1>3. ASSUME NEW v \in unread, ReadAccount(v) PROVE changed' = {} /\ \A k \in Keys : owners'[k] = NoEntry
  <2>1. v.key \in Keys
    BY DEF StartType, Version
  <2> QED
    BY <1>0, <1>3, <2>1 DEF ReadAccount, SeedOwner, OwnerMoved
<1> QED
  BY <1>0, <1>1, <1>2, <1>3, Changers

\* The cache holds keys that finalized slots touched.
LEMMA CacheFollowsStep ==
  ASSUME StartType, StartOrder, StartHistory, [StartupNext]_startupVars
  PROVE  CacheFollows'
<1>0. /\ head \in Nat /\ finalTip \in Nat /\ finalTip' \in Nat /\ finalTip <= finalTip'
      /\ \A s \in 0..head : update'[s] = update[s]
      /\ mode' = mode /\ mode.quiet \in Nat
  BY StartGrows
<1>f. finalTip <= head
  BY StartFacts DEF StartOrder, Done
<1>1. ASSUME NEW k, \E s \in (mode.quiet + 1)..finalTip : Touched(k, s)
      PROVE  \E s \in (mode'.quiet + 1)..finalTip' : Touched(k, s)'
  <2>1. PICK s \in (mode.quiet + 1)..finalTip : Touched(k, s)
    BY <1>1
  <2>2. s \in 0..head /\ s \in (mode'.quiet + 1)..finalTip'
    BY <1>0, <1>f
  <2> QED
    BY <1>0, <2>1, <2>2 DEF Touched
<1>2. \A k \in (cache \cup oneShot.keys) \cap Keys : \E s \in (mode.quiet + 1)..finalTip : Touched(k, s)
  BY DEF StartHistory, CacheFollows
<1> SUFFICES ASSUME NEW k \in (cache' \cup oneShot'.keys) \cap Keys, k \notin cache \cup oneShot.keys
             PROVE  \E s \in (mode.quiet + 1)..finalTip : Touched(k, s)
  BY <1>1, <1>2 DEF CacheFollows
<1>3. ASSUME NEW s \in Slots, FinalizeRow(s) PROVE FALSE
  BY <1>3 DEF FinalizeRow, CleanupStoredAccountsOnce
<1>4. CASE OneShot
  <2>1. oneShot'.keys = oneShot.keys /\ cache' = cache
    BY <1>4 DEF OneShot, StartType, OneShotType
  <2> QED
    BY <2>1
<1>5. CASE FinalizeKeys
  <2>1. k \in CacheKeys(fin) /\ k \in Keys /\ k # "elsewhere"
    BY <1>5, StartupAssumption DEF FinalizeKeys
  <2>2. fin \in Slots /\ fin = finalTip /\ mode.quiet < fin
    BY <1>5, OrderQueued, StartFacts DEF StartOrder
  <2>3. Touched(k, fin)
    <3>1. /\ \A o \in blocks[fin].open : update[fin][o.key] = o.owner /\ o.owner \in Owners
          /\ \A j \in blocks[fin].closed : update[fin][j] \in Gone
          /\ \A p \in blocks[fin].pairs : update[fin][p.key] \notin {"none", p.owner}
      BY <2>2 DEF StartHistory, BlocksFollowChain, StartType, BlockData, KeyOwner
    <3>2. "none" \notin Owners
      BY StoreAssumption
    <3>3. k \in blocks[fin].closed \/ \E p \in blocks[fin].open \cup blocks[fin].pairs : k = p.key
      BY <2>1 DEF CacheKeys, OtherKeys, KeysForSlot
    <3> QED
      BY <3>1, <3>2, <3>3 DEF Touched, Gone
  <2> QED
    BY <1>0, <2>2, <2>3
<1> QED
  BY <1>3, <1>4, <1>5, Changers

\* The history holds at every step.
LEMMA StartHistoryStep ==
  ASSUME StartType, StartOrder, StartHistory, [StartupNext]_startupVars
  PROVE  StartHistory'
  BY BlocksFollowStep, ChangedFollowsStep, StreamRowsStep, PairFollowsStep, QueueFollowsStep, WritesFollowStep,
     MapUnusedStep, CacheFollowsStep DEF StartHistory

----------------------------------------------------------------------------
(* What the chain may do in a deployment                                   *)

\* What the theorem asks of a deployment, see StartupAssumption: no insert of masks
\* or rows fails; without the owner map accounts are of one program; no gap pauses
\* finalization through the load; and with the owner map no account leaves the
\* indexed programs before the load reached its file, or was in two of them before
\* the stream.
Ordinary(m) ==
  /\ ~m.maskFails /\ ~m.rowsFail
  /\ m.map \/ \E o \in Owners : m.updates \cup m.before \subseteq {"none", "closed", o}
  /\ m.load => m.prompt
  /\ m.load /\ m.map => ~m.leaves /\ ~m.returns

\* The history holds updates of the deployment; before the stream an account is in
\* at most one indexed program where the owner map matters, and nothing is there
\* for a node that loads nothing.
UpdatesInUse ==
  /\ \A s \in 0..MaxSlot, k \in Keys : update[s][k] \in mode.updates \cup mode.before \cup {"none"}
  /\ mode.map => \A k \in Keys, s, t \in 0..mode.quiet :
        update[s][k] \in Owners /\ update[t][k] \in Owners => update[s][k] = update[t][k]
  /\ ~mode.load => \A s \in 0..mode.quiet : update[s] = NoUpdate

\* While files are left to read, the newest block takes no account away from the
\* indexed programs.
NoneLeaves ==
  mode.load /\ mode.map /\ main # "wait" /\ (\E k \in Keys : update[head][k] = "other")
    => loader \notin {"none", "download", "files"}

\* Without the owner map there is one program.
LEMMA OneProgram ==
  ASSUME UpdatesInUse, Ordinary(mode), ~mode.map
  PROVE  \E o \in Owners : \A s \in 0..MaxSlot, k \in Keys : update[s][k] \in {"none", "closed", o}
<1>1. PICK o \in Owners : mode.updates \cup mode.before \subseteq {"none", "closed", o}
  BY DEF Ordinary
<1> QED
  BY <1>1 DEF UpdatesInUse

\* At the start.
LEMMA InUseInit ==
  ASSUME StartupInit, Ordinary(mode)
  PROVE  UpdatesInUse /\ NoneLeaves
<1>1. mode \in Modes /\ mode.slots \in 0..MaxSlot /\ mode.quiet \in 0..mode.slots
      /\ MaxSlot \in Nat /\ "none" \notin Owners
  BY CleanupAssumption, StoreAssumption, StartupAssumption DEF StartupInit
<1>2. PICK past \in Past : update = [s \in 0..MaxSlot |-> IF s <= mode.quiet THEN past[s] ELSE NoUpdate]
  BY DEF StartupInit
<1>3. \A s \in 0..MaxSlot : update[s] = IF s <= mode.quiet THEN past[s] ELSE NoUpdate
  BY <1>2
<1>4. \A s \in 0..mode.quiet : s \in 0..MaxSlot /\ s <= mode.quiet
  BY <1>1
<1>5. CASE ~mode.load
  <2>1. \A s \in 0..mode.quiet : past[s] = NoUpdate
    BY <1>2, <1>5 DEF Past
  <2>2. \A s \in 0..MaxSlot : update[s] = NoUpdate
    BY <1>1, <1>3, <2>1
  <2>3. \A s \in 0..MaxSlot, k \in Keys : update[s][k] = "none"
    BY <2>2 DEF NoUpdate
  <2> QED
    BY <1>1, <1>4, <1>5, <2>2, <2>3 DEF UpdatesInUse, NoneLeaves
<1>6. CASE mode.load
  <2>1. past \in [0..mode.quiet -> [Keys -> mode.before \cup mode.updates]]
        /\ (mode.returns \/ \A k \in Keys, s, t \in 0..mode.quiet :
               {past[s][k], past[t][k]} \subseteq Owners => past[s][k] = past[t][k])
    BY <1>2, <1>6 DEF Past
  <2>2. \A s \in 0..MaxSlot, k \in Keys : update[s][k] \in mode.updates \cup mode.before \cup {"none"}
    <3>1. \A s \in 0..mode.quiet, k \in Keys : past[s][k] \in mode.updates \cup mode.before
      BY <2>1
    <3> QED
      BY <1>1, <1>3, <3>1 DEF NoUpdate
  <2>3. ASSUME mode.map, NEW k \in Keys, NEW s \in 0..mode.quiet, NEW t \in 0..mode.quiet,
               update[s][k] \in Owners, update[t][k] \in Owners
        PROVE  update[s][k] = update[t][k]
    <3>1. ~mode.returns
      BY <1>6, <2>3 DEF Ordinary
    <3>2. update[s] = past[s] /\ update[t] = past[t]
      BY <1>3, <1>4
    <3> QED
      BY <2>1, <2>3, <3>1, <3>2
  <2>4. NoneLeaves
    BY DEF NoneLeaves, StartupInit
  <2> QED
    BY <1>6, <2>2, <2>3, <2>4 DEF UpdatesInUse
<1> QED
  BY <1>5, <1>6

\* Every step keeps this: blocks carry updates of the deployment.
LEMMA InUseStep ==
  ASSUME StartType, StartOrder, StartPhase, UpdatesInUse, NoneLeaves, Ordinary(mode), [StartupNext]_startupVars
  PROVE  UpdatesInUse' /\ NoneLeaves'
<1>0. /\ mode' = mode /\ head \in Nat /\ MaxSlot \in Nat /\ mode.quiet \in Nat /\ mode.quiet <= head
      /\ head <= MaxSlot
  BY StartGrows, StartFacts
<1>1. ASSUME NEW b \in Carries, ProcessSnapshotIfNeeded(b) PROVE UpdatesInUse' /\ NoneLeaves'
  <2>1. /\ head' = head + 1 /\ head' \in 0..MaxSlot /\ update'[head'] = b /\ main = "wait"
        /\ \A s \in 0..MaxSlot : s # head' => update'[s] = update[s]
    BY <1>1, OrderArrival
  <2>2. \A k \in Keys : b[k] \in mode.updates
    BY DEF Carries
  <2>3. \A s \in 0..mode.quiet : s # head' /\ s \in 0..MaxSlot /\ update'[s] = update[s]
    BY <1>0, <2>1
  <2>4. \A s \in 0..MaxSlot, k \in Keys : update'[s][k] \in mode.updates \cup mode.before \cup {"none"}
    BY <2>1, <2>2 DEF UpdatesInUse
  <2>5. UpdatesInUse'
    BY <1>0, <2>3, <2>4 DEF UpdatesInUse
  <2>6. NoneLeaves'
    <3> SUFFICES ASSUME mode.load, mode.map, NEW k \in Keys, b[k] = "other",
                        loader' \in {"none", "download", "files"}
                 PROVE  FALSE
      BY <1>0, <2>1 DEF NoneLeaves
    <3>1. loader \notin {"none", "download", "files"}
      BY DEF Carries, Ordinary
    <3>2. loader' = loader \/ snapState = "NotStarted"
      BY <1>1 DEF ProcessSnapshotIfNeeded
    <3> QED
      BY <2>1, <3>1, <3>2 DEF StartPhase, LoadPhase
  <2> QED
    BY <2>5, <2>6
<1>2. ASSUME UNCHANGED <<head, update>>, main' = main \/ main' = "wait" \/ main # "wait",
             loader' = loader \/ loader' \notin {"none", "download", "files"} \/ loader \in {"download", "files"}
      PROVE  UpdatesInUse' /\ NoneLeaves'
  <2>1. UpdatesInUse'
    BY <1>0, <1>2 DEF UpdatesInUse
  <2>2. NoneLeaves'
    BY <1>0, <1>2 DEF NoneLeaves
  <2> QED
    BY <2>1, <2>2
<1>3. ASSUME \A b \in Carries : ~ ProcessSnapshotIfNeeded(b)
      PROVE  /\ main' = main \/ main' = "wait" \/ main # "wait"
             /\ loader' = loader \/ loader' \notin {"none", "download", "files"} \/ loader \in {"download", "files"}
  <2>1. CASE MarkStarted \/ SaveBlock
    BY <2>1 DEF MarkStarted, SaveBlock
  <2>2. CASE \/ SaveMasks("main") /\ UNCHANGED <<loadVars, cacheVars>>
             \/ SaveRows("main") /\ UNCHANGED <<loadVars, cacheVars>>
             \/ SaveConfirm("main") /\ UNCHANGED <<loadVars, cacheVars>>
    BY <2>2
  <2>3. CASE Download \/ (\E v \in unread : ReadAccount(v)) \/ (\E v \in scanned : InsertAccount(v))
             \/ CleanUpDuplicatedAccounts \/ CleanUpClosedAccounts \/ LoadFinished
    BY <2>3 DEF Download, ReadAccount, InsertAccount, CleanUpDuplicatedAccounts, CleanUpClosedAccounts, LoadFinished
  <2>4. CASE (\E s \in Slots : FinalizeRow(s)) \/ FinalizeKeys \/ OneShot \/ StartupDrain
    BY <2>4 DEF FinalizeRow, FinalizeKeys, OneShot, StartupDrain
  <2>5. CASE UNCHANGED startupVars
    BY <2>5 DEF startupVars
  <2> QED
    BY <1>3, <2>1, <2>2, <2>3, <2>4, <2>5, StartSteps
<1> QED
  BY <1>1, <1>2, <1>3, Changers

----------------------------------------------------------------------------
(* The owner map                                                           *)

\* The slots whose masks were or are written.
MaskedSlots == {s \in (mode.quiet + 1)..Begun : s \notin unmasked}

\* A write the owner map heard of: of a saved block, or of a file that was read.
Remembered(k, t) ==
  \/ t \in (mode.quiet + 1)..Begun
  \/ [key |-> k, slot |-> t] \in scanned
  \/ \E r \in snapshot : r.open /\ r.key = k /\ r.slot = t

\* An entry is a write of the chain, and no program took the account over since.
EntriesFollow ==
  mode.map => \A k \in Keys : Known(k) =>
    /\ owners[k].slot <= head
    /\ update[owners[k].slot][k] = owners[k].owner
    /\ \A t \in owners[k].slot..Begun : update[t][k] \in Owners => update[t][k] = owners[k].owner

\* The map knows an account it heard of, until a mask says it is gone.
HeardKnown ==
  mode.map => \A k \in Keys, t \in 0..head :
    update[t][k] \in Owners /\ Remembered(k, t) =>
      Known(k) \/ \E s \in MaskedSlots : t < s /\ update[s][k] \in Gone

\* When a file was read ahead of the newest block, the owner it took over from is
\* noted, so that the block masks the rows under it.
AheadNoted ==
  mode.map /\ main # "wait" => \A k \in Keys, t \in (mode.quiet + 1)..Begun :
    /\ Known(k) /\ owners[k].slot = head
    /\ update[t][k] \in Owners /\ update[t][k] # update[head][k]
    /\ \A s \in (t + 1)..Begun : update[s][k] \in {"none", update[t][k]}
    => [slot |-> head, key |-> k, owner |-> update[t][k]] \in changed

\* Together.
StartMap == EntriesFollow /\ HeardKnown /\ AheadNoted

\* At the start the map is empty, and nothing was heard of.
LEMMA StartMapInit == StartupInit => StartMap
<1> SUFFICES ASSUME StartupInit PROVE StartMap
  OBVIOUS
<1>1. /\ owners = [k \in Keys |-> NoEntry] /\ scanned = {} /\ snapshot = {} /\ main = "wait"
      /\ head = mode.quiet
  BY DEF StartupInit, CleanupInit
<1>2. \A k \in Keys : ~Known(k)
  BY <1>1 DEF Known
<1>3. mode.quiet \in Nat /\ Begun = mode.quiet
  BY <1>1, StartFacts, StartTypeInit DEF Begun
<1>4. \A k, t : ~Remembered(k, t)
  BY <1>1, <1>3 DEF Remembered
<1> QED
  BY <1>1, <1>2, <1>4 DEF StartMap, EntriesFollow, HeardKnown, AheadNoted

\* A step that leaves the map alone keeps this.
LEMMA StartMapKept ==
  ASSUME StartMap, UNCHANGED <<mode, head, update, owners, unmasked>>, changed \subseteq changed',
         Begun' = Begun, main' # "wait" => main # "wait",
         \A k \in Keys, t \in 0..head : update[t][k] \in Owners /\ Remembered(k, t)' => Remembered(k, t)
  PROVE  StartMap'
<1>1. EntriesFollow'
  BY DEF StartMap, EntriesFollow, Known
<1>2. HeardKnown'
  <2> SUFFICES ASSUME mode.map, NEW k \in Keys, NEW t \in 0..head, update[t][k] \in Owners, Remembered(k, t)'
               PROVE  (Known(k) \/ \E s \in MaskedSlots : t < s /\ update[s][k] \in Gone)'
    BY DEF HeardKnown
  <2>1. Known(k) \/ \E s \in MaskedSlots : t < s /\ update[s][k] \in Gone
    BY DEF StartMap, HeardKnown
  <2> QED
    BY <2>1 DEF Known, MaskedSlots, Gone
<1>3. AheadNoted'
  BY DEF StartMap, AheadNoted, Known
<1> QED
  BY <1>1, <1>2, <1>3 DEF StartMap

\* When a block arrives.
LEMMA MapArrival ==
  ASSUME StartType, StartOrder, StartHistory, StartMap, NEW b \in Carries, ProcessSnapshotIfNeeded(b)
  PROVE  StartMap'
<1>0. /\ head \in Nat /\ head' = head + 1 /\ Begun' = Begun /\ Begun = head /\ mode.quiet \in Nat
      /\ MaxSlot \in Nat /\ head <= MaxSlot
      /\ \A s \in 0..MaxSlot : s # head' => update'[s] = update[s]
      /\ UNCHANGED <<mode, owners, unmasked, changed, scanned, snapshot>>
  BY OrderArrival, StartFacts DEF ProcessSnapshotIfNeeded
<1>1. \A s \in 0..head : update'[s] = update[s]
  BY <1>0
<1>2. \A k \in Keys : owners[k].slot \in Nat
  BY StartFacts
<1>3. ASSUME mode.map, NEW k \in Keys, Known(k)'
      PROVE  /\ owners'[k].slot <= head /\ update'[owners'[k].slot][k] = owners'[k].owner
             /\ \A t \in owners'[k].slot..Begun' : update'[t][k] \in Owners => update'[t][k] = owners'[k].owner
  <2>1. Known(k) /\ owners'[k] = owners[k]
    BY <1>0, <1>3 DEF Known
  <2>2. /\ owners[k].slot <= head /\ update[owners[k].slot][k] = owners[k].owner
        /\ \A t \in owners[k].slot..Begun : update[t][k] \in Owners => update[t][k] = owners[k].owner
    BY <1>3, <2>1 DEF StartMap, EntriesFollow
  <2> QED
    BY <1>0, <1>1, <1>2, <2>1, <2>2
<1>4. EntriesFollow'
  <2> SUFFICES ASSUME mode'.map, NEW k \in Keys, Known(k)'
               PROVE  /\ owners'[k].slot <= head'
                      /\ update'[owners'[k].slot][k] = owners'[k].owner
                      /\ \A t \in owners'[k].slot..Begun' : update'[t][k] \in Owners => update'[t][k] = owners'[k].owner
    BY DEF EntriesFollow
  <2>1. owners'[k].slot <= head /\ owners'[k].slot \in Nat
    BY <1>0, <1>2, <1>3
  <2> QED
    BY <1>0, <1>3, <2>1
<1>5. HeardKnown'
  <2> SUFFICES ASSUME mode.map, NEW k \in Keys, NEW t \in 0..head', update'[t][k] \in Owners, Remembered(k, t)'
               PROVE  (Known(k) \/ \E s \in MaskedSlots : t < s /\ update[s][k] \in Gone)'
    BY <1>0 DEF HeardKnown
  <2>1. Remembered(k, t) /\ t <= head
    <3>1. \A v \in scanned : v.slot <= head
      BY DEF StartHistory, PairFollows
    <3>2. \A r \in snapshot : r.open => r.slot <= head
      BY DEF StartHistory, PairFollows
    <3>3. \/ t \in (mode.quiet + 1)..head
          \/ [key |-> k, slot |-> t] \in scanned
          \/ \E r \in snapshot : r.open /\ r.key = k /\ r.slot = t
      BY <1>0 DEF Remembered
    <3>4. t <= head
      BY <1>0, <3>1, <3>2, <3>3
    <3> QED
      BY <1>0, <3>3, <3>4 DEF Remembered
  <2>2. t \in 0..head /\ update[t][k] \in Owners
    BY <1>0, <1>1, <2>1
  <2>3. Known(k) \/ \E s \in MaskedSlots : t < s /\ update[s][k] \in Gone
    BY <2>1, <2>2 DEF StartMap, HeardKnown
  <2>4. Known(k)' <=> Known(k)
    BY <1>0 DEF Known
  <2>5. \A s \in MaskedSlots : s \in MaskedSlots' /\ update'[s] = update[s]
    BY <1>0, <1>1 DEF MaskedSlots
  <2> QED
    BY <2>3, <2>4, <2>5 DEF Gone
<1>6. AheadNoted'
  <2> SUFFICES ASSUME mode'.map, NEW k \in Keys, Known(k)', owners'[k].slot = head' PROVE FALSE
    BY DEF AheadNoted
  <2> QED
    BY <1>0, <1>2, <1>3
<1> QED
  BY <1>4, <1>5, <1>6 DEF StartMap

\* When save_block takes the block in.
LEMMA MapTaken ==
  ASSUME StartType, StartOrder, StartPhase, StartMap, SaveBlock
  PROVE  StartMap'
<1>0. /\ head \in Nat /\ head \in Slots /\ Begun' = head /\ Begun = head - 1 /\ mode.quiet \in Nat
      /\ UNCHANGED <<mode, head, update, scanned, snapshot>> /\ main' = "wait"
      /\ unmasked' \subseteq unmasked \cup {head}
  BY OrderTaken, StartFacts, StreamSlot, PhaseTaken DEF SaveBlock
<1>1. \A k \in Keys : owners'[k] = IF mode.map /\ update[head][k] \in Owners
                                          /\ (~Known(k) \/ OwnerMoved(k, update[head][k], head))
                                     THEN [owner |-> update[head][k], slot |-> head] ELSE owners[k]
  <2>1. /\ SaveStart("main", head, update[head], MaskWork) /\ update[head] \in [Keys -> AllUpdates]
        /\ MaskWork \in SUBSET AllWork
    BY StreamSlot DEF SaveBlock, MaskWork, AllWork
  <2>2. owners' = Upsert(update[head], head)
    BY <1>0, <2>1, BlockStarted
  <2> QED
    BY <2>2 DEF Upsert
<1>2. \A k \in Keys : owners[k].slot \in Nat
  BY StartFacts
<1>3. NoOwner \notin Owners
  BY CleanupAssumption
<1>5. ASSUME mode.map, NEW k \in Keys, update[head][k] \in Owners,
             ~Known(k) \/ OwnerMoved(k, update[head][k], head)
      PROVE  owners'[k].owner = update[head][k] /\ owners'[k].slot = head /\ Known(k)'
  <2>1. owners'[k] = [owner |-> update[head][k], slot |-> head]
    BY <1>1, <1>5
  <2>2. owners'[k].owner = update[head][k] /\ owners'[k].slot = head
    BY <2>1
  <2>3. owners'[k].owner # NoOwner
    BY <1>3, <1>5, <2>2
  <2> QED
    BY <2>2, <2>3 DEF Known, NoEntry
<1>4. EntriesFollow'
  <2> SUFFICES ASSUME mode.map, NEW k \in Keys, Known(k)'
               PROVE  /\ owners'[k].slot <= head
                      /\ update[owners'[k].slot][k] = owners'[k].owner
                      /\ \A t \in owners'[k].slot..head : update[t][k] \in Owners => update[t][k] = owners'[k].owner
    BY <1>0 DEF EntriesFollow
  <2>1. CASE update[head][k] \in Owners /\ (~Known(k) \/ OwnerMoved(k, update[head][k], head))
    <3>1. owners'[k].owner = update[head][k] /\ owners'[k].slot = head
      BY <1>5, <2>1
    <3>2. \A t \in head..head : t = head
      BY <1>0
    <3> QED
      BY <1>0, <3>1, <3>2
  <2>2. CASE ~(update[head][k] \in Owners /\ (~Known(k) \/ OwnerMoved(k, update[head][k], head)))
    <3>1. owners'[k] = owners[k] /\ Known(k)
      BY <1>1, <2>2 DEF Known
    <3>2. /\ owners[k].slot <= head /\ update[owners[k].slot][k] = owners[k].owner
          /\ \A t \in owners[k].slot..Begun : update[t][k] \in Owners => update[t][k] = owners[k].owner
      BY <3>1 DEF StartMap, EntriesFollow
    <3>3. update[head][k] \in Owners => update[head][k] = owners[k].owner
      BY <1>0, <1>2, <2>2, <3>1, <3>2 DEF OwnerMoved
    <3>4. ASSUME NEW t \in owners[k].slot..head, update[t][k] \in Owners PROVE update[t][k] = owners[k].owner
      <4>1. t = head \/ t \in owners[k].slot..Begun
        BY <1>0, <1>2
      <4> QED
        BY <3>2, <3>3, <3>4, <4>1
    <3> QED
      BY <3>1, <3>2, <3>4
  <2> QED
    BY <2>1, <2>2
<1>6. HeardKnown'
  <2> SUFFICES ASSUME mode.map, NEW k \in Keys, NEW t \in 0..head, update[t][k] \in Owners, Remembered(k, t)'
               PROVE  (Known(k) \/ \E s \in MaskedSlots : t < s /\ update[s][k] \in Gone)'
    BY <1>0 DEF HeardKnown
  <2>1. Known(k) => Known(k)'
    <3>1. CASE update[head][k] \in Owners /\ (~Known(k) \/ OwnerMoved(k, update[head][k], head))
      BY <1>5, <3>1
    <3>2. CASE ~(update[head][k] \in Owners /\ (~Known(k) \/ OwnerMoved(k, update[head][k], head)))
      BY <1>1, <3>2 DEF Known
    <3> QED
      BY <3>1, <3>2
  <2>2. CASE t = head
    <3>1. update[head][k] \in Owners
      BY <2>2
    <3> QED
      BY <1>5, <2>1, <3>1
  <2>3. CASE t # head
    <3>1. Remembered(k, t)
      BY <1>0, <2>3 DEF Remembered
    <3>2. Known(k) \/ \E s \in MaskedSlots : t < s /\ update[s][k] \in Gone
      BY <3>1 DEF StartMap, HeardKnown
    <3>3. \A s \in MaskedSlots : s \in MaskedSlots'
      BY <1>0 DEF MaskedSlots
    <3> QED
      BY <1>0, <2>1, <3>2, <3>3 DEF Gone
  <2> QED
    BY <2>2, <2>3
<1>7. AheadNoted'
  BY <1>0 DEF AheadNoted
<1> QED
  BY <1>4, <1>6, <1>7 DEF StartMap

\* When the masks are written, and the closed keys leave the map.
LEMMA MapMasked ==
  ASSUME StartType, StartOrder, StartPhase, StartHistory, StartMap, WriteMasks
  PROVE  StartMap'
<1>0. /\ head \in Nat /\ head \in Slots /\ Begun' = Begun /\ Begun = head /\ mode.quiet \in Nat
      /\ UNCHANGED <<mode, head, update, scanned, snapshot, unmasked, main>> /\ main = "wait"
      /\ head \notin unmasked /\ mode.quiet < head
  <2>1. Busy("main") /\ "masks" \in saver["main"].todo
    BY OrderWrites DEF WriteMasks, SaveMasks
  <2>2. UNCHANGED <<mode, head, update, snapshot>>
    BY DEF WriteMasks, SaveMasks
  <2> QED
    BY <2>1, <2>2, OrderWrites, OrderFacts, StartFacts DEF WriteMasks, StartOrder, StartPhase, SlotsSaved
<1>1. \A k \in Keys : owners'[k] = IF k \in saver["main"].closed THEN NoEntry ELSE owners[k]
  BY DEF WriteMasks, SaveMasks
<1>2. \A k \in saver["main"].closed : update[head][k] \in Gone
  BY OrderWrites DEF WriteMasks, StartHistory, WritesFollow
<1>3. EntriesFollow'
  <2> SUFFICES ASSUME mode.map, NEW k \in Keys, Known(k)'
               PROVE  /\ owners'[k].slot <= head
                      /\ update[owners'[k].slot][k] = owners'[k].owner
                      /\ \A t \in owners'[k].slot..Begun : update[t][k] \in Owners => update[t][k] = owners'[k].owner
    BY <1>0 DEF EntriesFollow
  <2>1. owners'[k] = owners[k] /\ Known(k)
    BY <1>1 DEF Known
  <2> QED
    BY <2>1 DEF StartMap, EntriesFollow
<1>4. HeardKnown'
  <2> SUFFICES ASSUME mode.map, NEW k \in Keys, NEW t \in 0..head, update[t][k] \in Owners, Remembered(k, t)'
               PROVE  (Known(k) \/ \E s \in MaskedSlots : t < s /\ update[s][k] \in Gone)'
    BY <1>0 DEF HeardKnown
  <2>1. Remembered(k, t)
    BY <1>0 DEF Remembered
  <2>2. Known(k) \/ \E s \in MaskedSlots : t < s /\ update[s][k] \in Gone
    BY <2>1 DEF StartMap, HeardKnown
  <2>3. \A s \in MaskedSlots : s \in MaskedSlots'
    BY <1>0 DEF MaskedSlots
  <2>4. CASE k \in saver["main"].closed
    <3>1. update[head][k] \in Gone /\ head \in MaskedSlots'
      BY <1>0, <1>2, <2>4 DEF MaskedSlots
    <3>2. t # head
      BY <3>1, StoreAssumption DEF Gone
    <3> QED
      BY <1>0, <3>1, <3>2 DEF Gone
  <2>5. CASE k \notin saver["main"].closed
    BY <1>0, <1>1, <2>2, <2>3, <2>5 DEF Known, Gone
  <2> QED
    BY <2>4, <2>5
<1>5. AheadNoted'
  BY <1>0 DEF AheadNoted
<1> QED
  BY <1>3, <1>4, <1>5 DEF StartMap

\* When a worker reads an account of its file: only the newest block can be in the
\* pair and not saved, so only there an entry changes hands.
LEMMA MapRead ==
  ASSUME StartType, StartOrder, StartPhase, StartHistory, UpdatesInUse, StartMap,
         NEW v \in unread, ReadAccount(v)
  PROVE  StartMap'
<1> DEFINE o == update[v.slot][v.key]
<1>0. /\ head \in Nat /\ Begun' = Begun /\ Begun \in Nat /\ Begun <= head /\ mode.quiet \in Nat /\ MaxSlot \in Nat
      /\ mode.quiet <= Begun /\ head <= MaxSlot
      /\ UNCHANGED <<mode, head, update, snapshot, main, unmasked>>
      /\ main = "wait" => Begun = head
      /\ main # "wait" => Begun = head - 1
  BY StartFacts, OrderFacts DEF ReadAccount, Begun
<1>1. /\ v.slot \in Nat /\ v.slot <= head /\ v.key \in Keys /\ v = [key |-> v.key, slot |-> v.slot]
      /\ scanned' = scanned \cup {v} /\ changed \subseteq changed'
  BY StartFacts DEF StartHistory, PairFollows, StartType, Version, ReadAccount
<1>2. MaskedSlots = {}
  <2>1. IsStartup
    BY DEF ReadAccount, StartPhase, LoadPhase, WithoutLoad
  <2> QED
    BY <2>1 DEF StartPhase, SlotsSaved, MaskedSlots
<1>3. \A k \in Keys : owners[k].slot \in Nat
  BY StartFacts
<1>4. mode.map => \A k \in Keys, t \in 0..head :
        update[t][k] \in Owners /\ Remembered(k, t) => Known(k)
  BY <1>2 DEF StartMap, HeardKnown
<1> DEFINE seeds == mode.map /\ o \in Owners /\ (~Known(v.key) \/ OwnerMoved(v.key, o, v.slot))
<1>5. ASSUME ~seeds PROVE owners' = owners
  BY <1>5 DEF ReadAccount, SeedOwner
<1>6. ASSUME seeds
      PROVE  /\ \A k \in Keys : k # v.key => owners'[k] = owners[k]
             /\ owners'[v.key].owner = o /\ owners'[v.key].slot = v.slot /\ Known(v.key)'
  <2>1. owners' = [owners EXCEPT ![v.key] = [owner |-> o, slot |-> v.slot]]
    BY <1>6 DEF ReadAccount, SeedOwner
  <2>2. owners \in [Keys -> Entry] /\ NoOwner \notin Owners /\ o \in Owners
    BY <1>6, CleanupAssumption DEF StartType
  <2>3. owners'[v.key] = [owner |-> o, slot |-> v.slot] /\ \A k \in Keys : k # v.key => owners'[k] = owners[k]
    BY <1>1, <2>1, <2>2
  <2>4. owners'[v.key].owner = o /\ owners'[v.key].slot = v.slot
    BY <2>3
  <2>5. owners'[v.key].owner # NoOwner
    BY <2>2, <2>4
  <2> QED
    BY <2>3, <2>4, <2>5 DEF Known, NoEntry
<1>7. ASSUME seeds, Known(v.key) PROVE v.slot = head /\ main # "wait" /\ owners[v.key].slot < head
  <2>1. OwnerMoved(v.key, o, v.slot)
    BY <1>7
  <2>2. /\ owners[v.key].slot <= head
        /\ \A t \in owners[v.key].slot..Begun : update[t][v.key] \in Owners => update[t][v.key] = owners[v.key].owner
    BY <1>1, <1>7 DEF StartMap, EntriesFollow
  <2>3. owners[v.key].slot < v.slot /\ owners[v.key].owner # o /\ o \in Owners
    BY <1>7, <2>1 DEF OwnerMoved
  <2>4. ~(v.slot <= Begun)
    <3> SUFFICES ASSUME v.slot <= Begun PROVE FALSE
      OBVIOUS
    <3>1. v.slot \in owners[v.key].slot..Begun
      BY <1>0, <1>1, <1>3, <2>3
    <3> QED
      BY <2>2, <2>3, <3>1
  <2> QED
    BY <1>0, <1>1, <1>3, <2>3, <2>4
<1>8. ASSUME seeds, ~Known(v.key), NEW t \in 0..Begun, update[t][v.key] \in Owners
      PROVE  t <= mode.quiet
  <2>1. t \in 0..head /\ ~Remembered(v.key, t)
    BY <1>0, <1>1, <1>4, <1>8
  <2> QED
    BY <1>0, <2>1 DEF Remembered
<1>9. EntriesFollow'
  <2> SUFFICES ASSUME mode.map, NEW k \in Keys, Known(k)'
               PROVE  /\ owners'[k].slot <= head
                      /\ update[owners'[k].slot][k] = owners'[k].owner
                      /\ \A t \in owners'[k].slot..Begun : update[t][k] \in Owners => update[t][k] = owners'[k].owner
    BY <1>0 DEF EntriesFollow
  <2>1. CASE ~seeds \/ k # v.key
    <3>1. owners'[k] = owners[k] /\ Known(k)
      BY <1>5, <1>6, <2>1 DEF Known
    <3> QED
      BY <3>1 DEF StartMap, EntriesFollow
  <2>2. CASE seeds /\ k = v.key
    <3>1. owners'[k].owner = o /\ owners'[k].slot = v.slot
      BY <1>6, <2>2
    <3>2. ASSUME NEW t \in v.slot..Begun, update[t][k] \in Owners PROVE update[t][k] = o
      <4>1. CASE Known(k)
        <5>1. v.slot = head /\ main # "wait"
          BY <1>7, <2>2, <4>1
        <5>2. v.slot = Begun + 1
          BY <1>0, <5>1
        <5> QED
          BY <1>0, <1>1, <3>2, <5>2
      <4>2. CASE ~Known(k)
        <5>1. t \in 0..Begun /\ v.slot <= t
          BY <1>0, <1>1, <3>2
        <5>2. t <= mode.quiet
          BY <1>8, <2>2, <3>2, <4>2, <5>1
        <5>3. v.slot \in 0..mode.quiet /\ t \in 0..mode.quiet
          BY <1>0, <1>1, <5>1, <5>2
        <5> QED
          BY <2>2, <3>2, <5>3 DEF UpdatesInUse
      <4> QED
        BY <4>1, <4>2
    <3> QED
      BY <1>1, <2>2, <3>1, <3>2
  <2> QED
    BY <2>1, <2>2
<1>10. HeardKnown'
  <2> SUFFICES ASSUME mode.map, NEW k \in Keys, NEW t \in 0..head, update[t][k] \in Owners, Remembered(k, t)'
               PROVE  Known(k)'
    BY <1>0 DEF HeardKnown
  <2>1. Known(k) => Known(k)'
    <3>1. CASE seeds /\ k = v.key
      BY <1>6, <3>1
    <3>2. CASE ~(seeds /\ k = v.key)
      BY <1>5, <1>6, <3>2 DEF Known
    <3> QED
      BY <3>1, <3>2
  <2>2. CASE Remembered(k, t)
    BY <1>4, <2>1, <2>2
  <2>3. CASE ~Remembered(k, t)
    <3>1. [key |-> k, slot |-> t] = v
      BY <1>0, <1>1, <2>3 DEF Remembered
    <3>2. k = v.key /\ t = v.slot
      BY <3>1
    <3>3. o \in Owners
      BY <3>2
    <3> QED
      BY <1>6, <2>1, <3>2, <3>3
  <2> QED
    BY <2>2, <2>3
<1>11. AheadNoted'
  <2> SUFFICES ASSUME mode.map, main # "wait", NEW k \in Keys, NEW t \in (mode.quiet + 1)..Begun,
                      Known(k)', owners'[k].slot = head, update[t][k] \in Owners, update[t][k] # update[head][k],
                      \A s \in (t + 1)..Begun : update[s][k] \in {"none", update[t][k]}
               PROVE  [slot |-> head, key |-> k, owner |-> update[t][k]] \in changed'
    BY <1>0 DEF AheadNoted
  <2>1. CASE ~seeds \/ k # v.key
    <3>1. owners'[k] = owners[k] /\ Known(k)
      BY <1>5, <1>6, <2>1 DEF Known
    <3>2. [slot |-> head, key |-> k, owner |-> update[t][k]] \in changed
      BY <3>1 DEF StartMap, AheadNoted
    <3> QED
      BY <1>1, <3>2
  <2>2. CASE seeds /\ k = v.key
    <3>1. v.slot = head /\ t \in 0..Begun /\ t \in 0..head
      BY <1>0, <1>6, <2>2
    <3>2. Known(v.key)
      BY <1>0, <1>8, <2>2, <3>1
    <3>3. OwnerMoved(v.key, o, v.slot)
      BY <2>2, <3>2
    <3>4. [slot |-> v.slot, key |-> v.key, owner |-> owners[v.key].owner] \in changed'
      BY <2>2, <3>3 DEF ReadAccount
    <3>5. owners[k].owner = update[t][k]
      <4>1. /\ owners[k].slot <= head /\ update[owners[k].slot][k] = owners[k].owner
            /\ \A u \in owners[k].slot..Begun : update[u][k] \in Owners => update[u][k] = owners[k].owner
        BY <2>2, <3>2 DEF StartMap, EntriesFollow
      <4>2. CASE owners[k].slot <= t
        <5>1. t \in owners[k].slot..Begun
          BY <1>0, <1>3, <4>2
        <5> QED
          BY <4>1, <5>1
      <4>3. CASE owners[k].slot > t
        <5>1. owners[k].slot < head
          BY <1>7, <2>2, <3>2
        <5>2. owners[k].slot \in (t + 1)..Begun
          BY <1>0, <1>3, <4>3, <5>1
        <5>3. owners[k].owner \in Owners /\ "none" \notin Owners
          BY <2>2, <3>2, StartFacts, StoreAssumption
        <5> QED
          BY <4>1, <5>2, <5>3
      <4>4. t \in Nat
        BY <1>0
      <4> QED
        BY <1>3, <4>2, <4>3, <4>4
    <3> QED
      BY <2>2, <3>1, <3>4, <3>5
  <2> QED
    BY <2>1, <2>2
<1> QED
  BY <1>9, <1>10, <1>11 DEF StartMap

\* What the load, the finalizer and the drainer do keeps this too.
LEMMA StartMapStep ==
  ASSUME StartType, StartOrder, StartPhase, StartHistory, UpdatesInUse, StartMap, [StartupNext]_startupVars
  PROVE  StartMap'
<1>1. CASE \E b \in Carries : ProcessSnapshotIfNeeded(b)
  BY <1>1, MapArrival
<1>2. CASE SaveBlock
  BY <1>2, MapTaken
<1>3. CASE WriteMasks
  BY <1>3, MapMasked
<1>4. CASE \E v \in unread : ReadAccount(v)
  BY <1>4, MapRead
<1>5. ASSUME \A b \in Carries : ~ProcessSnapshotIfNeeded(b), ~SaveBlock, ~WriteMasks, \A v \in unread : ~ReadAccount(v)
      PROVE  StartMap'
  <2>1. UNCHANGED <<mode, head, update, owners, changed>>
    BY <1>5, Changers
  <2>2. UNCHANGED unmasked /\ Begun' = Begun /\ (main' # "wait" => main # "wait")
    <3>1. CASE MarkStarted
      BY <2>1, <3>1 DEF MarkStarted, Begun
    <3>2. CASE WriteRows \/ WriteConfirmed
      BY <2>1, <3>2 DEF WriteRows, WriteConfirmed, Begun
    <3>3. CASE Download \/ (\E v \in scanned : InsertAccount(v))
             \/ CleanUpDuplicatedAccounts \/ CleanUpClosedAccounts \/ LoadFinished
      BY <2>1, <3>3 DEF Download, InsertAccount, CleanUpDuplicatedAccounts, CleanUpClosedAccounts, LoadFinished,
                        Begun
    <3>4. CASE (\E s \in Slots : FinalizeRow(s)) \/ FinalizeKeys \/ OneShot \/ StartupDrain
      BY <2>1, <3>4 DEF FinalizeRow, FinalizeKeys, OneShot, StartupDrain, Begun
    <3>5. CASE UNCHANGED startupVars
      BY <3>5 DEF startupVars, Begun
    <3> QED
      BY <1>5, <3>1, <3>2, <3>3, <3>4, <3>5, StartSteps DEF WriteMasks, WriteRows, WriteConfirmed
  <2>3. ASSUME NEW k \in Keys, NEW t \in 0..head, update[t][k] \in Owners, Remembered(k, t)'
        PROVE  Remembered(k, t)
    <3>1. ASSUME NEW v \in scanned, InsertAccount(v) PROVE Remembered(k, t)
      <4>1. scanned' = scanned \ {v} /\ snapshot' = snapshot \cup LoadedRow(v)
        BY <3>1 DEF InsertAccount
      <4>2. v \in Version
        BY DEF StartType
      <4>3. v = [key |-> v.key, slot |-> v.slot]
        BY <4>2 DEF Version
      <4>4. \A r \in LoadedRow(v) : r.key = v.key /\ r.slot = v.slot
        BY DEF LoadedRow
      <4> QED
        BY <2>1, <2>2, <2>3, <4>1, <4>3, <4>4 DEF Remembered
    <3>2. ASSUME \A v \in scanned : ~InsertAccount(v) PROVE scanned' \subseteq scanned /\ snapshot' \subseteq snapshot
      <4>1. Download => scanned' = scanned
        BY DEF Download
      <4>2. CleanUpDuplicatedAccounts \/ CleanUpClosedAccounts \/ OneShot \/ StartupDrain => snapshot' \subseteq snapshot
        BY DEF CleanUpDuplicatedAccounts, CleanUpClosedAccounts, OneShot, BelowUniformCutoff, StartupDrain, DeleteBelow
      <4> QED
        BY <1>5, <3>2, <4>1, <4>2, Changers
    <3> QED
      BY <2>1, <2>2, <2>3, <3>1, <3>2 DEF Remembered
  <2> QED
    BY <2>1, <2>2, <2>3, StartMapKept
<1> QED
  BY <1>1, <1>2, <1>3, <1>4, <1>5

----------------------------------------------------------------------------
(* The pair                                                                *)

\* No slot from a to b touched the key.
Untouched(k, a, b) == \A s \in a..b : ~Touched(k, s)

\* The row of the write of a slot.
RowOf(k, s) == [key |-> k, owner |-> update[s][k], slot |-> s, open |-> TRUE]

\* A version of the pair, in a file or inserted.
Held(k, s) ==
  \/ [key |-> k, slot |-> s] \in unread \cup scanned
  \/ [key |-> k, slot |-> s, owner |-> update[s][k]] \in versions

\* What is left to insert and what was inserted are a pair whose newest slot is S.
FilesHold(S) ==
  /\ \A v \in unread \cup scanned \cup versions : v.slot <= S
  /\ \A v \in versions :
       /\ v.owner = update[v.slot][v.key] /\ v.owner # "none"
       /\ v.owner \in Owners => RowOf(v.key, v.slot) \in snapshot
  /\ \A k \in Keys, t \in 0..S : Touched(k, t) /\ Untouched(k, t + 1, S) =>
       Held(k, t) \/ (update[t][k] = "closed" /\ \A u \in 0..S : ~Held(k, u))
  /\ \A r \in snapshot :
       /\ r.slot <= S
       /\ r.open => [key |-> r.key, slot |-> r.slot, owner |-> r.owner] \in versions

\* What is in snapshot_accounts once it was deduplicated: of every account the newest
\* version in the pair, unless the stream finalized one since.
SnapshotHolds(S) ==
  /\ \A r \in snapshot : r.slot <= S /\ (r.open => Untouched(r.key, r.slot + 1, S))
  /\ loader \in {"flip", "done"} => \A r \in snapshot : r.open
  /\ \A k \in Keys, t \in 0..mode.quiet :
       update[t][k] \in Owners /\ Untouched(k, t + 1, S) =>
         RowOf(k, t) \in snapshot \/ ~Untouched(k, t + 1, finalTip)

\* The history of slots that are there stays.
LEMMA ChainKept ==
  ASSUME StartType, StartOrder, [StartupNext]_startupVars
  PROVE  /\ \A k \in Keys, s \in 0..head : Touched(k, s)' <=> Touched(k, s)
         /\ \A k \in Keys, s \in 0..head : RowOf(k, s)' = RowOf(k, s)
         /\ \A k \in Keys, a \in Nat, b \in 0..head : Untouched(k, a, b)' <=> Untouched(k, a, b)
         /\ \A k \in Keys, a \in Nat : ~Untouched(k, a, finalTip) => ~Untouched(k, a, finalTip)'
         /\ finalTip \in 0..head
<1>1. /\ head \in Nat /\ finalTip \in Nat /\ finalTip' \in Nat /\ finalTip <= finalTip'
      /\ \A s \in 0..head : update'[s] = update[s]
  BY StartGrows
<1>2. finalTip \in 0..head
  BY StartFacts DEF StartOrder, Done
<1>3. \A k \in Keys, s \in 0..head : Touched(k, s)' <=> Touched(k, s)
  BY <1>1 DEF Touched
<1>4. \A k \in Keys, s \in 0..head : RowOf(k, s)' = RowOf(k, s)
  BY <1>1 DEF RowOf
<1>5. ASSUME NEW k \in Keys, NEW a \in Nat, NEW b \in 0..head
      PROVE  Untouched(k, a, b)' <=> Untouched(k, a, b)
  <2>1. \A s \in a..b : s \in 0..head
    BY <1>1
  <2> QED
    BY <1>3, <2>1 DEF Untouched
<1>6. ASSUME NEW k \in Keys, NEW a \in Nat, ~Untouched(k, a, finalTip)
      PROVE  ~Untouched(k, a, finalTip)'
  <2>1. PICK s \in a..finalTip : Touched(k, s)
    BY <1>6 DEF Untouched
  <2>2. s \in 0..head /\ s \in a..finalTip'
    BY <1>1, <1>2
  <2> QED
    BY <1>3, <2>1, <2>2 DEF Untouched
<1> QED
  BY <1>2, <1>3, <1>4, <1>5, <1>6

\* The download is a pair.
LEMMA FilesDownloaded ==
  ASSUME StartType, StartOrder, StartPhase, NEW S \in Slots, loader = "download",
         Suitable(S), unread' \in PairVersions(S), UNCHANGED <<update, scanned, versions, snapshot>>
  PROVE  FilesHold(S)'
<1>1. scanned = {} /\ versions = {} /\ snapshot = {}
  BY DEF StartPhase, LoadPhase, WithoutLoad
<1>2. S \in Nat
  BY StartFacts
<1> DEFINE written == {v \in [key : Keys, slot : 0..S] : update[v.slot][v.key] # "none"}
<1>3. /\ unread' \subseteq written
      /\ \A v \in written : (\A w \in written : w.key = v.key => w.slot <= v.slot) =>
           \/ v \in unread'
           \/ update[v.slot][v.key] = "closed" /\ \A w \in unread' : w.key # v.key
  BY DEF PairVersions
<1>4. \A v \in unread' : v.slot <= S
  BY <1>2, <1>3
<1>5. ASSUME NEW k \in Keys, NEW t \in 0..S, Touched(k, t), Untouched(k, t + 1, S)
      PROVE  \/ [key |-> k, slot |-> t] \in unread'
             \/ update[t][k] = "closed" /\ \A u \in 0..S : [key |-> k, slot |-> u] \notin unread'
  <2> DEFINE v == [key |-> k, slot |-> t]
  <2>1. v \in written /\ v.key = k /\ v.slot = t
    BY <1>5 DEF Touched
  <2>2. ASSUME NEW w \in written, w.key = k PROVE w.slot <= t
    <3>1. w.slot \in 0..S /\ Touched(k, w.slot)
      BY <2>2 DEF Touched
    <3>2. ~(w.slot \in (t + 1)..S)
      BY <1>5, <3>1 DEF Untouched
    <3> QED
      BY <1>2, <3>1, <3>2
  <2>3. \/ v \in unread'
        \/ update[t][k] = "closed" /\ \A w \in unread' : w.key # k
    <3> HIDE DEF written
    <3> QED
      BY <1>3, <2>1, <2>2
  <2> QED
    BY <2>3
<1>6. \A k \in Keys, t \in Nat : (Touched(k, t)' <=> Touched(k, t)) /\ (Untouched(k, t, S)' <=> Untouched(k, t, S))
  BY DEF Touched, Untouched
<1>7. \A k \in Keys, t \in 0..S : Held(k, t)' <=> [key |-> k, slot |-> t] \in unread'
  BY <1>1 DEF Held
<1>n. \A t \in 0..S : t \in Nat /\ t + 1 \in Nat
  BY <1>2
<1>8. \A k \in Keys, t \in 0..S : (Touched(k, t) /\ Untouched(k, t + 1, S))' =>
       Held(k, t)' \/ (update'[t][k] = "closed" /\ \A u \in 0..S : ~Held(k, u)')
  BY <1>n, <1>5, <1>6, <1>7
<1> QED
  BY <1>1, <1>4, <1>8 DEF FilesHold

\* It stays one while files are read and accounts inserted.
LEMMA FilesStep ==
  ASSUME StartType, StartOrder, StartPhase, StartHistory, NEW S \in 0..head, loader = "files", loader' = "files",
         FilesHold(S), [StartupNext]_startupVars
  PROVE  FilesHold(S)'
<1>0. /\ \A k \in Keys, s \in 0..head : Touched(k, s)' <=> Touched(k, s)
      /\ \A k \in Keys, s \in 0..head : RowOf(k, s)' = RowOf(k, s)
      /\ \A k \in Keys, a \in Nat, b \in 0..head : Untouched(k, a, b)' <=> Untouched(k, a, b)
      /\ \A s \in 0..head : update'[s] = update[s] /\ head \in Nat /\ S \in Nat /\ S <= head
  BY ChainKept, StartGrows
<1>c. ASSUME NEW k \in Keys, NEW t \in 0..S
      PROVE  /\ Touched(k, t)' <=> Touched(k, t)
             /\ Untouched(k, t + 1, S)' <=> Untouched(k, t + 1, S)
             /\ RowOf(k, t)' = RowOf(k, t)
  <2>1. t \in 0..head /\ t + 1 \in Nat /\ S \in 0..head
    BY <1>0
  <2> QED
    BY <1>0, <2>1
<1>1. /\ \A v \in unread \cup scanned \cup versions : v.slot <= S /\ v.slot \in 0..S /\ v.key \in Keys
      /\ \A v \in versions : v = [key |-> v.key, slot |-> v.slot, owner |-> update[v.slot][v.key]]
      /\ \A v \in unread \cup scanned : v = [key |-> v.key, slot |-> v.slot]
      /\ \A r \in snapshot : r.slot \in 0..S
  <2>1. \A v \in versions : v \in [key : Keys, slot : 0..MaxSlot, owner : AllUpdates] /\ v.owner = update[v.slot][v.key]
    BY DEF StartType, FilesHold
  <2>2. \A v \in versions : v = [key |-> v.key, slot |-> v.slot, owner |-> v.owner] /\ v.slot \in Nat /\ v.key \in Keys
    BY <2>1
  <2>3. \A v \in unread \cup scanned : v = [key |-> v.key, slot |-> v.slot] /\ v.slot \in Nat /\ v.key \in Keys
    BY DEF StartType, Version
  <2>4. \A r \in snapshot : r.slot \in Nat
    BY DEF StartType, LoadRow
  <2>5. /\ \A v \in unread \cup scanned \cup versions : v.slot <= S
        /\ \A r \in snapshot : r.slot <= S
    BY DEF FilesHold
  <2>6. \A n \in Nat : n <= S => n \in 0..S
    BY <1>0
  <2> QED
    BY <2>1, <2>2, <2>3, <2>4, <2>5, <2>6
<1>2. IsStartup /\ oneShot.at = "none"
  BY DEF StartPhase, LoadPhase, WithoutLoad, OneShotPhase
<1>3. CASE UNCHANGED <<unread, scanned, versions, snapshot>>
  <2>1. \A k \in Keys, t \in 0..S : Held(k, t)' <=> Held(k, t)
    BY <1>0, <1>3 DEF Held
  <2>2. \A k \in Keys, t \in 0..S : (Touched(k, t) /\ Untouched(k, t + 1, S))' <=> Touched(k, t) /\ Untouched(k, t + 1, S)
    BY <1>c
  <2>3. \A k \in Keys, t \in 0..S : (Touched(k, t) /\ Untouched(k, t + 1, S))' =>
       Held(k, t)' \/ (update'[t][k] = "closed" /\ \A u \in 0..S : ~Held(k, u)')
    BY <1>0, <2>1, <2>2 DEF FilesHold
  <2>4. \A v \in versions' : /\ v.owner = update'[v.slot][v.key] /\ v.owner # "none"
                             /\ v.owner \in Owners => RowOf(v.key, v.slot)' \in snapshot'
    BY <1>c, <1>0, <1>1, <1>3 DEF FilesHold
  <2> QED
    BY <1>3, <2>3, <2>4 DEF FilesHold
<1>4. ASSUME NEW v \in unread, ReadAccount(v) PROVE FilesHold(S)'
  <2>1. /\ unread' \cup scanned' = unread \cup scanned /\ UNCHANGED <<versions, snapshot, update>>
    BY <1>4 DEF ReadAccount
  <2>2. \A k \in Keys, t \in 0..S : Held(k, t)' <=> Held(k, t)
    BY <2>1 DEF Held
  <2>3. \A k \in Keys, t \in 0..S : (Touched(k, t) /\ Untouched(k, t + 1, S))' <=> Touched(k, t) /\ Untouched(k, t + 1, S)
    BY <1>c
  <2>4. \A k \in Keys, t \in 0..S : (Touched(k, t) /\ Untouched(k, t + 1, S))' =>
       Held(k, t)' \/ (update'[t][k] = "closed" /\ \A u \in 0..S : ~Held(k, u)')
    BY <2>1, <2>2, <2>3 DEF FilesHold
  <2>5. \A w \in versions' : /\ w.owner = update'[w.slot][w.key] /\ w.owner # "none"
                             /\ w.owner \in Owners => RowOf(w.key, w.slot)' \in snapshot'
    BY <2>1 DEF FilesHold, RowOf
  <2>6. \A w \in unread' \cup scanned' \cup versions' : w.slot <= S
    BY <2>1 DEF FilesHold
  <2>7. \A r \in snapshot' : r.slot <= S /\ (r.open => [key |-> r.key, slot |-> r.slot, owner |-> r.owner] \in versions')
    BY <2>1 DEF FilesHold
  <2> QED
    BY <2>4, <2>5, <2>6, <2>7 DEF FilesHold
<1>5. ASSUME NEW v \in scanned, InsertAccount(v) PROVE FilesHold(S)'
  <2> DEFINE w == [key |-> v.key, slot |-> v.slot, owner |-> update[v.slot][v.key]]
  <2>1. /\ unread' = unread /\ scanned' = scanned \ {v} /\ versions' = versions \cup {w}
        /\ snapshot' = snapshot \cup LoadedRow(v) /\ update' = update
    BY <1>5 DEF InsertAccount, LoadedVersion
  <2>2. v = [key |-> v.key, slot |-> v.slot] /\ v.slot \in 0..S /\ v.key \in Keys /\ v.slot <= S
    BY <1>1
  <2>3. "closed" \notin Owners
    BY StoreAssumption
  <2>4. /\ update[v.slot][v.key] \in Owners => LoadedRow(v) = {RowOf(v.key, v.slot)}
        /\ \A r \in LoadedRow(v) : r.slot = v.slot /\ r.key = v.key /\ (r.open => r.owner = update[v.slot][v.key])
    <3>1. CASE update[v.slot][v.key] \in Owners
      BY <2>3, <3>1 DEF LoadedRow, RowOf
    <3>2. CASE update[v.slot][v.key] \notin Owners /\ update[v.slot][v.key] = "closed" /\ mode.system
      BY <3>2 DEF LoadedRow
    <3>3. CASE update[v.slot][v.key] \notin Owners /\ ~(update[v.slot][v.key] = "closed" /\ mode.system)
      BY <3>3 DEF LoadedRow
    <3> QED
      BY <3>1, <3>2, <3>3
  <2>5. \A k \in Keys, t \in 0..S : Held(k, t)' <=> Held(k, t)
    <3> SUFFICES ASSUME NEW k \in Keys, NEW t \in 0..S PROVE Held(k, t)' <=> Held(k, t)
      OBVIOUS
    <3>1. CASE k = v.key /\ t = v.slot
      BY <2>1, <2>2, <3>1 DEF Held
    <3>2. CASE ~(k = v.key /\ t = v.slot)
      <4>1. [key |-> k, slot |-> t] # v
        BY <2>2, <3>2
      <4>2. [key |-> k, slot |-> t, owner |-> update[t][k]] # w
        <5>1. [key |-> k, slot |-> t, owner |-> update[t][k]].key = k /\ [key |-> k, slot |-> t, owner |-> update[t][k]].slot = t
          OBVIOUS
        <5>2. w.key = v.key /\ w.slot = v.slot
          OBVIOUS
        <5> QED
          BY <3>2, <5>1, <5>2
      <4> HIDE DEF w
      <4> QED
        BY <2>1, <4>1, <4>2 DEF Held
    <3> QED
      BY <3>1, <3>2
  <2>6. \A k \in Keys, t \in 0..S : (Touched(k, t) /\ Untouched(k, t + 1, S))' <=> Touched(k, t) /\ Untouched(k, t + 1, S)
    BY <1>c
  <2>7. \A k \in Keys, t \in 0..S : (Touched(k, t) /\ Untouched(k, t + 1, S))' =>
       Held(k, t)' \/ (update'[t][k] = "closed" /\ \A u \in 0..S : ~Held(k, u)')
    BY <2>1, <2>5, <2>6 DEF FilesHold
  <2>8. \A x \in versions' : /\ x.owner = update'[x.slot][x.key] /\ x.owner # "none"
                             /\ x.owner \in Owners => RowOf(x.key, x.slot)' \in snapshot'
    <3>1. \A x \in versions : /\ x.owner = update[x.slot][x.key] /\ x.owner # "none"
                              /\ x.owner \in Owners => RowOf(x.key, x.slot) \in snapshot
      BY DEF FilesHold
    <3>2. /\ w.owner = update[w.slot][w.key] /\ w.owner # "none"
          /\ w.owner \in Owners => RowOf(w.key, w.slot) \in LoadedRow(v)
      BY <2>4 DEF StartHistory, PairFollows
    <3>3. \A x : RowOf(x.key, x.slot)' = RowOf(x.key, x.slot)
      BY <2>1 DEF RowOf
    <3> HIDE DEF w
    <3> QED
      BY <2>1, <3>1, <3>2, <3>3
  <2>9. \A x \in unread' \cup scanned' \cup versions' : x.slot <= S
    BY <2>1, <2>2 DEF FilesHold
  <2>10. \A r \in snapshot' : r.slot <= S /\ (r.open => [key |-> r.key, slot |-> r.slot, owner |-> r.owner] \in versions')
    <3>1. \A r \in snapshot : r.slot <= S /\ (r.open => [key |-> r.key, slot |-> r.slot, owner |-> r.owner] \in versions)
      BY DEF FilesHold
    <3>2. \A r \in LoadedRow(v) : r.slot <= S /\ (r.open => [key |-> r.key, slot |-> r.slot, owner |-> r.owner] = w)
      BY <2>2, <2>4
    <3> HIDE DEF w
    <3> QED
      BY <2>1, <3>1, <3>2
  <2> QED
    BY <2>7, <2>8, <2>9, <2>10 DEF FilesHold
<1>6. ASSUME \A v \in unread : ~ReadAccount(v), \A v \in scanned : ~InsertAccount(v)
      PROVE  UNCHANGED <<unread, scanned, versions, snapshot>>
  <2>1. ~Download /\ ~CleanUpDuplicatedAccounts /\ ~CleanUpClosedAccounts /\ ~OneShot
    BY <1>2 DEF Download, CleanUpDuplicatedAccounts, CleanUpClosedAccounts, OneShot
  <2>2. StartupDrain => UNCHANGED <<unread, scanned, versions, snapshot>>
    BY <1>2 DEF StartupDrain
  <2>3. versions' = versions
    <3>1. CASE (\E b \in Carries : ProcessSnapshotIfNeeded(b)) \/ MarkStarted \/ SaveBlock \/ LoadFinished
      BY <3>1 DEF ProcessSnapshotIfNeeded, MarkStarted, SaveBlock, LoadFinished
    <3>2. CASE (\E s \in Slots : FinalizeRow(s)) \/ FinalizeKeys \/ StartupDrain
      BY <3>2 DEF FinalizeRow, FinalizeKeys, StartupDrain
    <3>3. CASE UNCHANGED startupVars
      BY <3>3 DEF startupVars
    <3> QED
      BY <1>6, <2>1, <3>1, <3>2, <3>3, StartSteps
  <2> QED
    BY <1>6, <2>1, <2>2, <2>3, Changers
<1> QED
  BY <1>3, <1>4, <1>5, <1>6

\* Every account touched has a last touch.
LEMMA LastTouched ==
  ASSUME StartType, NEW k \in Keys, NEW a \in Nat, NEW b \in Nat, ~Untouched(k, a, b)
  PROVE  \E s \in a..b : Touched(k, s) /\ Untouched(k, s + 1, b)
<1> DEFINE T == {s \in a..b : Touched(k, s)}
<1>1. T \in SUBSET Nat /\ T # {} /\ \A s \in T : s <= b
  BY DEF Untouched
<1>2. PICK s \in T : \A u \in T : u <= s
  <2> HIDE DEF T
  <2> QED
    BY <1>1, MaxExists
<1>3. Untouched(k, s + 1, b)
  <2> SUFFICES ASSUME NEW u \in (s + 1)..b, Touched(k, u) PROVE FALSE
    BY DEF Untouched
  <2>1. u \in T /\ s \in Nat
    OBVIOUS
  <2> QED
    BY <1>2, <2>1
<1> QED
  BY <1>2, <1>3

\* Deduplication leaves the newest versions.
LEMMA Deduplicated ==
  ASSUME StartType, StartOrder, StartHistory, NEW S \in Slots, mode.quiet < S, S <= head,
         FilesHold(S), CleanUpDuplicatedAccounts
  PROVE  SnapshotHolds(S)'
<1>0. /\ S \in Nat /\ mode.quiet \in Nat /\ loader' = "closed" /\ unread = {} /\ scanned = {}
      /\ UNCHANGED <<mode, update, head, finalTip>> /\ MaxSlot \in Nat
      /\ snapshot' = {r \in snapshot : ~ \E t \in Superseded :
                        t.key = r.key /\ t.slot = r.slot
                        /\ r.owner = IF t.owner = "closed" THEN System ELSE t.owner}
  BY StartFacts DEF CleanUpDuplicatedAccounts
<1>1. \A v \in versions : /\ v.owner = update[v.slot][v.key] /\ v.owner # "none" /\ v.slot \in 0..S
                          /\ v.key \in Keys /\ v.owner \in Owners => RowOf(v.key, v.slot) \in snapshot
  <2>1. \A v \in versions : v.slot \in Nat /\ v.slot <= S
    BY DEF StartType, FilesHold
  <2> QED
    BY <1>0, <2>1 DEF FilesHold, StartType
<1>2. \A k \in Keys, t \in 0..S : Touched(k, t) /\ Untouched(k, t + 1, S) =>
       \/ [key |-> k, slot |-> t, owner |-> update[t][k]] \in versions
       \/ /\ update[t][k] = "closed"
          /\ \A u \in 0..S : [key |-> k, slot |-> u, owner |-> update[u][k]] \notin versions
  BY <1>0 DEF FilesHold, Held
<1>3. \A k, a, b : (Untouched(k, a, b)' <=> Untouched(k, a, b)) /\ RowOf(k, a)' = RowOf(k, a)
  BY <1>0 DEF Untouched, Touched, RowOf
<1>4. ASSUME NEW r \in snapshot', r.open PROVE Untouched(r.key, r.slot + 1, S)
  <2> DEFINE k == r.key
             u == r.slot
             old == [key |-> k, slot |-> u, owner |-> r.owner]
  <2>1. r \in snapshot /\ k \in Keys /\ old \in versions /\ r.owner \in Owners /\ update[u][k] = r.owner
    BY <1>0, <1>4 DEF FilesHold, StartHistory, PairFollows, StartType, LoadRow
  <2>2. u \in 0..S
    BY <1>1, <2>1
  <2> SUFFICES ASSUME ~Untouched(k, u + 1, S) PROVE FALSE
    OBVIOUS
  <2>a. k \in Keys /\ u + 1 \in Nat /\ S \in Nat
    BY <1>0, <2>1, <2>2
  <2>b. \E s \in (u + 1)..S : Touched(k, s) /\ Untouched(k, s + 1, S)
    <3> HIDE DEF k, u, old
    <3> QED
      BY <2>a, LastTouched
  <2>3. PICK s \in (u + 1)..S : Touched(k, s) /\ Untouched(k, s + 1, S)
    BY <2>b
  <2>4. [key |-> k, slot |-> s, owner |-> update[s][k]] \in versions
    BY <1>0, <1>2, <2>1, <2>2, <2>3
  <2>5. old \in Superseded
    <3>1. s > u
      BY <1>0, <2>2
    <3> QED
      BY <2>1, <2>4, <3>1 DEF Superseded
  <2>6. r.owner # "closed"
    BY <2>1, StoreAssumption
  <2> QED
    BY <1>0, <1>4, <2>5, <2>6
<1>5. ASSUME NEW k \in Keys, NEW t \in 0..mode.quiet, update[t][k] \in Owners, Untouched(k, t + 1, S)
      PROVE  RowOf(k, t) \in snapshot'
  <2> DEFINE v == [key |-> k, slot |-> t, owner |-> update[t][k]]
  <2>1. t \in 0..S /\ Touched(k, t) /\ update[t][k] # "closed"
    BY <1>0, <1>5, StoreAssumption DEF Touched
  <2>2. v \in versions
    BY <1>2, <1>5, <2>1
  <2>3. RowOf(k, t) \in snapshot
    BY <1>1, <1>5, <2>2
  <2>4. ASSUME NEW x \in Superseded, x.key = k, x.slot = t PROVE FALSE
    <3>1. PICK n \in versions : n.key = k /\ n.slot > t
      BY <2>4 DEF Superseded
    <3>2. n.slot \in (t + 1)..S /\ Touched(k, n.slot)
      BY <1>0, <1>1, <3>1 DEF Touched
    <3> QED
      BY <1>5, <3>2 DEF Untouched
  <2>5. RowOf(k, t).key = k /\ RowOf(k, t).slot = t
    BY DEF RowOf
  <2> QED
    BY <1>0, <2>3, <2>4, <2>5
<1>6. \A r \in snapshot' : r.slot <= S
  BY <1>0 DEF FilesHold
<1> QED
  BY <1>0, <1>3, <1>4, <1>5, <1>6 DEF SnapshotHolds

\* Of a loaded account the one-shot and the drainer only take versions that a
\* finalized slot superseded.
LEMMA SnapshotStep ==
  ASSUME StartType, StartOrder, StartPhase, StartHistory, NEW S \in 0..head, mode.quiet < S,
         loader \notin {"none", "download", "files"}, SnapshotHolds(S), [StartupNext]_startupVars
  PROVE  SnapshotHolds(S)'
<1>0. /\ \A k \in Keys, s \in 0..head : RowOf(k, s)' = RowOf(k, s)
      /\ \A k \in Keys, a \in Nat, b \in 0..head : Untouched(k, a, b)' <=> Untouched(k, a, b)
      /\ \A k \in Keys, a \in Nat : ~Untouched(k, a, finalTip) => ~Untouched(k, a, finalTip)'
      /\ \A s \in 0..head : update'[s] = update[s]
      /\ head \in Nat /\ S \in Nat /\ S <= head /\ finalTip \in 0..head /\ mode' = mode /\ mode.quiet \in Nat
      /\ mode.quiet <= head
  BY ChainKept, StartGrows
<1>1. /\ UNCHANGED snapshot \/ CleanUpClosedAccounts \/ OneShot \/ StartupDrain
      /\ snapshot' \subseteq snapshot
  <2>1. ~CleanUpDuplicatedAccounts /\ \A v \in scanned : ~InsertAccount(v)
    BY DEF CleanUpDuplicatedAccounts, InsertAccount
  <2>2. UNCHANGED snapshot \/ CleanUpClosedAccounts \/ OneShot \/ StartupDrain
    BY <2>1, Changers
  <2> QED
    BY <2>2 DEF CleanUpClosedAccounts, OneShot, BelowUniformCutoff, StartupDrain, DeleteBelow
<1>2. loader' \in {"flip", "done"} => loader \in {"flip", "done"} \/ CleanUpClosedAccounts
  <2>1. CASE loader' = loader \/ loader' = "closed" \/ LoadFinished
    BY <2>1 DEF LoadFinished
  <2>2. CASE (\E b \in Carries : ProcessSnapshotIfNeeded(b)) \/ MarkStarted \/ SaveBlock
    BY <2>2 DEF ProcessSnapshotIfNeeded, MarkStarted, SaveBlock, StartPhase, LoadPhase, WithoutLoad
  <2>3. CASE Download \/ (\E v \in unread : ReadAccount(v)) \/ (\E v \in scanned : InsertAccount(v))
             \/ CleanUpDuplicatedAccounts
    BY <2>3 DEF Download, ReadAccount, InsertAccount, CleanUpDuplicatedAccounts
  <2>4. CASE (\E s \in Slots : FinalizeRow(s)) \/ FinalizeKeys \/ OneShot \/ StartupDrain
    BY <2>4 DEF FinalizeRow, FinalizeKeys, OneShot, StartupDrain
  <2>5. CASE UNCHANGED startupVars
    BY <2>5 DEF startupVars
  <2> QED
    BY <2>1, <2>2, <2>3, <2>4, <2>5, StartSteps
<1>3. \A r \in snapshot' : r.slot <= S /\ (r.open => Untouched(r.key, r.slot + 1, S)')
  <2>1. \A r \in snapshot : r.key \in Keys /\ r.slot + 1 \in Nat
    BY StartFacts DEF StartType, LoadRow
  <2>2. \A r \in snapshot : r.slot <= S /\ (r.open => Untouched(r.key, r.slot + 1, S))
    BY DEF SnapshotHolds
  <2> QED
    BY <1>0, <1>1, <2>1, <2>2
<1>4. loader' \in {"flip", "done"} => \A r \in snapshot' : r.open
  BY <1>1, <1>2 DEF SnapshotHolds, CleanUpClosedAccounts
<1>5. ASSUME NEW k \in Keys, NEW t \in 0..mode.quiet, update[t][k] \in Owners, RowOf(k, t) \in snapshot
      PROVE  RowOf(k, t) \in snapshot' \/ ~Untouched(k, t + 1, finalTip)
  <2> DEFINE r == RowOf(k, t)
  <2>1. r.key = k /\ r.slot = t /\ r.owner = update[t][k] /\ r.open = TRUE
    BY DEF RowOf
  <2> HIDE DEF r
  <2>2. CASE OneShot
    <3> SUFFICES ASSUME r \notin snapshot' PROVE ~Untouched(k, t + 1, finalTip)
      BY DEF r
    <3>1. k \in oneShot.keys
      BY <1>5, <2>1, <2>2 DEF OneShot, BelowUniformCutoff, r
    <3>2. PICK s \in (mode.quiet + 1)..finalTip : Touched(k, s)
      BY <3>1 DEF StartHistory, CacheFollows
    <3>3. s \in (t + 1)..finalTip
      BY <1>0
    <3> QED
      BY <3>2, <3>3 DEF Untouched
  <2>3. CASE StartupDrain
    <3> SUFFICES ASSUME r \notin snapshot' PROVE ~Untouched(k, t + 1, finalTip)
      BY DEF r
    <3>1. PICK i \in queue : i.key = r.key /\ i.owner \in {NoOwner, r.owner} /\ ~(r.slot >= i.cutoff)
      BY <1>5, <2>3 DEF StartupDrain, DeleteBelow, r
    <3>2. PICK s \in 1..finalTip :
            /\ Touched(i.key, s) /\ i.cutoff \in {s, s + 1}
            /\ i.cutoff = s + 1 => IF i.owner = NoOwner THEN update[s][i.key] \in Gone
                                                      ELSE update[s][i.key] # i.owner
      BY DEF StartHistory, QueueFollows, ItemFollowsChain
    <3>3. t # s
      <4> SUFFICES ASSUME t = s PROVE FALSE
        OBVIOUS
      <4>1. i.cutoff = s + 1
        BY <1>0, <2>1, <3>1, <3>2
      <4>2. i.owner = NoOwner => update[t][k] \in Gone
        BY <2>1, <3>1, <3>2, <4>1
      <4>3. i.owner # NoOwner => update[t][k] # i.owner
        BY <2>1, <3>1, <3>2, <4>1
      <4> QED
        BY <1>5, <2>1, <3>1, <4>2, <4>3, StoreAssumption DEF Gone
    <3>4. s \in (t + 1)..finalTip
      BY <1>0, <2>1, <3>1, <3>2, <3>3
    <3> QED
      BY <2>1, <3>1, <3>2, <3>4 DEF Untouched
  <2>4. CASE UNCHANGED snapshot \/ CleanUpClosedAccounts
    BY <1>5, <2>1, <2>4 DEF CleanUpClosedAccounts, r
  <2> QED
    BY <1>1, <2>2, <2>3, <2>4 DEF r
<1>6. ASSUME NEW k \in Keys, NEW t \in 0..mode.quiet, update[t][k] \in Owners, Untouched(k, t + 1, S)
      PROVE  RowOf(k, t) \in snapshot' \/ ~Untouched(k, t + 1, finalTip)
  <2>1. RowOf(k, t) \in snapshot \/ ~Untouched(k, t + 1, finalTip)
    BY <1>6 DEF SnapshotHolds
  <2> QED
    BY <1>5, <1>6, <2>1
<1>7. \A k \in Keys, t \in 0..mode.quiet :
        /\ (update[t][k] \in Owners /\ Untouched(k, t + 1, S))' <=> update[t][k] \in Owners /\ Untouched(k, t + 1, S)
        /\ RowOf(k, t)' = RowOf(k, t)
        /\ ~Untouched(k, t + 1, finalTip) => ~Untouched(k, t + 1, finalTip)'
  <2>1. \A t \in 0..mode.quiet : t \in 0..head /\ t + 1 \in Nat /\ S \in 0..head
    BY <1>0
  <2> QED
    BY <1>0, <2>1
<1>8. \A k \in Keys, t \in 0..mode.quiet : (update[t][k] \in Owners /\ Untouched(k, t + 1, S))' =>
        RowOf(k, t)' \in snapshot' \/ ~Untouched(k, t + 1, finalTip)'
  BY <1>6, <1>7
<1> QED
  BY <1>0, <1>3, <1>4, <1>8 DEF SnapshotHolds

\* Which steps change the phases.
LEMMA PhaseChangers ==
  ASSUME [StartupNext]_startupVars
  PROVE  /\ main' = main \/ (\E b \in Carries : ProcessSnapshotIfNeeded(b)) \/ MarkStarted \/ SaveBlock
         /\ \/ loader' = loader \/ (\E b \in Carries : ProcessSnapshotIfNeeded(b)) \/ Download
            \/ CleanUpDuplicatedAccounts \/ CleanUpClosedAccounts \/ LoadFinished
         /\ UNCHANGED <<unmasked, early>> \/ SaveBlock
         /\ \/ snapState' = snapState \/ (\E b \in Carries : ProcessSnapshotIfNeeded(b)) \/ MarkStarted
            \/ LoadFinished \/ OneShot
         /\ starting' = starting \/ (\E b \in Carries : ProcessSnapshotIfNeeded(b)) \/ OneShot
         /\ versions' = versions \/ \E v \in scanned : InsertAccount(v)
         /\ fin' = fin \/ (\E s \in Slots : FinalizeRow(s)) \/ FinalizeKeys
         /\ confirmed' = confirmed \/ WriteConfirmed
<1>1. CASE MarkStarted \/ LoadFinished \/ Download \/ CleanUpDuplicatedAccounts \/ CleanUpClosedAccounts \/ OneShot
  BY <1>1 DEF MarkStarted, LoadFinished, Download, CleanUpDuplicatedAccounts, CleanUpClosedAccounts, OneShot
<1>2. CASE SaveBlock
  BY <1>2 DEF SaveBlock
<1>3. CASE WriteMasks \/ WriteRows
  <2>1. confirmed' = confirmed
    BY <1>3 DEF WriteMasks, WriteRows, SaveMasks, SaveRows
  <2> QED
    BY <1>3, <2>1 DEF WriteMasks, WriteRows
<1>4. CASE WriteConfirmed
  BY <1>4 DEF WriteConfirmed
<1>5. CASE (\E v \in unread : ReadAccount(v)) \/ (\E v \in scanned : InsertAccount(v))
  BY <1>5 DEF ReadAccount, InsertAccount
<1>6. CASE (\E s \in Slots : FinalizeRow(s)) \/ FinalizeKeys \/ StartupDrain
  BY <1>6 DEF FinalizeRow, FinalizeKeys, StartupDrain
<1>7. CASE UNCHANGED startupVars
  BY <1>7 DEF startupVars
<1>8. CASE \E b \in Carries : ProcessSnapshotIfNeeded(b)
  BY <1>8 DEF ProcessSnapshotIfNeeded
<1> QED
  BY <1>1, <1>2, <1>3, <1>4, <1>5, <1>6, <1>7, <1>8, StartSteps DEF WriteMasks, WriteRows, WriteConfirmed

\* The owner map is ahead of the newest block only if that is the newest of the pair.
Ahead(S) == main # "wait" => \A k \in Keys : owners[k].slot = head => S = head

\* The pair is of slot S of the stream: what the load has yet to insert and what it
\* inserted are the chain at S, the blocks below were saved while it read, and the
\* one-shot deletes only what is below S or later.
PairOf(S) ==
  /\ S \in (mode.quiet + 1)..head
  /\ (mode.quiet + 1)..(S - 1) \subseteq early
  /\ loader = "files" => FilesHold(S)
  /\ loader # "files" => SnapshotHolds(S)
  /\ Ahead(S)
  /\ loader = "done" => S = mode.quiet + 1 \/ S - 1 <= finalTip
  /\ oneShot.at # "none" => S <= oneShot.cutoff

\* No entry is of a slot to come.
LEMMA EntrySlots ==
  ASSUME StartType, StartHistory, StartMap, NEW k \in Keys
  PROVE  owners[k].slot \in 0..head
<1>1. owners[k].slot \in Nat /\ head \in Nat
  BY StartFacts
<1>2. CASE Known(k)
  <2>1. mode.map
    BY <1>2 DEF StartHistory, MapUnused, Known
  <2> QED
    BY <1>1, <1>2, <2>1 DEF StartMap, EntriesFollow
<1>3. CASE ~Known(k)
  BY <1>1, <1>3 DEF Known, NoEntry
<1> QED
  BY <1>2, <1>3

\* The owner map gets ahead of the newest block only by a file of the pair.
LEMMA AheadStep ==
  ASSUME StartType, StartOrder, StartHistory, StartMap, NEW S \in 0..head, loader = "files" => FilesHold(S),
         Ahead(S), [StartupNext]_startupVars
  PROVE  Ahead(S)'
<1> SUFFICES ASSUME main' # "wait", NEW k \in Keys, owners'[k].slot = head' PROVE S = head'
  BY DEF Ahead
<1>0. head \in Nat
  BY StartFacts
<1>1. ASSUME NEW b \in Carries, ProcessSnapshotIfNeeded(b) PROVE FALSE
  <2>1. head' = head + 1 /\ owners' = owners
    BY <1>1, OrderArrival DEF ProcessSnapshotIfNeeded
  <2> QED
    BY <1>0, <2>1, EntrySlots
<1>2. ~SaveBlock /\ ~WriteMasks
  <2>1. ~SaveBlock
    BY DEF SaveBlock
  <2>2. WriteMasks => main' = main /\ main = "wait"
    BY OrderWrites, OrderFacts DEF WriteMasks, StartOrder
  <2> QED
    BY <2>1, <2>2
<1>3. main # "wait" /\ head' = head
  <2>1. MarkStarted => main # "wait"
    BY DEF MarkStarted
  <2> QED
    BY <1>1, <1>2, <2>1, Changers, PhaseChangers
<1>4. CASE owners' = owners
  BY <1>3, <1>4 DEF Ahead
<1>5. ASSUME NEW v \in unread, ReadAccount(v), owners' # owners PROVE S = head
  <2>1. loader = "files" /\ owners' = [owners EXCEPT ![v.key] = [owner |-> update[v.slot][v.key], slot |-> v.slot]]
    BY <1>5 DEF ReadAccount, SeedOwner
  <2>2. v.slot <= S /\ v.slot \in Nat /\ v.key \in Keys /\ owners \in [Keys -> Entry]
    BY <2>1, StartFacts DEF FilesHold, StartType, Version
  <2>3. CASE k # v.key
    <3>1. owners'[k] = owners[k]
      BY <2>1, <2>2, <2>3
    <3> QED
      BY <1>3, <3>1 DEF Ahead
  <2>4. CASE k = v.key
    <3>1. owners'[k] = [owner |-> update[v.slot][v.key], slot |-> v.slot]
      BY <2>1, <2>2, <2>4
    <3>2. owners'[k].slot = v.slot
      BY <3>1
    <3> QED
      BY <1>0, <1>3, <2>2, <3>2
  <2> QED
    BY <2>3, <2>4
<1> QED
  BY <1>1, <1>2, <1>3, <1>4, <1>5, Changers

\* The download starts the pair.
LEMMA PairStarts ==
  ASSUME StartType, StartOrder, StartPhase, Ahead(0), Download
  PROVE  \E S \in Slots : S \in (mode.quiet + 1)..head /\ PairOf(S)'
<1>1. PICK S \in Slots : Suitable(S) /\ unread' \in PairVersions(S)
  BY DEF Download
<1>2. /\ loader = "download" /\ loader' = "files"
      /\ UNCHANGED <<mode, head, update, owners, main, scanned, versions, snapshot, oneShot, early>>
  BY DEF Download
<1>3. FilesHold(S)'
  BY <1>1, <1>2, FilesDownloaded
<1>4. S \in (mode.quiet + 1)..head
  BY <1>1 DEF Suitable
<1>5. (mode.quiet + 1)..(S - 1) \subseteq early
  <2>1. (mode.quiet + 1)..Begun \subseteq early
    BY <1>2 DEF StartPhase, LoadPhase, WithoutLoad
  <2>2. head - 1 <= Begun /\ Begun \in Nat /\ head \in Nat /\ mode.quiet \in Nat
    BY OrderFacts, StartFacts DEF Begun
  <2> QED
    BY <1>4, <2>1, <2>2
<1>6. Ahead(S)'
  <2>1. ASSUME NEW k \in Keys, main # "wait" PROVE owners[k].slot # head
    <3>1. head # 0
      BY <2>1, OrderFacts, StartFacts
    <3> QED
      BY <2>1, <3>1 DEF Ahead
  <2> QED
    BY <1>2, <2>1 DEF Ahead
<1>7. oneShot.at = "none"
  BY <1>2 DEF StartPhase, LoadPhase, WithoutLoad, OneShotPhase
<1> QED
  BY <1>2, <1>3, <1>4, <1>5, <1>6, <1>7 DEF PairOf

\* And goes on to be it.
LEMMA PairStep ==
  ASSUME StartType, StartOrder, StartPhase, StartHistory, StartMap, Ordinary(mode),
         loader \notin {"none", "download"}, NEW S \in Slots, PairOf(S), [StartupNext]_startupVars
  PROVE  /\ loader' \notin {"none", "download"} /\ PairOf(S)'
         /\ loader' = "files" => loader = "files"
<1>0. /\ head \in Nat /\ head' \in Nat /\ head <= head' /\ finalTip \in Nat /\ finalTip' \in Nat
      /\ finalTip <= finalTip' /\ mode' = mode /\ mode.quiet \in Nat /\ S \in Nat
      /\ mode.quiet + 1 <= S /\ S <= head
  BY StartGrows, StartFacts DEF PairOf
<1>1. mode.load /\ head # mode.quiet
  BY <1>0 DEF StartPhase, LoadPhase, WithoutLoad
<1>2. \A b \in Carries : ProcessSnapshotIfNeeded(b) => loader' = loader
  <2>1. snapState # "NotStarted" \/ main = "mark"
    BY <1>1 DEF StartPhase, LoadPhase, WithoutLoad
  <2> QED
    BY <2>1 DEF ProcessSnapshotIfNeeded
<1>3. \/ loader' = loader
      \/ CleanUpDuplicatedAccounts /\ loader = "files" /\ loader' = "closed"
      \/ CleanUpClosedAccounts /\ loader = "closed" /\ loader' = "flip"
      \/ LoadFinished /\ loader = "flip" /\ loader' = "done"
  BY <1>2, PhaseChangers DEF Download, CleanUpDuplicatedAccounts, CleanUpClosedAccounts, LoadFinished
<1>4. S \in 0..head /\ S \in (mode'.quiet + 1)..head' /\ mode.quiet < S
  BY <1>0
<1>5. (mode'.quiet + 1)..(S - 1) \subseteq early'
  <2>1. early \subseteq early'
    BY PhaseChangers DEF SaveBlock
  <2> QED
    BY <1>0, <2>1 DEF PairOf
<1>6. loader' = "files" => FilesHold(S)'
  BY <1>3, <1>4, FilesStep DEF PairOf
<1>7. loader' # "files" => SnapshotHolds(S)'
  <2>1. CASE loader = "files" /\ loader' # "files"
    <3>1. CleanUpDuplicatedAccounts /\ FilesHold(S)
      BY <1>3, <2>1 DEF PairOf
    <3> QED
      BY <1>0, <1>4, <3>1, Deduplicated
  <2>2. CASE loader # "files"
    BY <1>4, <2>2, SnapshotStep DEF PairOf
  <2> QED
    BY <2>1, <2>2
<1>8. Ahead(S)'
  BY <1>4, AheadStep DEF PairOf
<1>9. loader' = "done" => S = mode'.quiet + 1 \/ S - 1 <= finalTip'
  <2>1. CASE loader = "done"
    BY <1>0, <2>1 DEF PairOf
  <2>2. CASE LoadFinished
    <3> SUFFICES ASSUME S # mode.quiet + 1 PROVE S - 1 <= finalTip
      BY <1>0
    <3>1. S - 1 \in early /\ S - 1 \in Slots
      BY <1>0, StartFacts DEF PairOf
    <3>2. blocks[S - 1] = NoBlock
      BY <1>1, <2>2, <3>1 DEF LoadFinished, Ordinary
    <3>3. ~blocks[S - 1].saved
      BY <3>2 DEF NoBlock
    <3>4. S - 1 \in (mode.quiet + 1)..Done
      <4>1. head - 1 <= Done /\ Done \in Nat
        BY <1>0, OrderFacts DEF Done
      <4> QED
        BY <1>0, <4>1
    <3> QED
      BY <3>3, <3>4 DEF StartOrder
  <2> QED
    BY <1>3, <2>1, <2>2
<1>10. oneShot'.at # "none" => S <= oneShot'.cutoff
  <2> SUFFICES ASSUME oneShot'.at # "none" PROVE S <= oneShot'.cutoff
    OBVIOUS
  <2>1. CASE OneShot
    <3>1. oneShot \in OneShotType
      BY DEF StartType
    <3>2. oneShot.at # "none" /\ oneShot'.cutoff = oneShot.cutoff
      BY <2>1, <3>1 DEF OneShot, OneShotType
    <3> QED
      BY <3>2 DEF PairOf
  <2>2. CASE oneShot' = oneShot
    BY <2>2 DEF PairOf
  <2>3. ASSUME NEW s \in Slots, FinalizeRow(s), oneShot' # oneShot PROVE S <= oneShot'.cutoff
    <3>1. CleanupDue /\ oneShot'.cutoff = s /\ fin = 0 /\ blocks[s].saved
      BY <2>3 DEF FinalizeRow, CleanupStoredAccountsOnce
    <3>2. loader = "done"
      BY <1>1, <3>1 DEF CleanupDue, StartPhase, LoadPhase, WithoutLoad
    <3>3. blocks[s] # NoBlock
      BY <3>1 DEF NoBlock
    <3>4. mode.quiet < s /\ ~(s <= finalTip)
      <4>1. s # fin
        BY <3>1, StartFacts
      <4> QED
        BY <3>3, <4>1 DEF StartOrder
    <3>5. S = mode.quiet + 1 \/ S - 1 <= finalTip
      BY <3>2 DEF PairOf
    <3> QED
      BY <1>0, <3>1, <3>4, <3>5, StartFacts
  <2> QED
    BY <2>1, <2>2, <2>3, Changers DEF FinalizeKeys
<1>11. loader' \notin {"none", "download"} /\ (loader' = "files" => loader = "files")
  BY <1>3
<1> QED
  BY <1>4, <1>5, <1>6, <1>7, <1>8, <1>9, <1>10, <1>11 DEF PairOf

----------------------------------------------------------------------------
(* Versions that ended                                                     *)

\* The keys of a recorded block that the cache will take.
BlockKeys(s) == {p.key : p \in blocks[s].open} \cup blocks[s].closed

\* The one-shot deletes, or has deleted, what the pair holds of a key below a slot.
Cached(k, s) ==
  /\ s <= finalTip /\ blocks[s] = NoBlock
  /\ oneShot.at = "none" => k \in cache
  /\ oneShot.at \in {"run", "failed"} => k \in oneShot.keys /\ s < oneShot.cutoff
  /\ oneShot.at = "done" => \A r \in snapshot : r.key = k => r.slot >= s

\* What a block touched that was saved while files were left to read is cached, or is
\* going to be.
EarlyHandled ==
  mode.load => \A s \in early, k \in Keys : Touched(k, s) =>
    Cached(k, s) \/ (loader # "done" /\ k \in BlockKeys(s))

\* Once the load is over there are no closed rows of the pair.
LoadedOpen == loader = "done" => \A r \in snapshot : r.open

\* Without the owner map rows and masks are of programs the chain writes under.
StreamOwners == ~mode.map => \A r \in accounts : r.owner \in mode.updates \cup mode.before

\* What is cached stays so.
LEMMA CachedKept ==
  ASSUME StartType, StartOrder, StartPhase, NEW k \in Keys, NEW s \in Slots, Cached(k, s),
         [StartupNext]_startupVars
  PROVE  Cached(k, s)'
<1>0. /\ finalTip \in Nat /\ finalTip' \in Nat /\ finalTip <= finalTip' /\ s \in Nat /\ head \in Nat
      /\ s <= finalTip /\ blocks[s] = NoBlock
      /\ oneShot \in OneShotType /\ finalTip <= Done /\ Done \in Nat
  <2>1. s \in Nat /\ s <= finalTip /\ blocks[s] = NoBlock
    BY StartFacts DEF Cached
  <2>2. /\ finalTip \in Nat /\ finalTip' \in Nat /\ finalTip <= finalTip' /\ head \in Nat
    BY StartGrows
  <2>3. oneShot \in OneShotType
    BY DEF StartType
  <2>4. confirmed \in Nat /\ finalTip <= confirmed /\ confirmed <= Done /\ Done \in Nat
    BY OrderFacts, StartFacts
  <2>5. finalTip <= Done
    BY <2>2, <2>4
  <2> QED
    BY <2>1, <2>2, <2>3, <2>4, <2>5
<1>1. s <= finalTip'
  BY <1>0
<1>2. blocks'[s] = NoBlock
  <2>1. CASE SaveBlock
    <3>1. Done = head - 1 /\ SaveStart("main", head, update[head], MaskWork)
      BY <2>1, OrderTaken DEF SaveBlock
    <3>2. update[head] \in [Keys -> AllUpdates] /\ MaskWork \in SUBSET AllWork /\ head \in Slots
      BY <2>1, StreamSlot DEF MaskWork, AllWork, SaveBlock
    <3>3. s # head
      BY <1>0, <3>1
    <3> QED
      BY <1>0, <3>1, <3>2, <3>3, BlockStarted
  <2>2. CASE WriteConfirmed
    <3>1. Done = head - 1 /\ \A u \in Slots : u # head => blocks'[u] = blocks[u]
      BY <2>2, OrderConfirmed DEF WriteConfirmed
    <3> QED
      BY <1>0, <3>1
  <2>3. CASE FinalizeKeys
    BY <1>0, <2>3, OrderQueued
  <2> QED
    BY <1>0, <2>1, <2>2, <2>3, Changers
<1>3. CASE UNCHANGED <<cache, oneShot>>
  <2>1. oneShot.at = "done" => snapshot' \subseteq snapshot
    <3> SUFFICES ASSUME oneShot.at = "done" PROVE snapshot' \subseteq snapshot
      OBVIOUS
    <3>1. loader = "done"
      BY DEF StartPhase, OneShotPhase, LoadPhase
    <3> QED
      BY <3>1, Changers DEF InsertAccount, CleanUpDuplicatedAccounts, CleanUpClosedAccounts, OneShot,
         BelowUniformCutoff, StartupDrain, DeleteBelow
  <2> QED
    BY <1>1, <1>2, <1>3, <2>1 DEF Cached
<1>4. ASSUME NEW f \in Slots, FinalizeRow(f) PROVE Cached(k, s)'
  <2>1. snapshot' = snapshot /\ finalTip < f /\ f \in Nat
    BY <1>4, PhaseFinalize, OrderFinalized, StartFacts
  <2>2. CASE CleanupDue
    <3>1. oneShot.at = "none" /\ oneShot' = [at |-> "run", keys |-> cache, cutoff |-> f]
      BY <1>4, <2>2, PhaseFinalize
    <3>2. oneShot'.at = "run" /\ oneShot'.keys = cache /\ oneShot'.cutoff = f
      BY <3>1
    <3>3. k \in cache /\ s < f
      BY <1>0, <2>1, <3>1 DEF Cached
    <3> QED
      BY <1>1, <1>2, <3>2, <3>3 DEF Cached
  <2>3. CASE ~CleanupDue
    <3>1. UNCHANGED <<oneShot, cache>>
      BY <1>4, <2>3, PhaseFinalize
    <3> QED
      BY <1>3, <3>1
  <2> QED
    BY <2>2, <2>3
<1>5. CASE FinalizeKeys
  <2>1. UNCHANGED <<snapshot, oneShot>> /\ cache \subseteq cache'
    BY <1>5 DEF FinalizeKeys
  <2> QED
    BY <1>1, <1>2, <2>1 DEF Cached
<1>6. CASE OneShot
  <2>1. oneShot.at = "run" /\ k \in oneShot.keys /\ s < oneShot.cutoff /\ oneShot.cutoff \in Nat
    BY <1>6, StartFacts DEF OneShot, Cached, StartType, OneShotType
  <2>2. CASE oneShot' = [oneShot EXCEPT !.at = "done"] /\ snapshot' = BelowUniformCutoff(oneShot.keys, oneShot.cutoff)
    <3>1. oneShot'.at = "done"
      BY <1>0, <2>2 DEF OneShotType
    <3>2. \A r \in snapshot' : r.slot \in Nat
      BY <2>2, StartFacts DEF BelowUniformCutoff, StartType, LoadRow
    <3>3. \A r \in snapshot' : r.key = k => r.slot >= s
      BY <1>0, <2>1, <2>2, <3>2 DEF BelowUniformCutoff
    <3> QED
      BY <1>1, <1>2, <3>1, <3>3 DEF Cached
  <2>3. CASE oneShot' = [oneShot EXCEPT !.at = "failed"]
    <3>1. oneShot'.at = "failed" /\ oneShot'.keys = oneShot.keys /\ oneShot'.cutoff = oneShot.cutoff
      BY <1>0, <2>3 DEF OneShotType
    <3> QED
      BY <1>1, <1>2, <2>1, <3>1 DEF Cached
  <2> QED
    BY <1>6, <2>2, <2>3 DEF OneShot
<1> QED
  BY <1>3, <1>4, <1>5, <1>6, Changers

\* A key that finalize_slot takes from a block during startup is cached then.
LEMMA CachedThen ==
  ASSUME StartType, StartOrder, StartPhase, FinalizeKeys, IsStartup, NEW k \in Keys,
         NEW s, s = fin, k \in BlockKeys(fin) \/ \E p \in blocks[fin].pairs : mode.map /\ p.key = k
  PROVE  Cached(k, s)'
<1>1. /\ fin \in Slots /\ fin = finalTip /\ blocks'[fin] = NoBlock /\ finalTip' = finalTip
      /\ oneShot' = oneShot /\ cache' = cache \cup CacheKeys(fin) /\ fin <= finalTip
  BY OrderQueued, StartFacts DEF FinalizeKeys
<1>2. oneShot.at = "none"
  BY DEF StartPhase, OneShotPhase
<1>3. k \in CacheKeys(fin)
  <2>1. ASSUME NEW p \in blocks[fin].open, p.key = k PROVE \E i \in KeysForSlot(fin) : i.key = k
    <3>1. CASE mode.map
      <4>1. [at |-> fin, key |-> p.key, owner |-> p.owner, cutoff |-> fin] \in KeysForSlot(fin)
        BY <2>1, <3>1 DEF KeysForSlot
      <4> QED
        BY <2>1, <4>1
    <3>2. CASE ~mode.map
      <4>1. [at |-> fin, key |-> p.key, owner |-> NoOwner, cutoff |-> fin] \in KeysForSlot(fin)
        BY <2>1, <3>2 DEF KeysForSlot
      <4> QED
        BY <2>1, <4>1
    <3> QED
      BY <3>1, <3>2
  <2>2. ASSUME NEW p \in blocks[fin].pairs, mode.map, p.key = k PROVE \E i \in KeysForSlot(fin) : i.key = k
    <3>1. [at |-> fin, key |-> p.key, owner |-> p.owner, cutoff |-> fin + 1] \in KeysForSlot(fin)
      BY <2>2 DEF KeysForSlot
    <3> QED
      BY <2>2, <3>1
  <2>3. (\E i \in KeysForSlot(fin) : i.key = k) => k \in CacheKeys(fin)
    BY DEF CacheKeys
  <2>4. k \in blocks[fin].closed => k \in CacheKeys(fin)
    BY DEF CacheKeys
  <2> QED
    BY <2>1, <2>2, <2>3, <2>4 DEF BlockKeys
<1>5. k \in cache' /\ oneShot'.at = "none"
  BY <1>1, <1>2, <1>3
<1>4. s <= finalTip' /\ blocks'[s] = NoBlock
  BY <1>1
<1> QED
  BY <1>4, <1>5 DEF Cached

\* What save_block records while files are left to read has every key it touched.
LEMMA EarlyRecorded ==
  ASSUME StartType, StartOrder, StartPhase, UpdatesInUse, NoneLeaves, Ordinary(mode), SaveBlock,
         head \in early', NEW k \in Keys, Touched(k, head)
  PROVE  loader # "done" /\ k \in BlockKeys(head)'
<1>1. /\ mode.load /\ IsStartup /\ (unread # {} \/ loader = "download") /\ head' = head /\ head \in Slots
  BY PhaseTaken, StreamSlot DEF SaveBlock
<1>2. loader \in {"download", "files"}
  BY <1>1 DEF StartPhase, LoadPhase
<1>3. /\ SaveStart("main", head, update[head], MaskWork) /\ update[head] \in [Keys -> AllUpdates]
      /\ MaskWork \in SUBSET AllWork /\ main = "save"
  BY StreamSlot DEF SaveBlock, MaskWork, AllWork
<1>4. blocks'[head].open = OpenBy(update[head]) /\ blocks'[head].closed = ClosedBy(update[head], head)
  <2>1. blocks'[head] = [saved |-> FALSE, open |-> OpenBy(update[head]), closed |-> ClosedBy(update[head], head),
                         pairs |-> IF mode.map THEN PairsBy(update[head], head) ELSE {}]
    BY <1>1, <1>3, BlockStarted
  <2> QED
    BY <2>1
<1>5. update[head][k] \in Owners \cup {"closed"}
  <2>1. update[head][k] \in AllUpdates /\ update[head][k] # "none"
    BY <1>3 DEF Touched
  <2>2. update[head][k] # "other"
    <3>1. CASE mode.map
      BY <1>1, <1>2, <1>3, <3>1 DEF NoneLeaves
    <3>2. CASE ~mode.map
      <4>1. PICK o \in Owners : \A s \in 0..MaxSlot, j \in Keys : update[s][j] \in {"none", "closed", o}
        BY <3>2, OneProgram
      <4>2. head \in 0..MaxSlot
        BY DEF StartType
      <4> QED
        BY <4>1, <4>2, StoreAssumption
    <3> QED
      BY <3>1, <3>2
  <2> QED
    BY <2>1, <2>2 DEF AllUpdates
<1>6. CASE update[head][k] \in Owners
  <2>1. [key |-> k, owner |-> update[head][k]] \in OpenBy(update[head])
    BY <1>6 DEF OpenBy
  <2>2. \E p \in blocks'[head].open : p.key = k
    BY <1>4, <2>1
  <2> QED
    BY <1>1, <1>2, <2>2 DEF BlockKeys
<1>7. CASE update[head][k] = "closed"
  <2>1. k \in ClosedBy(update[head], head)
    BY <1>7 DEF ClosedBy
  <2> QED
    BY <1>1, <1>2, <1>4, <2>1 DEF BlockKeys
<1> QED
  BY <1>5, <1>6, <1>7

\* Nothing is early at the start.
LEMMA EarlyInit == StartupInit => EarlyHandled
  BY DEF StartupInit, EarlyHandled

\* Blocks saved while files were left to read stay accounted for.
LEMMA EarlyStep ==
  ASSUME StartType, StartOrder, StartPhase, UpdatesInUse, NoneLeaves, Ordinary(mode), EarlyHandled,
         [StartupNext]_startupVars
  PROVE  EarlyHandled'
<1>0. /\ mode' = mode /\ head \in Nat /\ early \subseteq Slots /\ early \subseteq (mode.quiet + 1)..Begun
      /\ Begun \in Nat /\ Begun <= head /\ mode.quiet \in Nat
      /\ \A k \in Keys, s \in 0..head : Touched(k, s)' <=> Touched(k, s)
  BY StartGrows, StartFacts, OrderFacts, ChainKept DEF StartType, StartPhase, SlotsSaved
<1> SUFFICES ASSUME mode.load, NEW s \in early', NEW k \in Keys, Touched(k, s)'
             PROVE  Cached(k, s)' \/ (loader' # "done" /\ k \in BlockKeys(s)')
  BY <1>0 DEF EarlyHandled
<1>1. CASE s \notin early
  <2>1. SaveBlock /\ s = head /\ head' = head /\ head \in early' /\ loader' = loader
    BY <1>1, PhaseChangers, PhaseTaken DEF SaveBlock
  <2>2. Touched(k, head)
    BY <1>0, <2>1
  <2>3. loader # "done" /\ k \in BlockKeys(head)'
    BY <2>1, <2>2, EarlyRecorded
  <2> QED
    BY <2>1, <2>3
<1>2. CASE s \in early
  <2>1. Touched(k, s) /\ s \in Slots /\ s \in 0..head /\ s <= Begun
    BY <1>0, <1>2
  <2>2. CASE Cached(k, s)
    BY <2>1, <2>2, CachedKept
  <2>3. CASE ~Cached(k, s)
    <3>1. loader # "done" /\ k \in BlockKeys(s)
      BY <1>2, <2>1, <2>3 DEF EarlyHandled
    <3>2. IsStartup
      BY <3>1 DEF StartPhase, LoadPhase
    <3>3. ~LoadFinished
      <4> SUFFICES ASSUME LoadFinished PROVE FALSE
        OBVIOUS
      <4>1. blocks[s] = NoBlock
        BY <1>2 DEF LoadFinished, Ordinary
      <4>2. NoBlock.open = {} /\ NoBlock.closed = {}
        BY DEF NoBlock
      <4> QED
        BY <3>1, <4>1, <4>2 DEF BlockKeys
    <3>4. loader' # "done"
      BY <3>1, <3>3, PhaseChangers DEF ProcessSnapshotIfNeeded, Download, CleanUpDuplicatedAccounts,
         CleanUpClosedAccounts
    <3>5. CASE FinalizeKeys /\ s = fin
      BY <3>1, <3>2, <3>5, CachedThen
    <3>6. CASE ~(FinalizeKeys /\ s = fin)
      <4>1. blocks'[s].open = blocks[s].open /\ blocks'[s].closed = blocks[s].closed
        <5>1. CASE SaveBlock
          <6>1. Begun = head - 1 /\ SaveStart("main", head, update[head], MaskWork)
            BY <5>1, OrderTaken DEF SaveBlock
          <6>2. update[head] \in [Keys -> AllUpdates] /\ MaskWork \in SUBSET AllWork /\ head \in Slots
            BY <5>1, StreamSlot DEF MaskWork, AllWork, SaveBlock
          <6>3. s # head
            BY <1>0, <2>1, <6>1
          <6> QED
            BY <2>1, <6>1, <6>2, <6>3, BlockStarted
        <5>2. CASE WriteConfirmed
          <6>1. /\ \A u \in Slots : u # head => blocks'[u] = blocks[u]
                /\ blocks'[head] = [blocks[head] EXCEPT !.saved = TRUE]
            BY <5>2, OrderConfirmed DEF WriteConfirmed
          <6>2. CASE s # head
            BY <2>1, <6>1, <6>2
          <6>3. CASE s = head
            <7>1. blocks[head] \in BlockData
              BY <2>1, <6>3 DEF StartType
            <7> QED
              BY <6>1, <6>3, <7>1 DEF BlockData
          <6> QED
            BY <6>2, <6>3
        <5>3. CASE FinalizeKeys
          BY <2>1, <3>6, <5>3, OrderQueued
        <5> QED
          BY <5>1, <5>2, <5>3, Changers
      <4> QED
        BY <3>1, <3>4, <4>1 DEF BlockKeys
    <3> QED
      BY <3>5, <3>6
  <2> QED
    BY <2>2, <2>3
<1> QED
  BY <1>1, <1>2

\* When masks are written the load is over.
LEMMA OverWhenMasked ==
  ASSUME StartType, StartOrder, StartPhase, LoadedOpen, "masks" \in saver["main"].todo
  PROVE  /\ ~IsStartup /\ main = "wait" /\ unread = {} /\ scanned = {} /\ Busy("main")
         /\ mode.load => loader = "done"
         /\ \A r \in snapshot : r.open
<1>1. Busy("main") /\ main = "wait" /\ Begun = head /\ mode.quiet < head /\ head \in Nat /\ mode.quiet \in Nat
  BY OrderFacts, StartFacts DEF StartOrder
<1>2. ~IsStartup
  BY <1>1 DEF StartPhase, SlotsSaved
<1>3. mode.load => loader = "done" /\ unread = {} /\ scanned = {} /\ \A r \in snapshot : r.open
  <2> SUFFICES ASSUME mode.load
               PROVE  loader = "done" /\ unread = {} /\ scanned = {} /\ \A r \in snapshot : r.open
    OBVIOUS
  <2>1. loader = "done" /\ unread = {} /\ scanned = {}
    BY <1>2 DEF StartPhase, LoadPhase
  <2> QED
    BY <2>1 DEF LoadedOpen
<1>4. ~mode.load => unread = {} /\ scanned = {} /\ snapshot = {}
  BY DEF StartPhase, WithoutLoad
<1>5. unread = {} /\ scanned = {} /\ \A r \in snapshot : r.open
  BY <1>3, <1>4
<1> QED
  BY <1>1, <1>2, <1>3, <1>5

\* Without the owner map a mask is written under the owner of a row of its key.
LEMMA ScannedFrom ==
  ASSUME NEW m \in MaskByScan(saver["main"].closed, saver["main"].slot), NEW r \in m
  PROVE  \E n \in accounts \cup snapshot : n.key = r.key /\ n.owner = r.owner
<1> DEFINE rows == {q \in accounts \cup snapshot : q.key = r.key}
           newest == {q \in rows : \A p \in rows : p.slot <= q.slot}
<1>1. r.key \in saver["main"].closed
  BY ScannedMask
<1>2. PICK n \in newest : n.owner = r.owner
  <2>1. \A k \in saver["main"].closed : \A q \in m : q.key = k =>
          \E n \in {x \in {y \in accounts \cup snapshot : y.key = k} :
                     \A p \in {y \in accounts \cup snapshot : y.key = k} : p.slot <= x.slot} : n.owner = q.owner
    BY DEF MaskByScan
  <2> QED
    BY <1>1, <2>1
<1> QED
  BY <1>2

\* No rows at the start.
LEMMA StreamOwnersInit == StartupInit => StreamOwners
  BY DEF StartupInit, StreamOwners, CleanupInit

\* Rows and masks are of programs the chain writes under.
LEMMA StreamOwnersStep ==
  ASSUME StartType, StartOrder, StartPhase, StartHistory, UpdatesInUse, LoadedOpen, StreamOwners,
         [StartupNext]_startupVars
  PROVE  StreamOwners'
<1> DEFINE used == mode.updates \cup mode.before
<1>0. mode' = mode /\ head \in 0..MaxSlot
  BY StartGrows DEF StartType
<1> SUFFICES ASSUME ~mode.map, NEW r \in accounts' PROVE r.owner \in used
  BY <1>0 DEF StreamOwners
<1>1. CASE r \in accounts
  BY <1>1 DEF StreamOwners
<1>2. CASE WriteRows /\ r \notin accounts
  <2>1. r \in OpenRows("main") /\ Busy("main")
    BY <1>2, OrderWrites, RowsInserted DEF WriteRows
  <2>2. PICK o \in OpenBy(update[head]) :
          r = [key |-> o.key, owner |-> o.owner, slot |-> saver["main"].slot, open |-> TRUE]
    BY <2>1 DEF OpenRows, StartHistory, WritesFollow
  <2>3. o.key \in Keys /\ o.owner = update[head][o.key] /\ o.owner \in Owners
    BY DEF OpenBy
  <2>4. update[head][o.key] \in used
    BY <1>0, <2>3, StoreAssumption DEF UpdatesInUse
  <2> QED
    BY <2>2, <2>3, <2>4
<1>3. CASE WriteMasks /\ r \notin accounts
  <2>1. PICK m \in MaskByScan(saver["main"].closed, saver["main"].slot) : r \in m
    BY <1>3, MasksInserted DEF WriteMasks
  <2>2. PICK n \in accounts \cup snapshot : n.owner = r.owner
    BY <2>1, ScannedFrom
  <2>3. CASE n \in accounts
    BY <2>2, <2>3 DEF StreamOwners
  <2>4. CASE n \in snapshot
    <3>1. n.open
      BY <1>3, <2>4, OverWhenMasked DEF WriteMasks, SaveMasks
    <3>2. n.owner \in Owners /\ update[n.slot][n.key] = n.owner /\ n.key \in Keys /\ n.slot \in 0..MaxSlot
      BY <2>4, <3>1 DEF StartHistory, PairFollows, StartType, LoadRow
    <3> QED
      BY <2>2, <3>2, StoreAssumption DEF UpdatesInUse
  <2> QED
    BY <2>3, <2>4
<1>4. CASE StartupDrain
  BY <1>1, <1>4 DEF StartupDrain, DeleteBelow
<1> QED
  BY <1>1, <1>2, <1>3, <1>4, Changers

\* Without the owner map, when masks are written every row is of the one program.
LEMMA OneOwner ==
  ASSUME StartType, StartOrder, StartPhase, StartHistory, UpdatesInUse, LoadedOpen, StreamOwners,
         Ordinary(mode), ~mode.map, "masks" \in saver["main"].todo
  PROVE  \E o \in Owners : \A r \in accounts \cup snapshot : r.owner = o
<1>1. PICK o \in Owners : mode.updates \cup mode.before \subseteq {"none", "closed", o}
  BY DEF Ordinary
<1>2. \A r \in accounts : r.owner \in Owners /\ r.owner \in mode.updates \cup mode.before
  BY DEF StreamOwners, StartType, Row
<1>3. ASSUME NEW r \in snapshot PROVE r.owner \in Owners /\ r.owner \in mode.updates \cup mode.before
  <2>1. r.open
    BY OverWhenMasked
  <2>2. r.owner \in Owners /\ update[r.slot][r.key] = r.owner /\ r.key \in Keys /\ r.slot \in 0..MaxSlot
    BY <2>1 DEF StartHistory, PairFollows, StartType, LoadRow
  <2> QED
    BY <2>2, StoreAssumption DEF UpdatesInUse
<1> QED
  BY <1>1, <1>2, <1>3, StoreAssumption

\* A slot that takes a key away from a program.
Ends(k, o, s) == update[s][k] \notin {"none", o}

\* There is a mask.
HasMask(k, o, s) == [key |-> k, owner |-> o, slot |-> s, open |-> FALSE] \in accounts

\* save_block is going to mask the key.
MaskComing(k, o, s) ==
  /\ s = head /\ Busy("main") /\ "masks" \in saver["main"].todo
  /\ mode.map => \/ k \in saver["main"].closed /\ Known(k) /\ owners[k].owner = o
                 \/ [slot |-> s, key |-> k, owner |-> o] \in changed
  /\ ~mode.map => k \in saver["main"].closed

\* finalize_slot is going to queue it.
Routed(k, o, s) ==
  /\ s \in unmasked /\ blocks[s] # NoBlock
  /\ mode.map => [key |-> k, owner |-> o] \in blocks[s].pairs
  /\ ~mode.map => k \in blocks[s].closed

\* The mask of a slot is there or on its way.
Marked(k, o, s) == HasMask(k, o, s) \/ MaskComing(k, o, s) \/ Routed(k, o, s)

\* The drainer is going to delete what is below.
Hits(i, k, o, s) == i.key = k /\ i.owner \in {NoOwner, o} /\ s < i.cutoff
Queued(k, o, s) == s \in unmasked /\ \E i \in queue : Hits(i, k, o, s)

\* The main loop saw the load finish: masks are written and snapshot_accounts is
\* drained from here on.
Settled == ~IsStartup /\ main # "mark"

\* From then on it stays so.
LEMMA SettledStays ==
  ASSUME StartType, StartOrder, StartPhase, Settled, [StartupNext]_startupVars
  PROVE  Settled'
<1>1. CASE \E b \in Carries : ProcessSnapshotIfNeeded(b)
  BY <1>1 DEF ProcessSnapshotIfNeeded, Settled, IsStartup
<1>2. CASE MarkStarted \/ LoadFinished \/ OneShot \/ SaveBlock
  BY <1>2 DEF MarkStarted, LoadFinished, OneShot, SaveBlock, Settled, IsStartup
<1>3. CASE UNCHANGED <<main, snapState>>
  BY <1>3 DEF Settled, IsStartup
<1> QED
  BY <1>1, <1>2, <1>3, PhaseChangers

\* The masks to come are written.
LEMMA MaskWritten ==
  ASSUME StartType, StartOrder, StartPhase, StartHistory, UpdatesInUse, LoadedOpen, StreamOwners,
         Ordinary(mode), WriteMasks, NEW k \in Keys, NEW o \in Owners, NEW s, MaskComing(k, o, s),
         \E r \in accounts \cup snapshot : r.key = k /\ r.owner = o
  PROVE  HasMask(k, o, s)'
<1> DEFINE m == [key |-> k, owner |-> o, slot |-> s, open |-> FALSE]
<1>0. s = head /\ saver["main"].slot = head /\ "masks" \in saver["main"].todo /\ SaveMasks("main") /\ ~mode.maskFails
  BY OrderWrites DEF MaskComing, WriteMasks, Ordinary
<1>1. CASE mode.map
  <2>1. RoutedMasks("main") \subseteq accounts'
    BY <1>0, <1>1, MasksComplete
  <2>2. m \in RoutedMasks("main")
    <3>1. CASE k \in saver["main"].closed /\ Known(k) /\ owners[k].owner = o
      BY <1>0, <3>1 DEF RoutedMasks
    <3>2. CASE [slot |-> s, key |-> k, owner |-> o] \in changed
      <4> DEFINE c == [slot |-> s, key |-> k, owner |-> o]
      <4>1. c \in changed /\ c.slot = saver["main"].slot /\ c.key = k /\ c.owner = o
        BY <1>0, <3>2
      <4>2. m = [key |-> c.key, owner |-> c.owner, slot |-> saver["main"].slot, open |-> FALSE]
        BY <1>0, <4>1
      <4> HIDE DEF c, m
      <4> QED
        BY <4>1, <4>2 DEF RoutedMasks
    <3> QED
      BY <1>1, <3>1, <3>2 DEF MaskComing
  <2> QED
    BY <2>1, <2>2 DEF HasMask
<1>2. CASE ~mode.map
  <2>1. PICK ms \in MaskByScan(saver["main"].closed, saver["main"].slot) : ms \subseteq accounts'
    BY <1>0, <1>2, MasksComplete
  <2>2. \A r \in accounts \cup snapshot : r.owner = o
    BY <1>0, <1>2, OneOwner
  <2>3. k \in saver["main"].closed
    BY <1>2 DEF MaskComing
  <2> DEFINE rows == {r \in accounts \cup snapshot : r.key = k}
             own == {r \in ms : r.key = k}
  <2>4. rows # {}
    OBVIOUS
  <2>5. Cardinality(own) = IF rows = {} THEN 0 ELSE 1
    BY <2>1, <2>3 DEF MaskByScan
  <2>6. own # {}
    <3>1. \A S : S = {} => Cardinality(S) = 0
      BY FS_EmptySet
    <3>2. Cardinality(own) = 1
      BY <2>4, <2>5
    <3>3. own = {} => Cardinality(own) = 0
      BY <3>1
    <3> QED
      BY <3>2, <3>3
  <2>7. PICK q \in ms : q.key = k
    BY <2>6
  <2>8. q.owner = o
    BY <2>1, <2>2, <2>7, ScannedFrom
  <2>9. q = [key |-> q.key, owner |-> q.owner, slot |-> saver["main"].slot, open |-> FALSE]
    BY <2>1, <2>7, ScannedMask
  <2>10. q = m
    BY <1>0, <2>7, <2>8, <2>9
  <2> QED
    BY <2>1, <2>7, <2>10 DEF HasMask
<1> QED
  BY <1>1, <1>2

\* What is queued stays so until it is drained.
LEMMA QueuedStep ==
  ASSUME StartType, StartOrder, NEW k \in Keys, NEW o \in Owners, NEW s \in Nat, Queued(k, o, s),
         [StartupNext]_startupVars
  PROVE  Queued(k, o, s)' \/ (StartupDrain /\ \E i \in queue : Hits(i, k, o, s))
<1>1. s \in unmasked'
  BY PhaseChangers DEF Queued, SaveBlock
<1>2. CASE UNCHANGED queue
  BY <1>1, <1>2 DEF Queued, Hits
<1>3. CASE StartupDrain
  BY <1>3 DEF Queued
<1>4. CASE FinalizeKeys
  <2>1. PICK i \in queue : Hits(i, k, o, s)
    BY DEF Queued
  <2>2. queue' = MergeByMax(queue \cup KeysForSlot(fin)) /\ queue \cup KeysForSlot(fin) \in SUBSET Item
    BY <1>4, OrderQueued, QueuedKeysType DEF FinalizeKeys, StartType
  <2>3. PICK j \in queue' : j.key = i.key /\ j.owner = i.owner /\ i.cutoff <= j.cutoff
    BY <2>1, <2>2, MergeKeepsCutoffs
  <2>4. i \in Item /\ j \in Item
    BY <2>1, <2>2, <2>3, MergeSelects
  <2>5. i.cutoff \in Nat /\ j.cutoff \in Nat
    BY <2>4, CleanupAssumption DEF Item
  <2>6. j.key = k /\ j.owner \in {NoOwner, o} /\ s < j.cutoff
    BY <2>1, <2>3, <2>5 DEF Hits
  <2> QED
    BY <1>1, <2>3, <2>6 DEF Queued, Hits
<1> QED
  BY <1>2, <1>3, <1>4, Changers

\* When its slot is finalized, what was routed is queued.
LEMMA RoutedQueued ==
  ASSUME StartType, StartOrder, StartPhase, FinalizeKeys, NEW k \in Keys, NEW o \in Owners,
         NEW s, s = fin, Routed(k, o, s)
  PROVE  Queued(k, o, s)' /\ (Settled' \/ Cached(k, s)')
<1>1. /\ fin \in Slots /\ fin = finalTip /\ unmasked' = unmasked /\ UNCHANGED <<snapState, main>>
      /\ queue' = MergeByMax(queue \cup KeysForSlot(fin)) /\ queue \cup KeysForSlot(fin) \in SUBSET Item
      /\ fin \in Nat
  BY OrderQueued, QueuedKeysType, StartFacts DEF FinalizeKeys, StartType
<1>2. PICK i \in KeysForSlot(fin) : i.key = k /\ i.owner \in {NoOwner, o} /\ i.cutoff = fin + 1
  <2>1. CASE mode.map
    <3> DEFINE p == [key |-> k, owner |-> o]
               i == [at |-> fin, key |-> p.key, owner |-> p.owner, cutoff |-> fin + 1]
    <3>1. p \in blocks[fin].pairs
      BY <2>1 DEF Routed
    <3>2. i \in KeysForSlot(fin)
      BY <2>1, <3>1 DEF KeysForSlot
    <3>3. i.key = k /\ i.owner = o /\ i.cutoff = fin + 1
      OBVIOUS
    <3> QED
      BY <3>2, <3>3
  <2>2. CASE ~mode.map
    <3> DEFINE i == [at |-> fin, key |-> k, owner |-> NoOwner, cutoff |-> fin + 1]
    <3>1. k \in blocks[fin].closed
      BY <2>2 DEF Routed
    <3>2. i \in KeysForSlot(fin)
      BY <2>2, <3>1 DEF KeysForSlot
    <3>3. i.key = k /\ i.owner = NoOwner /\ i.cutoff = fin + 1
      OBVIOUS
    <3> QED
      BY <3>2, <3>3
  <2> QED
    BY <2>1, <2>2
<1>3. PICK j \in queue' : j.key = i.key /\ j.owner = i.owner /\ i.cutoff <= j.cutoff
  BY <1>1, <1>2, MergeKeepsCutoffs
<1>4. j \in Item
  BY <1>1, <1>3, MergeSelects
<1>5. j.cutoff \in Nat
  BY <1>4, CleanupAssumption DEF Item
<1>6. Queued(k, o, s)'
  <2>1. s < j.cutoff
    BY <1>1, <1>2, <1>3, <1>5
  <2>2. s \in unmasked'
    BY <1>1 DEF Routed
  <2> QED
    BY <1>2, <1>3, <2>1, <2>2 DEF Queued, Hits
<1>7. CASE IsStartup
  <2>1. k \in BlockKeys(fin) \/ \E p \in blocks[fin].pairs : mode.map /\ p.key = k
    BY DEF Routed, BlockKeys
  <2> QED
    BY <1>6, <1>7, <2>1, CachedThen
<1>8. CASE ~IsStartup
  <2>1. main # "mark"
    <3>1. mode.quiet < finalTip /\ finalTip <= Done /\ Done \in Nat /\ mode.quiet \in Nat /\ finalTip \in Nat
      BY <1>1, OrderFacts, StartFacts DEF StartOrder
    <3>2. main = "mark" => head = mode.quiet + 1 /\ Done = head - 1
      BY OrderFacts DEF StartPhase, SlotsSaved
    <3> QED
      BY <3>1, <3>2
  <2> QED
    BY <1>1, <1>6, <1>8, <2>1 DEF Settled, IsStartup
<1> QED
  BY <1>7, <1>8

\* A version that ended is accounted for until the drainer deletes it.
LEMMA MarkedStep ==
  ASSUME StartType, StartOrder, StartPhase, StartHistory, UpdatesInUse, LoadedOpen, StreamOwners,
         Ordinary(mode), NEW k \in Keys, NEW o \in Owners, NEW s \in Slots, s <= Begun, Marked(k, o, s),
         WriteMasks => \E r \in accounts \cup snapshot : r.key = k /\ r.owner = o,
         [StartupNext]_startupVars
  PROVE  \/ Marked(k, o, s)'
         \/ Queued(k, o, s)' /\ (Settled' \/ Cached(k, s)')
         \/ StartupDrain /\ Settled /\ \E i \in queue : Hits(i, k, o, s)
<1>0. /\ mode' = mode /\ s \in Nat /\ head \in Nat /\ Begun \in Nat
  BY StartGrows, StartFacts, OrderFacts
<1>1. CASE HasMask(k, o, s)
  <2> DEFINE m == [key |-> k, owner |-> o, slot |-> s, open |-> FALSE]
  <2>1. m \in accounts /\ m.key = k /\ m.owner = o /\ m.slot = s /\ m.open = FALSE
    BY <1>1 DEF HasMask
  <2> HIDE DEF m
  <2>2. Settled
    BY <2>1 DEF StartPhase, SlotsSaved, Settled
  <2>3. CASE m \in accounts'
    BY <2>3 DEF Marked, HasMask, m
  <2>4. CASE m \notin accounts'
    <3>1. StartupDrain
      BY <2>1, <2>4, Changers DEF WriteMasks, WriteRows, SaveMasks, SaveRows
    <3>2. PICK i \in queue : i.key = k /\ i.owner \in {NoOwner, o} /\ ~(s >= i.cutoff)
      BY <2>1, <2>4, <3>1 DEF StartupDrain, DeleteBelow
    <3>3. i.cutoff \in Nat
      BY CleanupAssumption DEF StartType, Item
    <3> QED
      BY <1>0, <2>2, <3>1, <3>2, <3>3 DEF Hits
  <2> QED
    BY <2>3, <2>4
<1>2. CASE MaskComing(k, o, s)
  <2>1. s = head /\ Busy("main") /\ "masks" \in saver["main"].todo /\ main = "wait" /\ ~IsStartup
    BY <1>2, OverWhenMasked DEF MaskComing
  <2>2. CASE WriteMasks
    <3>1. \E r \in accounts \cup snapshot : r.key = k /\ r.owner = o
      BY <2>2
    <3>2. HasMask(k, o, s)'
      BY <1>2, <2>2, <3>1, MaskWritten
    <3> QED
      BY <3>2 DEF Marked
  <2>3. CASE ~WriteMasks
    <3>1. ~SaveBlock /\ ~WriteConfirmed /\ (\A b \in Carries : ~ProcessSnapshotIfNeeded(b))
      BY <2>1 DEF SaveBlock, WriteConfirmed, SaveConfirm, ProcessSnapshotIfNeeded, Busy
    <3>2. \A v \in unread : ~ReadAccount(v)
      BY <2>1 DEF ReadAccount, StartPhase, LoadPhase, WithoutLoad
    <3>3. UNCHANGED <<head, owners, changed>> /\ (UNCHANGED saver \/ WriteRows)
      BY <2>3, <3>1, <3>2, Changers
    <3>4. Busy("main")' /\ "masks" \in saver'["main"].todo /\ saver'["main"].closed = saver["main"].closed
      <4>1. CASE UNCHANGED saver
        BY <2>1, <4>1 DEF Busy
      <4>2. CASE WriteRows
        <5>1. Busy("main")' /\ saver'["main"].todo = saver["main"].todo \ {"rows"}
              /\ saver'["main"].closed = saver["main"].closed
          BY <4>2, OrderWrites DEF WriteRows
        <5> QED
          BY <2>1, <5>1
      <4> QED
        BY <3>3, <4>1, <4>2
    <3>5. MaskComing(k, o, s)'
      BY <1>0, <1>2, <3>3, <3>4 DEF MaskComing, Known
    <3> QED
      BY <3>5 DEF Marked
  <2> QED
    BY <2>2, <2>3
<1>3. CASE Routed(k, o, s)
  <2>1. s \in unmasked'
    BY <1>3, PhaseChangers DEF Routed, SaveBlock
  <2>2. CASE FinalizeKeys /\ s = fin
    BY <1>3, <2>2, RoutedQueued
  <2>3. CASE ~(FinalizeKeys /\ s = fin)
    <3>1. blocks'[s] # NoBlock /\ blocks'[s].pairs = blocks[s].pairs /\ blocks'[s].closed = blocks[s].closed
      <4>1. CASE SaveBlock
        <5>1. Begun = head - 1 /\ SaveStart("main", head, update[head], MaskWork)
          BY <4>1, OrderTaken DEF SaveBlock
        <5>2. update[head] \in [Keys -> AllUpdates] /\ MaskWork \in SUBSET AllWork /\ head \in Slots
          BY <4>1, StreamSlot DEF MaskWork, AllWork, SaveBlock
        <5>3. s # head
          BY <1>0, <5>1
        <5> QED
          BY <1>3, <5>1, <5>2, <5>3, BlockStarted DEF Routed
      <4>2. CASE WriteConfirmed
        <5>1. /\ \A u \in Slots : u # head => blocks'[u] = blocks[u]
              /\ blocks'[head] = [blocks[head] EXCEPT !.saved = TRUE]
          BY <4>2, OrderConfirmed DEF WriteConfirmed
        <5>2. CASE s # head
          BY <1>3, <5>1, <5>2 DEF Routed
        <5>3. CASE s = head
          <6>1. blocks[head] \in BlockData
            BY <5>3 DEF StartType
          <6>2. /\ blocks'[head].saved = TRUE /\ blocks'[head].pairs = blocks[head].pairs
                /\ blocks'[head].closed = blocks[head].closed
            BY <5>1, <6>1 DEF BlockData
          <6>3. NoBlock.saved = FALSE
            BY DEF NoBlock
          <6> QED
            BY <5>3, <6>2, <6>3
        <5> QED
          BY <5>2, <5>3
      <4>3. CASE FinalizeKeys
        BY <1>3, <2>3, <4>3, OrderQueued DEF Routed
      <4> QED
        BY <1>3, <4>1, <4>2, <4>3, Changers DEF Routed
    <3>2. Routed(k, o, s)'
      BY <1>0, <1>3, <2>1, <3>1 DEF Routed
    <3> QED
      BY <3>2 DEF Marked
  <2> QED
    BY <2>2, <2>3
<1> QED
  BY <1>1, <1>2, <1>3 DEF Marked

\* save_block notices that the newest block ends a version.
LEMMA EndNoted ==
  ASSUME StartType, StartOrder, StartPhase, StartHistory, UpdatesInUse, StartMap, Ordinary(mode), SaveBlock,
         NEW k \in Keys, NEW t \in 0..Begun, update[t][k] \in Owners,
         \A s \in (t + 1)..Begun : ~Ends(k, update[t][k], s), Ends(k, update[t][k], head),
         mode.map => Remembered(k, t),
         mode.map /\ owners[k].slot = head => mode.quiet < t
  PROVE  \A o : o = update[t][k] => Routed(k, o, head)' \/ MaskComing(k, o, head)'
<1> DEFINE o == update[t][k]
           u == update[head][k]
<1>0. /\ head \in Slots /\ head \in Nat /\ Begun = head - 1 /\ mode' = mode /\ head' = head
      /\ SaveStart("main", head, update[head], MaskWork) /\ update[head] \in [Keys -> AllUpdates]
      /\ MaskWork \in SUBSET AllWork /\ main = "save" /\ mode.quiet \in Nat /\ head <= MaxSlot /\ MaxSlot \in Nat
      /\ Owners \cap {"none", "other", "closed"} = {}
  BY StartFacts, OrderTaken, StreamSlot, StoreAssumption DEF SaveBlock, MaskWork, AllWork
<1>1. /\ saver'["main"] = [busy |-> TRUE, slot |-> head, open |-> OpenBy(update[head]),
                           closed |-> ClosedBy(update[head], head), todo |-> MaskWork]
      /\ blocks'[head] = [saved |-> FALSE, open |-> OpenBy(update[head]), closed |-> ClosedBy(update[head], head),
                          pairs |-> IF mode.map THEN PairsBy(update[head], head) ELSE {}]
      /\ owners' = Upsert(update[head], head) /\ changed' = changed \cup ChangedBy(update[head], head)
  BY <1>0, BlockStarted
<1>2. /\ saver'["main"].busy /\ saver'["main"].closed = ClosedBy(update[head], head) /\ saver'["main"].todo = MaskWork
      /\ blocks'[head].closed = ClosedBy(update[head], head)
      /\ mode.map => blocks'[head].pairs = PairsBy(update[head], head)
  <2> HIDE DEF u, o
  <2> QED
    BY <1>1
<1>3. o \in Owners /\ u \notin {"none", o} /\ u \in AllUpdates
  BY <1>0 DEF Ends
<1> HIDE DEF o, u
\* The block holds it.
<1>4. ~mode.map => k \in ClosedBy(update[head], head)
  <2> SUFFICES ASSUME ~mode.map PROVE k \in ClosedBy(update[head], head)
    OBVIOUS
  <2>1. PICK p \in Owners : \A s \in 0..MaxSlot, j \in Keys : update[s][j] \in {"none", "closed", p}
    BY OneProgram
  <2>2. head \in 0..MaxSlot /\ t \in 0..MaxSlot
    BY <1>0
  <2>3. o \in {"none", "closed", p} /\ u \in {"none", "closed", p}
    BY <2>1, <2>2 DEF o, u
  <2>4. u = "closed"
    BY <1>0, <1>3, <2>3
  <2> QED
    BY <2>4 DEF ClosedBy, u
<1>5. ASSUME mode.map
      PROVE  /\ [key |-> k, owner |-> o] \in PairsBy(update[head], head)
             /\ \/ k \in ClosedBy(update[head], head) /\ Known(k)' /\ owners'[k].owner = o
                \/ [slot |-> head, key |-> k, owner |-> o] \in changed'
  <2>1. Known(k)
    <3>1. t \in 0..head /\ Remembered(k, t)
      BY <1>0, <1>5
    <3>2. Known(k) \/ \E s \in MaskedSlots : t < s /\ update[s][k] \in Gone
      BY <1>5, <3>1 DEF StartMap, HeardKnown
    <3>3. ASSUME NEW s \in MaskedSlots, t < s, update[s][k] \in Gone PROVE FALSE
      <4>1. s \in (t + 1)..Begun
        BY <1>0, <3>3 DEF MaskedSlots
      <4>2. update[s][k] \in {"none", o}
        BY <4>1 DEF Ends, o
      <4> QED
        BY <1>0, <1>3, <3>3, <4>2 DEF Gone
    <3> QED
      BY <3>2, <3>3
  <2> DEFINE e == owners[k].slot
             eo == owners[k].owner
  <2>2. /\ e \in Nat /\ e <= head /\ update[e][k] = eo /\ eo \in Owners
        /\ \A x \in e..Begun : update[x][k] \in Owners => update[x][k] = eo
    BY <1>5, <2>1, StartFacts DEF StartMap, EntriesFollow
  <2> HIDE DEF e, eo
  <2>3. CASE e = head
    <3>1. eo = u
      BY <2>2, <2>3 DEF u
    <3>2. t \in (mode.quiet + 1)..Begun
      BY <1>0, <1>5, <2>3 DEF e
    <3>3. \A s \in (t + 1)..Begun : update[s][k] \in {"none", update[t][k]}
      BY DEF Ends
    <3>4. update[t][k] # update[head][k] /\ update[t][k] \in Owners
      BY <1>3 DEF u, o
    <3>5. [slot |-> head, key |-> k, owner |-> o] \in changed
      BY <1>0, <1>5, <2>1, <2>3, <3>2, <3>3, <3>4 DEF StartMap, AheadNoted, e, o
    <3> DEFINE c == [slot |-> head, key |-> k, owner |-> o]
    <3>6. c \in changed \cup ChangedBy(update[head], head) /\ c.slot = head
          /\ [key |-> k, owner |-> o] = [key |-> c.key, owner |-> c.owner]
      BY <3>5
    <3>7. c \in changed'
      BY <1>1, <3>6
    <3>8. [key |-> k, owner |-> o] \in PairsBy(update[head], head)
      <4> HIDE DEF c
      <4> QED
        BY <3>6 DEF PairsBy
    <3> QED
      BY <3>7, <3>8
  <2>4. CASE e # head
    <3>1. eo = o
      <4>1. CASE e <= t
        <5>1. t \in e..Begun
          BY <1>0, <2>2, <4>1
        <5> QED
          BY <1>3, <2>2, <5>1 DEF o
      <4>2. CASE ~(e <= t)
        <5>1. e \in (t + 1)..Begun
          BY <1>0, <2>2, <2>4, <4>2
        <5>2. update[e][k] \in {"none", o}
          BY <5>1 DEF Ends, o
        <5> QED
          BY <1>0, <2>2, <5>2
      <4> QED
        BY <4>1, <4>2
    <3>2. e < head
      BY <1>0, <2>2, <2>4
    <3>3. CASE u \in Owners
      <4>1. OwnerMoved(k, u, head)
        BY <1>3, <2>1, <3>1, <3>2 DEF OwnerMoved, e, eo
      <4>2. [slot |-> head, key |-> k, owner |-> owners[k].owner] \in ChangedBy(update[head], head)
        BY <3>3, <4>1 DEF ChangedBy, u
      <4> DEFINE c == [slot |-> head, key |-> k, owner |-> o]
      <4>3. c \in changed \cup ChangedBy(update[head], head) /\ c.slot = head
            /\ [key |-> k, owner |-> o] = [key |-> c.key, owner |-> c.owner]
        BY <3>1, <4>2 DEF eo
      <4>4. c \in changed'
        BY <1>1, <4>3
      <4>5. [key |-> k, owner |-> o] \in PairsBy(update[head], head)
        <5> HIDE DEF c
        <5> QED
          BY <4>3 DEF PairsBy
      <4> QED
        BY <4>4, <4>5
    <3>4. CASE u \notin Owners
      <4>1. u \in {"closed", "other"}
        BY <1>3, <3>4 DEF AllUpdates
      <4>2. k \in ClosedBy(update[head], head)
        <5>1. u = "other" => OwnerMoved(k, "other", head)
          BY <1>0, <2>1, <2>2, <3>2 DEF OwnerMoved, e, eo
        <5> QED
          BY <4>1, <5>1 DEF ClosedBy, u
      <4>3. Upsert(update[head], head)[k] = owners[k]
        BY <3>4 DEF Upsert, u
      <4>4. owners'[k] = owners[k] /\ Known(k)'
        BY <1>1, <2>1, <4>3 DEF Known
      <4>5. [key |-> k, owner |-> o] \in PairsBy(update[head], head)
        BY <2>1, <3>1, <4>2, <4>3 DEF PairsBy, Known, eo
      <4> QED
        BY <3>1, <4>2, <4>4, <4>5 DEF eo
    <3> QED
      BY <3>3, <3>4
  <2> QED
    BY <2>3, <2>4
<1>6. CASE IsStartup
  <2>1. head \in unmasked'
    BY <1>6, PhaseTaken
  <2>2. blocks'[head] # NoBlock
    <3>1. NoBlock.closed = {} /\ NoBlock.pairs = {}
      BY DEF NoBlock
    <3> QED
      BY <1>2, <1>4, <1>5, <3>1
  <2>3. mode.map => [key |-> k, owner |-> o] \in blocks'[head].pairs
    BY <1>2, <1>5
  <2>4. ~mode.map => k \in blocks'[head].closed
    BY <1>2, <1>4
  <2>5. ASSUME NEW p, p = o PROVE Routed(k, p, head)'
    <3>1. mode'.map => [key |-> k, owner |-> p] \in blocks'[head'].pairs
      BY <1>0, <2>3, <2>5
    <3>2. ~mode'.map => k \in blocks'[head'].closed
      BY <1>0, <2>4
    <3>3. head' \in unmasked' /\ blocks'[head'] # NoBlock
      BY <1>0, <2>1, <2>2
    <3> QED
      BY <3>1, <3>2, <3>3 DEF Routed
  <2> QED
    BY <2>5 DEF o
<1>7. CASE ~IsStartup
  <2>1. "masks" \in saver'["main"].todo /\ Busy("main")'
    BY <1>2, <1>7 DEF MaskWork, AllWork, Busy
  <2>2. \A p : p = o => MaskComing(k, p, head)'
    BY <1>0, <1>2, <1>4, <1>5, <2>1 DEF MaskComing
  <2> QED
    BY <2>2 DEF o
<1> QED
  BY <1>6, <1>7

\* A row of the stream that ended under its program is masked, or its delete is on
\* the way.
StreamRowsHandled ==
  \A r \in accounts : r.open =>
    \A v \in (r.slot + 1)..Begun : Ends(r.key, r.owner, v) =>
      \E s \in (r.slot + 1)..v :
        Ends(r.key, r.owner, s) /\ (Marked(r.key, r.owner, s) \/ Queued(r.key, r.owner, s))

\* A version of the pair that is not inserted yet, or the row of one.
PairRow(k, t) ==
  [key |-> k, slot |-> t] \in unread \cup scanned \/ RowOf(k, t) \in snapshot

\* Slot s ended version k under o, and the one-shot, a mask or the drainer sees to it.
Excused(k, o, s) ==
  \/ s \in early \/ Cached(k, s) \/ Marked(k, o, s)
  \/ Settled /\ Queued(k, o, s)

\* So is a row of the pair, or the one-shot is going to delete it.
PairRowsHandled(S) ==
  \A k \in Keys, t \in 0..S :
    update[t][k] \in Owners /\ Untouched(k, t + 1, S) /\ PairRow(k, t) =>
      \A v \in (S + 1)..Begun : Ends(k, update[t][k], v) =>
        \E s \in (S + 1)..v :
          Ends(k, update[t][k], s) /\ Excused(k, update[t][k], s)

\* The slots save_block has taken in grow by the newest one.
LEMMA BegunStep ==
  ASSUME StartType, StartOrder, [StartupNext]_startupVars
  PROVE  /\ Begun \in Nat /\ Begun <= head /\ head \in Nat /\ Begun' <= head /\ Begun' \in Nat
         /\ Begun' = Begun \/ (SaveBlock /\ Begun' = head /\ Begun = head - 1 /\ main # "wait")
         /\ mode' = mode /\ \A s \in 0..head, k \in Keys : update'[s][k] = update[s][k]
<1>0. /\ Begun \in Nat /\ Begun <= head /\ head \in Nat /\ mode' = mode
      /\ \A s \in 0..head : update'[s] = update[s]
  BY OrderFacts, StartGrows
<1>1. CASE \E b \in Carries : ProcessSnapshotIfNeeded(b)
  BY <1>0, <1>1, OrderArrival
<1>2. CASE SaveBlock
  <2>1. main # "wait"
    BY <1>2 DEF SaveBlock
  <2> QED
    BY <1>0, <1>2, <2>1, OrderTaken
<1>3. CASE MarkStarted
  BY <1>0, <1>3, OrderElse
<1>4. CASE head' = head /\ main' = main
  BY <1>0, <1>4 DEF Begun
<1> QED
  BY <1>0, <1>1, <1>2, <1>3, <1>4, PhaseChangers, Changers

\* No rows at the start.
LEMMA StreamHandledInit == StartupInit => StreamRowsHandled
  BY DEF StartupInit, StreamRowsHandled, CleanupInit

\* Rows of the stream stay accounted for.
LEMMA StreamHandledStep ==
  ASSUME StartType, StartOrder, StartPhase, StartHistory, UpdatesInUse, LoadedOpen, StreamOwners, StartMap,
         Ordinary(mode), StreamRowsHandled, [StartupNext]_startupVars
  PROVE  StreamRowsHandled'
<1>0. /\ Begun \in Nat /\ Begun <= head /\ head \in Nat /\ Begun' <= head /\ Begun' \in Nat /\ mode' = mode
      /\ Begun' = Begun \/ (SaveBlock /\ Begun' = head /\ Begun = head - 1)
      /\ \A s \in 0..head, k \in Keys : update'[s][k] = update[s][k]
      /\ head <= MaxSlot /\ MaxSlot \in Nat /\ mode.quiet \in Nat
  BY BegunStep, StartFacts
<1> SUFFICES ASSUME NEW r \in accounts', r.open, NEW v \in (r.slot + 1)..Begun', Ends(r.key, r.owner, v)'
             PROVE  \E s \in (r.slot + 1)..v :
                      Ends(r.key, r.owner, s)' /\ (Marked(r.key, r.owner, s)' \/ Queued(r.key, r.owner, s)')
  BY DEF StreamRowsHandled
<1>1. CASE r \notin accounts
  <2>1. ~WriteMasks
    <3> SUFFICES ASSUME WriteMasks PROVE FALSE
      OBVIOUS
    <3>1. \/ r \in RoutedMasks("main")
          \/ \E m \in MaskByScan(saver["main"].closed, saver["main"].slot) : r \in m
      BY <1>1, MasksInserted DEF WriteMasks
    <3>2. CASE r \in RoutedMasks("main")
      BY <3>2 DEF RoutedMasks
    <3>3. CASE \E m \in MaskByScan(saver["main"].closed, saver["main"].slot) : r \in m
      <4>1. r = [key |-> r.key, owner |-> r.owner, slot |-> saver["main"].slot, open |-> FALSE]
        BY <3>3, ScannedMask
      <4>2. r.open = FALSE
        BY <4>1
      <4> QED
        BY <4>2
    <3> QED
      BY <3>1, <3>2, <3>3
  <2>2. WriteRows
    BY <1>1, <2>1, Changers DEF StartupDrain, DeleteBelow
  <2>3. r.slot = head
    BY <1>1, <2>2, OrderWrites, RowsInserted DEF WriteRows, OpenRows
  <2> QED
    BY <1>0, <2>3
<1>2. CASE r \in accounts
  <2> DEFINE k == r.key
             o == r.owner
             t == r.slot
  <2>1. /\ k \in Keys /\ o \in Owners /\ t \in Nat /\ mode.quiet < t /\ t <= head /\ update[t][k] = o
    BY <1>2, StartFacts DEF StartType, Row, StartHistory, StreamRowsFollow, RowFollowsChain
  <2>2. ASSUME NEW w \in (t + 1)..Begun, Ends(k, o, w)
        PROVE  \E s \in (t + 1)..w : Ends(k, o, s)' /\ (Marked(k, o, s)' \/ Queued(k, o, s)')
    <3>1. PICK s \in (t + 1)..w : Ends(k, o, s) /\ (Marked(k, o, s) \/ Queued(k, o, s))
      BY <1>2, <2>2 DEF StreamRowsHandled
    <3>2. s \in Slots /\ s \in Nat /\ s <= Begun /\ s \in 0..head /\ t < s
      BY <1>0, <2>1, StartFacts
    <3> HIDE DEF k, o, t
    <3>3. Ends(k, o, s)'
      <4>1. \A p : p = o => Ends(k, p, s)'
        BY <1>0, <2>1, <3>1, <3>2 DEF Ends
      <4> QED
        BY <4>1 DEF o, k
    <3>4. \/ Marked(k, o, s)' \/ Queued(k, o, s)'
          \/ StartupDrain /\ \E i \in queue : Hits(i, k, o, s)
      <4>1. \E q \in accounts \cup snapshot : q.key = k /\ q.owner = o
        BY <1>2 DEF k, o
      <4>2. CASE Marked(k, o, s)
        <5>1. \/ Marked(k, o, s)'
              \/ Queued(k, o, s)' /\ (Settled' \/ Cached(k, s)')
              \/ StartupDrain /\ Settled /\ \E i \in queue : Hits(i, k, o, s)
          BY <2>1, <3>2, <4>1, <4>2, MarkedStep
        <5> QED
          BY <5>1
      <4>3. CASE Queued(k, o, s)
        BY <2>1, <3>2, <4>3, QueuedStep
      <4> QED
        BY <3>1, <4>2, <4>3
    <3>5. ASSUME StartupDrain, NEW i \in queue, Hits(i, k, o, s) PROVE FALSE
      <4>1. r.slot >= i.cutoff
        BY <3>5 DEF StartupDrain, DeleteBelow, Hits, k, o
      <4>2. i.cutoff \in Nat
        BY CleanupAssumption DEF StartType, Item
      <4> QED
        BY <2>1, <3>2, <3>5, <4>1, <4>2 DEF Hits, t
    <3> QED
      BY <3>3, <3>4, <3>5
  <2>3. CASE v \in (t + 1)..Begun
    <3>1. Ends(k, o, v)
      <4>1. v \in 0..head
        BY <1>0, <2>1
      <4> QED
        BY <1>0, <2>1, <4>1 DEF Ends
    <3> QED
      BY <2>2, <2>3, <3>1
  <2>4. CASE v \notin (t + 1)..Begun
    <3>1. SaveBlock /\ v = head /\ v = Begun + 1 /\ t <= Begun
      BY <1>0, <2>1, <2>4
    <3>2. Ends(k, o, head)
      <4>1. head \in 0..head
        BY <1>0
      <4> QED
        BY <1>0, <2>1, <3>1, <4>1 DEF Ends
    <3>3. CASE \E w \in (t + 1)..Begun : Ends(k, o, w)
      <4>1. PICK w \in (t + 1)..Begun : Ends(k, o, w)
        BY <3>3
      <4>2. PICK s \in (t + 1)..w : Ends(k, o, s)' /\ (Marked(k, o, s)' \/ Queued(k, o, s)')
        BY <2>2, <4>1
      <4>3. s \in (t + 1)..v
        BY <1>0, <2>1, <3>1
      <4> QED
        BY <4>2, <4>3
    <3>4. CASE \A w \in (t + 1)..Begun : ~Ends(k, o, w)
      <4> HIDE DEF k, o, t
      <4>1. t \in 0..Begun /\ t \in (mode.quiet + 1)..Begun
        BY <1>0, <2>1, <3>1
      <4>2. Remembered(k, t)
        BY <4>1 DEF Remembered
      <4>3. \A p : p = update[t][k] => Routed(k, p, head)' \/ MaskComing(k, p, head)'
        BY <2>1, <3>1, <3>2, <3>4, <4>1, <4>2, EndNoted
      <4>4. Routed(r.key, r.owner, head)' \/ MaskComing(r.key, r.owner, head)'
        BY <2>1, <4>3 DEF k, o
      <4>5. v \in (r.slot + 1)..v /\ head' = head
        BY <3>1 DEF SaveBlock
      <4>6. Marked(r.key, r.owner, v)'
        BY <3>1, <4>4, <4>5 DEF Marked
      <4> QED
        BY <4>5, <4>6
    <3> QED
      BY <3>3, <3>4
  <2> QED
    BY <2>3, <2>4
<1> QED
  BY <1>1, <1>2

\* At the download every block saved since the first is early.
LEMMA PairHandledStarts ==
  ASSUME StartType, StartOrder, StartPhase, Download, NEW S \in Nat, mode.quiet < S
  PROVE  PairRowsHandled(S)'
<1>1. /\ UNCHANGED <<mode, update, main, head, early>> /\ loader = "download" /\ Begun' = Begun
      /\ Begun \in Nat /\ mode.quiet \in Nat
  BY OrderFacts, StartFacts DEF Download, Begun
<1>2. (mode.quiet + 1)..Begun \subseteq early
  BY <1>1 DEF StartPhase, LoadPhase, WithoutLoad
<1> SUFFICES ASSUME NEW k \in Keys, NEW t \in 0..S, NEW v \in (S + 1)..Begun, Ends(k, update[t][k], v)'
             PROVE  \E s \in (S + 1)..v : (Ends(k, update[t][k], s) /\ Excused(k, update[t][k], s))'
  BY <1>1 DEF PairRowsHandled
<1>3. v \in early /\ v \in (S + 1)..v
  BY <1>1, <1>2
<1>4. Excused(k, update[t][k], v)'
  BY <1>1, <1>3 DEF Excused
<1> QED
  BY <1>3, <1>4

\* What of the pair is there was there before.
LEMMA PairRowBefore ==
  ASSUME StartType, StartOrder, ~Download, NEW k \in Keys, NEW t \in 0..head, PairRow(k, t)',
         [StartupNext]_startupVars
  PROVE  PairRow(k, t)
<1> DEFINE x == [key |-> k, slot |-> t]
           r == RowOf(k, t)
<1>1. RowOf(k, t)' = r
  BY ChainKept
<1>2. x \in unread' \cup scanned' \/ r \in snapshot'
  BY <1>1 DEF PairRow
<1>3. r.key = k /\ r.slot = t /\ r.open = TRUE /\ r.owner = update[t][k]
  BY DEF RowOf
<1> HIDE DEF r
<1>4. CASE x \in unread' \cup scanned'
  <2>1. x \in unread \cup scanned
    BY <1>4, Changers DEF ReadAccount, InsertAccount
  <2> QED
    BY <2>1 DEF PairRow
<1>5. CASE r \in snapshot' /\ r \notin snapshot
  <2>1. ~CleanUpDuplicatedAccounts /\ ~CleanUpClosedAccounts /\ ~OneShot /\ ~StartupDrain
    BY <1>5 DEF CleanUpDuplicatedAccounts, CleanUpClosedAccounts, OneShot, BelowUniformCutoff, StartupDrain,
       DeleteBelow
  <2>2. PICK v \in scanned : InsertAccount(v)
    BY <1>5, <2>1, Changers
  <2>3. r \in LoadedRow(v)
    BY <1>5, <2>2 DEF InsertAccount
  <2>4. r.key = v.key /\ r.slot = v.slot
    BY <2>3 DEF LoadedRow
  <2>5. v = [key |-> v.key, slot |-> v.slot]
    BY DEF StartType, Version
  <2>6. x = v
    BY <1>3, <2>4, <2>5
  <2> QED
    BY <2>6 DEF PairRow
<1>6. CASE r \in snapshot
  BY <1>6 DEF PairRow, r
<1> QED
  BY <1>2, <1>4, <1>5, <1>6

\* Rows of the pair stay accounted for.
LEMMA PairHandledStep ==
  ASSUME StartType, StartOrder, StartPhase, StartHistory, UpdatesInUse, LoadedOpen, StreamOwners, StartMap,
         Ordinary(mode), loader \notin {"none", "download"}, NEW S \in Slots, PairOf(S), PairRowsHandled(S),
         [StartupNext]_startupVars
  PROVE  PairRowsHandled(S)'
<1>0. /\ Begun \in Nat /\ Begun <= head /\ head \in Nat /\ Begun' <= head /\ Begun' \in Nat /\ mode' = mode
      /\ Begun' = Begun \/ (SaveBlock /\ Begun' = head /\ Begun = head - 1 /\ main # "wait")
      /\ \A s \in 0..head, k \in Keys : update'[s][k] = update[s][k]
      /\ head <= MaxSlot /\ MaxSlot \in Nat /\ mode.quiet \in Nat
      /\ S \in Nat /\ S <= head /\ mode.quiet < S /\ mode.load
  <2>1. S \in (mode.quiet + 1)..head /\ mode.load
    BY DEF PairOf, StartPhase, WithoutLoad
  <2> QED
    BY <2>1, BegunStep, StartFacts
<1>d. ~Download /\ (unread' # {} => unread # {})
  <2>1. ~Download
    BY DEF Download
  <2> QED
    BY <2>1, Changers DEF ReadAccount, InsertAccount
<1> SUFFICES ASSUME NEW k \in Keys, NEW t \in 0..S, update'[t][k] \in Owners, Untouched(k, t + 1, S)',
                    PairRow(k, t)', NEW v \in (S + 1)..Begun', Ends(k, update[t][k], v)'
             PROVE  \E s \in (S + 1)..v : (Ends(k, update[t][k], s) /\ Excused(k, update[t][k], s))'
  BY DEF PairRowsHandled
<1> DEFINE o == update[t][k]
<1>1. /\ t \in 0..head /\ t \in Nat /\ o \in Owners /\ update'[t][k] = o /\ Untouched(k, t + 1, S) /\ PairRow(k, t)
  <2>1. t \in 0..head /\ t + 1 \in Nat /\ S \in 0..head
    BY <1>0
  <2>2. Untouched(k, t + 1, S)
    BY <2>1, ChainKept
  <2>3. PairRow(k, t)
    BY <1>d, <2>1, PairRowBefore
  <2> QED
    BY <1>0, <2>1, <2>2, <2>3
<1>u. \A p : p = o => ((\E s \in (S + 1)..v : Ends(k, p, s)' /\ Excused(k, p, s)') =>
        \E s \in (S + 1)..v : (Ends(k, update[t][k], s) /\ Excused(k, update[t][k], s))')
  BY <1>1
<1>e. \A p : p = o => Ends(k, p, v)'
  BY <1>1
<1> SUFFICES ASSUME NEW p, p = o
             PROVE  \E s \in (S + 1)..v : Ends(k, p, s)' /\ Excused(k, p, s)'
  BY <1>u
<1>2. p \in Owners /\ Ends(k, p, v)' /\ p = update[t][k]
  BY <1>1, <1>e
<1> HIDE DEF o
<1>3. ASSUME NEW w \in (S + 1)..Begun, Ends(k, p, w)
      PROVE  \E s \in (S + 1)..w : Ends(k, p, s)' /\ Excused(k, p, s)'
  <2>1. PICK s \in (S + 1)..w : Ends(k, p, s) /\ Excused(k, p, s)
    BY <1>1, <1>2, <1>3 DEF PairRowsHandled
  <2>2. s \in Slots /\ s \in Nat /\ s <= Begun /\ s \in 0..head /\ t < s
    BY <1>0, <1>1, StartFacts
  <2>3. Ends(k, p, s)'
    BY <1>0, <2>1, <2>2 DEF Ends
  <2>4. ASSUME StartupDrain, Settled, NEW i \in queue, Hits(i, k, p, s) PROVE FALSE
    <3>1. loader = "done"
      BY <1>0, <2>4 DEF Settled, StartPhase, LoadPhase
    <3>2. unread' = {} /\ scanned' = {}
      BY <2>4, <3>1 DEF StartupDrain, StartPhase, LoadPhase, WithoutLoad
    <3>3. RowOf(k, t) \in snapshot'
      BY <1>1, <3>2, ChainKept DEF PairRow
    <3>4. snapshot' = DeleteBelow(snapshot, queue)
      BY <2>4 DEF StartupDrain, Settled
    <3>5. RowOf(k, t).key = k /\ RowOf(k, t).owner = p /\ RowOf(k, t).slot = t
      BY <1>2 DEF RowOf
    <3>6. t >= i.cutoff
      BY <2>4, <3>3, <3>4, <3>5 DEF DeleteBelow, Hits
    <3>7. i.cutoff \in Nat
      BY CleanupAssumption DEF StartType, Item
    <3> QED
      BY <1>1, <2>2, <2>4, <3>6, <3>7 DEF Hits
  <2>5. CASE s \in early
    BY <2>3, <2>5, PhaseChangers DEF SaveBlock, Excused
  <2>6. CASE Cached(k, s)
    BY <2>2, <2>3, <2>6, CachedKept DEF Excused
  <2>7. CASE Marked(k, p, s)
    <3>1. WriteMasks => \E q \in accounts \cup snapshot : q.key = k /\ q.owner = p
      <4> SUFFICES ASSUME WriteMasks PROVE \E q \in accounts \cup snapshot : q.key = k /\ q.owner = p
        OBVIOUS
      <4>1. unread = {} /\ scanned = {}
        BY OverWhenMasked DEF WriteMasks, SaveMasks
      <4>2. RowOf(k, t) \in snapshot
        BY <1>1, <4>1 DEF PairRow
      <4>3. RowOf(k, t).key = k /\ RowOf(k, t).owner = p
        BY <1>2 DEF RowOf
      <4> QED
        BY <4>2, <4>3
    <3>2. \/ Marked(k, p, s)'
          \/ Queued(k, p, s)' /\ (Settled' \/ Cached(k, s)')
          \/ StartupDrain /\ Settled /\ \E i \in queue : Hits(i, k, p, s)
      BY <1>2, <2>2, <2>7, <3>1, MarkedStep
    <3>3. Excused(k, p, s)'
      BY <2>4, <3>2 DEF Excused
    <3> QED
      BY <2>3, <3>3
  <2>8. CASE Settled /\ Queued(k, p, s)
    <3>1. Settled'
      BY <2>8, SettledStays
    <3>2. Queued(k, p, s)' \/ (StartupDrain /\ \E i \in queue : Hits(i, k, p, s))
      BY <1>2, <2>2, <2>8, QueuedStep
    <3>3. Excused(k, p, s)'
      BY <2>4, <2>8, <3>1, <3>2 DEF Excused
    <3> QED
      BY <2>3, <3>3
  <2> QED
    BY <2>1, <2>5, <2>6, <2>7, <2>8 DEF Excused
<1>4. CASE v \in (S + 1)..Begun
  <2>1. Ends(k, p, v)
    <3>1. v \in 0..head
      BY <1>0
    <3> QED
      BY <1>0, <1>2, <3>1 DEF Ends
  <2> QED
    BY <1>3, <1>4, <2>1
<1>5. CASE v \notin (S + 1)..Begun
  <2>1. SaveBlock /\ v = head /\ v = Begun + 1 /\ S <= Begun /\ main # "wait" /\ S # head
    BY <1>0, <1>5
  <2>2. Ends(k, p, head)
    <3>1. head \in 0..head
      BY <1>0
    <3> QED
      BY <1>0, <1>2, <2>1, <3>1 DEF Ends
  <2>3. CASE \E w \in (S + 1)..Begun : Ends(k, p, w)
    <3>1. PICK w \in (S + 1)..Begun : Ends(k, p, w)
      BY <2>3
    <3>2. PICK s \in (S + 1)..w : Ends(k, p, s)' /\ Excused(k, p, s)'
      BY <1>3, <3>1
    <3>3. s \in (S + 1)..v
      BY <1>0, <2>1, <3>1
    <3> QED
      BY <3>2, <3>3
  <2>4. CASE unread # {}
    <3>1. head \in early'
      BY <2>1, <2>4, PhaseTaken
    <3>2. Excused(k, p, v)' /\ v \in (S + 1)..v
      BY <1>0, <2>1, <3>1 DEF Excused
    <3> QED
      BY <1>2, <3>2
  <2>5. CASE unread = {} /\ \A w \in (S + 1)..Begun : ~Ends(k, p, w)
    <3>1. t \in 0..Begun
      BY <1>0, <1>1, <2>1
    <3>2. Remembered(k, t)
      <4>1. RowOf(k, t).open = TRUE /\ RowOf(k, t).key = k /\ RowOf(k, t).slot = t
        BY DEF RowOf
      <4>2. RowOf(k, t).open
        BY <4>1
      <4> QED
        BY <1>1, <2>5, <4>1, <4>2 DEF PairRow, Remembered
    <3>3. ASSUME NEW s \in (t + 1)..Begun PROVE ~Ends(k, p, s)
      <4>1. CASE s <= S
        <5>1. s \in (t + 1)..S
          BY <1>0, <1>1, <4>1
        <5> QED
          BY <1>1, <5>1 DEF Untouched, Touched, Ends
      <4>2. CASE ~(s <= S)
        <5>1. s \in (S + 1)..Begun
          BY <1>0, <1>1, <4>2
        <5> QED
          BY <2>5, <5>1
      <4> QED
        BY <4>1, <4>2
    <3>4. owners[k].slot # head
      BY <2>1 DEF PairOf, Ahead
    <3>5. \A q : q = update[t][k] => Routed(k, q, head)' \/ MaskComing(k, q, head)'
      BY <1>2, <2>1, <2>2, <3>1, <3>2, <3>3, <3>4, EndNoted
    <3>6. Routed(k, p, head)' \/ MaskComing(k, p, head)'
      BY <1>2, <3>5
    <3>7. v \in (S + 1)..v /\ head' = head
      BY <1>0, <2>1 DEF SaveBlock
    <3>8. Excused(k, p, v)'
      BY <2>1, <3>6, <3>7 DEF Excused, Marked
    <3> QED
      BY <1>2, <3>7, <3>8
  <2> QED
    BY <2>3, <2>4, <2>5
<1> QED
  BY <1>4, <1>5

\* A write of the stream has its row until the stream finalized a later one.
StreamRowsKept ==
  \A k \in Keys, t \in (mode.quiet + 1)..Begun : update[t][k] \in Owners =>
    \/ t = head /\ Busy("main") /\ "rows" \in saver["main"].todo
    \/ RowOf(k, t) \in accounts
    \/ ~Untouched(k, t + 1, finalTip)

\* There are no slots of the stream at the start.
LEMMA StreamKeptInit == StartupInit => StreamRowsKept
<1> SUFFICES ASSUME StartupInit PROVE StreamRowsKept
  OBVIOUS
<1>1. Begun = mode.quiet /\ mode.quiet \in Nat
  BY StartTypeInit, StartFacts DEF StartupInit, Begun
<1> QED
  BY <1>1 DEF StreamRowsKept

\* The drainer deletes a row of a write only when a finalized slot superseded it.
LEMMA DrainedSuperseded ==
  ASSUME StartType, StartHistory, NEW k \in Keys, NEW t \in Nat, update[t][k] \in Owners,
         NEW i \in queue, i.key = k, i.owner \in {NoOwner, update[t][k]}, ~(t >= i.cutoff)
  PROVE  ~Untouched(k, t + 1, finalTip)
<1>1. PICK s \in 1..finalTip :
        /\ Touched(i.key, s) /\ i.cutoff \in {s, s + 1}
        /\ i.cutoff = s + 1 => IF i.owner = NoOwner THEN update[s][i.key] \in Gone
                                                  ELSE update[s][i.key] # i.owner
  BY DEF StartHistory, QueueFollows, ItemFollowsChain
<1>2. finalTip \in Nat
  BY StartFacts
<1>3. t # s
  <2> SUFFICES ASSUME t = s PROVE FALSE
    OBVIOUS
  <2>1. i.cutoff = s + 1
    BY <1>1, <1>2
  <2>2. i.owner = NoOwner => update[t][k] \in Gone
    BY <1>1, <2>1
  <2>3. i.owner # NoOwner => update[t][k] # i.owner
    BY <1>1, <2>1
  <2> QED
    BY <2>2, <2>3, StoreAssumption DEF Gone
<1>4. s \in (t + 1)..finalTip
  BY <1>1, <1>2, <1>3
<1> QED
  BY <1>1, <1>4 DEF Untouched

\* Rows of the stream are kept.
LEMMA StreamKeptStep ==
  ASSUME StartType, StartOrder, StartPhase, StartHistory, Ordinary(mode), StreamRowsKept,
         [StartupNext]_startupVars
  PROVE  StreamRowsKept'
<1>0. /\ Begun \in Nat /\ Begun <= head /\ head \in Nat /\ Begun' <= head /\ Begun' \in Nat /\ mode' = mode
      /\ Begun' = Begun \/ (SaveBlock /\ Begun' = head /\ Begun = head - 1 /\ main # "wait")
      /\ \A s \in 0..head, k \in Keys : update'[s][k] = update[s][k]
      /\ head <= MaxSlot /\ MaxSlot \in Nat /\ mode.quiet \in Nat
  BY BegunStep, StartFacts
<1> SUFFICES ASSUME NEW k \in Keys, NEW t \in (mode.quiet + 1)..Begun', update'[t][k] \in Owners
             PROVE  \/ (t = head /\ Busy("main") /\ "rows" \in saver["main"].todo)'
                    \/ RowOf(k, t)' \in accounts'
                    \/ ~Untouched(k, t + 1, finalTip)'
  BY <1>0 DEF StreamRowsKept
<1>1. /\ t \in 0..head /\ t \in Nat /\ update[t][k] \in Owners /\ RowOf(k, t)' = RowOf(k, t)
      /\ ~Untouched(k, t + 1, finalTip) => ~Untouched(k, t + 1, finalTip)'
  <2>1. t \in 0..head /\ t \in Nat /\ t + 1 \in Nat
    BY <1>0
  <2> QED
    BY <1>0, <2>1, ChainKept
<1>2. CASE t \notin (mode.quiet + 1)..Begun
  <2>1. SaveBlock /\ t = head
    BY <1>0, <1>2
  <2>2. /\ SaveStart("main", head, update[head], MaskWork) /\ update[head] \in [Keys -> AllUpdates]
        /\ MaskWork \in SUBSET AllWork /\ head \in Slots /\ head' = head /\ "rows" \in MaskWork
    BY <2>1, StreamSlot DEF SaveBlock, MaskWork, AllWork
  <2>3. saver'["main"] = [busy |-> TRUE, slot |-> head, open |-> OpenBy(update[head]),
                          closed |-> ClosedBy(update[head], head), todo |-> MaskWork]
    BY <2>2, BlockStarted
  <2>4. saver'["main"].busy /\ saver'["main"].todo = MaskWork
    BY <2>3
  <2> QED
    BY <2>1, <2>2, <2>4 DEF Busy
<1>3. CASE t = head /\ Busy("main") /\ "rows" \in saver["main"].todo
  <2>1. CASE WriteRows
    <3>1. saver["main"].slot = head /\ saver["main"].open = OpenBy(update[head])
      BY <1>3, <2>1, OrderWrites DEF WriteRows, StartHistory, WritesFollow
    <3>2. [key |-> k, owner |-> update[t][k]] \in OpenBy(update[head])
      BY <1>1, <1>3 DEF OpenBy
    <3> DEFINE p == [key |-> k, owner |-> update[t][k]]
    <3>3. RowOf(k, t) = [key |-> p.key, owner |-> p.owner, slot |-> saver["main"].slot, open |-> TRUE]
          /\ p \in saver["main"].open
      BY <1>3, <3>1, <3>2 DEF RowOf
    <3> HIDE DEF p
    <3>4. RowOf(k, t) \in accounts'
      BY <2>1, <3>3, RowsInserted DEF WriteRows, OpenRows, Ordinary
    <3> QED
      BY <1>1, <3>4
  <2>2. CASE WriteMasks
    <3>1. Busy("main")' /\ saver'["main"].todo = saver["main"].todo \ {"masks"} /\ head' = head
      BY <2>2, OrderWrites DEF WriteMasks
    <3> QED
      BY <1>3, <3>1
  <2>3. CASE ~WriteRows /\ ~WriteMasks
    <3>1. ~SaveBlock /\ ~WriteConfirmed /\ (\A b \in Carries : ~ProcessSnapshotIfNeeded(b))
      <4>1. main = "wait"
        BY <1>3, OrderFacts
      <4> QED
        BY <1>3, <4>1 DEF SaveBlock, WriteConfirmed, SaveConfirm, ProcessSnapshotIfNeeded, Busy
    <3>2. UNCHANGED <<saver, head>>
      BY <2>3, <3>1, Changers
    <3> QED
      BY <1>3, <3>2 DEF Busy
  <2> QED
    BY <2>1, <2>2, <2>3
<1>4. CASE RowOf(k, t) \in accounts
  <2>1. CASE StartupDrain
    <3> DEFINE r == RowOf(k, t)
    <3>1. r.key = k /\ r.slot = t /\ r.owner = update[t][k]
      BY DEF RowOf
    <3> HIDE DEF r
    <3>2. CASE r \in accounts'
      BY <1>1, <3>2 DEF r
    <3>3. CASE r \notin accounts'
      <4>1. PICK i \in queue : i.key = k /\ i.owner \in {NoOwner, update[t][k]} /\ ~(t >= i.cutoff)
        BY <1>4, <2>1, <3>1, <3>3 DEF StartupDrain, DeleteBelow, r
      <4> QED
        BY <1>1, <4>1, DrainedSuperseded
    <3> QED
      BY <3>2, <3>3
  <2>2. CASE ~StartupDrain
    <3>1. accounts \subseteq accounts'
      BY <2>2, Changers, RowsInserted DEF WriteMasks, WriteRows, SaveMasks
    <3> QED
      BY <1>1, <1>4, <3>1
  <2> QED
    BY <2>1, <2>2
<1> QED
  BY <1>1, <1>2, <1>3, <1>4 DEF StreamRowsKept

----------------------------------------------------------------------------
(* Reads                                                                   *)

\* The inductive invariant.
StartInv ==
  /\ StartType /\ StartOrder /\ StartPhase /\ StartHistory /\ UpdatesInUse /\ NoneLeaves /\ StartMap
  /\ StreamOwners /\ EarlyHandled /\ StreamRowsHandled /\ StreamRowsKept
  /\ loader \in {"none", "download"} => Ahead(0)
  /\ loader \notin {"none", "download"} => \E S \in Slots : PairOf(S) /\ PairRowsHandled(S)

\* It holds at the start.
LEMMA StartInvInit == ASSUME StartupInit, Ordinary(mode) PROVE StartInv
<1>1. loader = "none" /\ main = "wait"
  BY DEF StartupInit
<1> QED
  BY <1>1, StartTypeInit, StartOrderInit, StartPhaseInit, StartHistoryInit, InUseInit, StartMapInit,
     StreamOwnersInit, EarlyInit, StreamHandledInit, StreamKeptInit DEF StartInv, Ahead

\* It is kept by every step.
LEMMA StartInvStep ==
  ASSUME StartInv, Ordinary(mode), [StartupNext]_startupVars
  PROVE  StartInv'
<1>0. /\ StartType /\ StartOrder /\ StartPhase /\ StartHistory /\ UpdatesInUse /\ NoneLeaves /\ StartMap
      /\ StreamOwners /\ EarlyHandled /\ StreamRowsHandled /\ StreamRowsKept
  BY DEF StartInv
<1>1. ASSUME loader \in {"none", "download"}
      PROVE  /\ (loader \in {"none", "download"} => Ahead(0))'
             /\ (loader \notin {"none", "download"} => \E S \in Slots : PairOf(S) /\ PairRowsHandled(S))'
  <2>1. Ahead(0) /\ 0 \in 0..head
    BY <1>0, <1>1, StartFacts DEF StartInv
  <2>2. Ahead(0)'
    BY <1>0, <1>1, <2>1, AheadStep
  <2>3. CASE Download
    <3>1. PICK S \in Slots : S \in (mode.quiet + 1)..head /\ PairOf(S)'
      BY <1>0, <2>1, <2>3, PairStarts
    <3>2. S \in Nat /\ mode.quiet < S
      BY <1>0, <3>1, StartFacts
    <3>3. PairRowsHandled(S)'
      BY <1>0, <2>3, <3>2, PairHandledStarts
    <3> QED
      BY <2>3, <3>1, <3>3 DEF Download
  <2>4. CASE ~Download
    <3>1. loader' \in {"none", "download"}
      BY <1>1, <2>4, PhaseChangers DEF ProcessSnapshotIfNeeded, CleanUpDuplicatedAccounts,
         CleanUpClosedAccounts, LoadFinished
    <3> QED
      BY <2>2, <3>1
  <2> QED
    BY <2>3, <2>4
<1>2. ASSUME loader \notin {"none", "download"}
      PROVE  /\ (loader \in {"none", "download"} => Ahead(0))'
             /\ (loader \notin {"none", "download"} => \E S \in Slots : PairOf(S) /\ PairRowsHandled(S))'
  <2>1. PICK S \in Slots : PairOf(S) /\ PairRowsHandled(S)
    BY <1>2 DEF StartInv
  <2>2. loader' \notin {"none", "download"} /\ PairOf(S)'
    BY <1>0, <1>2, <2>1, PairStep
  <2>3. LoadedOpen
    BY <2>1 DEF PairOf, SnapshotHolds, LoadedOpen
  <2>4. PairRowsHandled(S)'
    BY <1>0, <1>2, <2>1, <2>3, PairHandledStep
  <2> QED
    BY <2>2, <2>4
<1>3. LoadedOpen
  <2> SUFFICES ASSUME loader = "done" PROVE \A r \in snapshot : r.open
    BY DEF LoadedOpen
  <2>1. PICK S \in Slots : PairOf(S)
    BY DEF StartInv
  <2> QED
    BY <2>1 DEF PairOf, SnapshotHolds
<1>4. StartType' /\ StartOrder' /\ StartPhase' /\ StartHistory'
  BY <1>0, StartTypeStep, StartOrderStep, StartPhaseStep, StartHistoryStep
<1>5. UpdatesInUse' /\ NoneLeaves' /\ StartMap'
  BY <1>0, InUseStep, StartMapStep
<1>6. StreamOwners' /\ EarlyHandled'
  BY <1>0, <1>3, StreamOwnersStep, EarlyStep
<1>7. StreamRowsHandled' /\ StreamRowsKept'
  BY <1>0, <1>3, StreamHandledStep, StreamKeptStep
<1> QED
  BY <1>1, <1>2, <1>4, <1>5, <1>6, <1>7 DEF StartInv

\* What is known once the Startup reason is gone.
LEMMA OnceStarted ==
  ASSUME StartInv, ~starting
  PROVE  /\ mode.load => /\ loader = "done" /\ oneShot.at = "done" /\ ~IsStartup
                         /\ \E S \in Slots : PairOf(S) /\ PairRowsHandled(S) /\ S <= finalTip
         /\ ~mode.load => snapshot = {} /\ unmasked = {}
<1>0. /\ StartType /\ StartOrder /\ StartPhase
  BY DEF StartInv
<1>1. CASE mode.load
  <2>1. oneShot.at = "done"
    BY <1>0, <1>1 DEF StartPhase, LoadPhase
  <2>2. ~IsStartup /\ oneShot.cutoff <= finalTip
    BY <1>0, <2>1 DEF StartPhase, OneShotPhase
  <2>3. loader = "done"
    BY <1>0, <1>1, <2>2 DEF StartPhase, LoadPhase
  <2>4. PICK S \in Slots : PairOf(S) /\ PairRowsHandled(S)
    BY <2>3 DEF StartInv
  <2>5. S <= oneShot.cutoff
    BY <2>1, <2>4 DEF PairOf
  <2>6. S \in Nat /\ oneShot.cutoff \in Nat /\ finalTip \in Nat
    BY <1>0, StartFacts DEF StartType, OneShotType
  <2>7. S <= finalTip
    BY <2>2, <2>5, <2>6
  <2> QED
    BY <1>1, <2>1, <2>2, <2>3, <2>4, <2>7
<1>2. CASE ~mode.load
  BY <1>0, <1>2 DEF StartPhase, WithoutLoad
<1> QED
  BY <1>1, <1>2

\* A key that nothing unmasked left unsettled, and that a written slot took away from a
\* program, is masked.
LEMMA MaskedOnceSettled ==
  ASSUME StartType, StartOrder, NEW k \in Keys, NEW o \in Owners, ~Unsettled(k), NEW s \in Nat, s <= Done,
         Ends(k, o, s), Marked(k, o, s) \/ Queued(k, o, s)
  PROVE  HasMask(k, o, s)
<1>1. ~MaskComing(k, o, s)
  <2>1. Busy("main") => Done = head - 1 /\ head \in Nat
    BY OrderFacts, StartFacts
  <2> QED
    BY <2>1 DEF MaskComing
<1>2. ~Routed(k, o, s) /\ ~Queued(k, o, s)
  BY DEF Routed, Queued, Hits, Unsettled, Ends
<1> QED
  BY <1>1, <1>2 DEF Marked

\* Rows that a read of a program sees follow the chain.
LEMMA ReadRowsFollow ==
  ASSUME StartInv, ~starting, NEW r \in accounts \cup snapshot
  PROVE  /\ r.slot \in Nat /\ r.open \in BOOLEAN /\ r.key \in Keys /\ RowFollowsChain(r)
         /\ r \in accounts \/ r.open
<1>0. StartType /\ StartHistory
  BY DEF StartInv
<1>1. CASE r \in accounts
  <2>1. r \in Row /\ RowFollowsChain(r)
    BY <1>0, <1>1 DEF StartType, StartHistory, StreamRowsFollow
  <2> QED
    BY <1>1, <2>1, CleanupAssumption DEF Row
<1>2. CASE r \in snapshot
  <2>1. mode.load /\ loader = "done"
    BY <1>2, OnceStarted
  <2>2. PICK S \in Slots : PairOf(S)
    BY <2>1, OnceStarted
  <2>3. r.open
    BY <1>2, <2>1, <2>2 DEF PairOf, SnapshotHolds
  <2>4. r \in LoadRow /\ r.slot <= head /\ update[r.slot][r.key] = r.owner
    BY <1>0, <1>2, <2>3 DEF StartType, StartHistory, PairFollows
  <2>5. r.slot \in Nat /\ r.open \in BOOLEAN /\ r.key \in Keys
    BY <2>4, CleanupAssumption DEF LoadRow
  <2> QED
    BY <2>3, <2>4, <2>5 DEF RowFollowsChain
<1> QED
  BY <1>1, <1>2

\* The row of the write that the chain is at is there.
LEMMA CurrentRowThere ==
  ASSUME StartInv, ~starting, NEW k \in Keys, NEW tip \in {confirmed, finalTip}, NEW t \in 0..tip,
         update[t][k] \in Owners, \A v \in (t + 1)..tip : update[v][k] = "none"
  PROVE  RowOf(k, t) \in accounts \cup snapshot
<1>0. /\ StartType /\ StartOrder /\ UpdatesInUse /\ StreamRowsKept
  BY DEF StartInv
<1>1. /\ tip \in Nat /\ head \in Nat /\ finalTip \in Nat /\ finalTip <= tip /\ tip <= Done /\ Done <= Begun
      /\ Begun \in Nat /\ Done \in Nat /\ mode.quiet \in Nat /\ t \in Nat
  BY <1>0, OrderFacts, StartFacts
<1>2. Untouched(k, t + 1, finalTip)
  <2>1. \A v \in (t + 1)..finalTip : v \in (t + 1)..tip
    BY <1>1
  <2> QED
    BY <2>1 DEF Untouched, Touched
<1>3. CASE mode.quiet < t
  <2>1. t \in (mode.quiet + 1)..Begun
    BY <1>1, <1>3
  <2>2. ~(t = head /\ Busy("main"))
    <3>1. Busy("main") => Done = head - 1
      BY <1>0, OrderFacts
    <3> QED
      BY <1>1, <3>1
  <2> QED
    BY <1>0, <1>2, <2>1, <2>2 DEF StreamRowsKept
<1>4. CASE ~(mode.quiet < t)
  <2>1. t \in 0..mode.quiet
    BY <1>1, <1>4
  <2>2. mode.load
    <3> SUFFICES ASSUME ~mode.load PROVE FALSE
      OBVIOUS
    <3>1. update[t][k] = "none"
      BY <1>0, <2>1 DEF UpdatesInUse, NoUpdate
    <3> QED
      BY <3>1, StoreAssumption
  <2>3. PICK S \in Slots : PairOf(S) /\ S <= finalTip
    BY <2>2, OnceStarted
  <2>4. loader = "done"
    BY <2>2, OnceStarted
  <2>5. Untouched(k, t + 1, S)
    <3>1. S \in Nat
      BY <1>0, StartFacts
    <3>2. \A v \in (t + 1)..S : v \in (t + 1)..tip
      BY <1>1, <2>3, <3>1
    <3> QED
      BY <3>2 DEF Untouched, Touched
  <2>6. SnapshotHolds(S)
    BY <2>3, <2>4 DEF PairOf
  <2>7. RowOf(k, t) \in snapshot
    BY <1>2, <2>1, <2>5, <2>6 DEF SnapshotHolds
  <2> QED
    BY <2>7
<1> QED
  BY <1>3, <1>4

\* An open row that a written slot ended has a younger mask.
LEMMA EndedIsMasked ==
  ASSUME StartInv, ~starting, NEW k \in Keys, NEW o \in Owners, ~Unsettled(k),
         NEW r \in accounts \cup snapshot, r.open, r.key = k, r.owner = o,
         NEW w \in Nat, r.slot < w, w <= Done, Ends(k, o, w)
  PROVE  \E s \in Nat : r.slot < s /\ s <= w /\ HasMask(k, o, s)
<1>0. /\ StartType /\ StartOrder /\ StartPhase /\ StartHistory /\ StreamRowsHandled /\ EarlyHandled
  BY DEF StartInv
<1>1. /\ r.slot \in Nat /\ Done <= Begun /\ Begun \in Nat /\ Done \in Nat /\ RowFollowsChain(r) /\ update[r.slot][k] = o
  BY <1>0, OrderFacts, ReadRowsFollow DEF RowFollowsChain
<1>2. CASE r \in accounts
  <2>1. w \in (r.slot + 1)..Begun
    BY <1>1
  <2>2. PICK s \in (r.slot + 1)..w : Ends(k, o, s) /\ (Marked(k, o, s) \/ Queued(k, o, s))
    BY <1>0, <1>2, <2>1 DEF StreamRowsHandled
  <2>3. s \in Nat /\ r.slot < s /\ s <= w /\ s <= Done
    BY <1>1
  <2> QED
    BY <1>0, <2>2, <2>3, MaskedOnceSettled
<1>3. CASE r \in snapshot
  <2>1. mode.load
    BY <1>3, OnceStarted
  <2>2. /\ loader = "done" /\ oneShot.at = "done"
    BY <2>1, OnceStarted
  <2>3. PICK S \in Slots : PairOf(S) /\ PairRowsHandled(S)
    BY <2>1, OnceStarted
  <2> DEFINE t == r.slot
  <2>4. t <= S /\ Untouched(k, t + 1, S) /\ S \in Nat
    BY <1>0, <1>3, <2>2, <2>3, StartFacts DEF PairOf, SnapshotHolds
  <2>5. t \in 0..S /\ update[t][k] = o
    BY <1>1, <2>4
  <2>6. PairRow(k, t)
    <3>1. r \in LoadRow
      BY <1>0, <1>3 DEF StartType
    <3>2. r = [key |-> r.key, owner |-> r.owner, slot |-> r.slot, open |-> TRUE]
      BY <3>1 DEF LoadRow
    <3>3. RowOf(k, t) = r
      BY <2>5, <3>2 DEF RowOf
    <3> QED
      BY <1>3, <3>3 DEF PairRow
  <2>7. w \in (S + 1)..Begun
    <3>1. ~(w <= S)
      <4> SUFFICES ASSUME w <= S PROVE FALSE
        OBVIOUS
      <4>1. w \in (t + 1)..S
        BY <1>1, <2>4
      <4> QED
        BY <2>4, <4>1 DEF Untouched, Touched, Ends
    <3> QED
      BY <1>1, <2>4, <3>1
  <2>8. PICK s \in (S + 1)..w : Ends(k, o, s) /\ Excused(k, o, s)
    BY <2>3, <2>4, <2>5, <2>6, <2>7 DEF PairRowsHandled
  <2>9. s \in Nat /\ t < s /\ s <= w /\ s <= Done
    BY <1>1, <2>4
  <2>10. ~Cached(k, s)
    BY <1>1, <1>3, <2>2, <2>9 DEF Cached
  <2>11. s \notin early
    <3> SUFFICES ASSUME s \in early PROVE FALSE
      OBVIOUS
    <3>1. Touched(k, s)
      BY <2>8 DEF Ends, Touched
    <3> QED
      BY <1>0, <2>1, <2>2, <2>10, <3>1 DEF EarlyHandled
  <2>12. Marked(k, o, s) \/ Queued(k, o, s)
    BY <2>8, <2>10, <2>11 DEF Excused
  <2>13. HasMask(k, o, s)
    BY <1>0, <2>8, <2>9, <2>12, MaskedOnceSettled
  <2> QED
    BY <2>9, <2>13
<1> QED
  BY <1>2, <1>3

\* So the newest row of a key under a program is open exactly when the chain has the key
\* under that program.
LEMMA StartReadsMatch == StartInv => ReadsExactOnceStarted
<1> SUFFICES ASSUME StartInv, ~starting, NEW k \in Keys, ~Unsettled(k), NEW o \in Owners,
                    NEW tip \in {confirmed, finalTip}
             PROVE  ProgramRead(k, o, tip) = {OnChain(k, tip) = o}
  BY DEF ReadsExactOnceStarted
<1>0. /\ tip \in Nat /\ tip <= Done /\ Done \in Nat /\ Owners \cap {"none", "other", "closed"} = {}
  <2>1. StartType /\ StartOrder
    BY DEF StartInv
  <2> QED
    BY <2>1, OrderFacts, StartFacts, StoreAssumption
<1> DEFINE rows == {r \in accounts \cup snapshot : r.key = k /\ r.owner = o}
           below == {r \in rows : r.slot <= tip}
           newest == {r \in below : \A q \in below : q.slot <= r.slot}
<1>1. ProgramRead(k, o, tip) = IF newest = {} THEN {FALSE} ELSE {r.open : r \in newest}
  BY DEF ProgramRead, Newest
<1>2. OnChain(k, tip) = OwnerIn(update, k, tip)
  BY LastTouchOfChain
<1>3. \A r \in rows : /\ r \in accounts \cup snapshot /\ r.key = k /\ r.owner = o
                      /\ r.slot \in Nat /\ r.open \in BOOLEAN /\ RowFollowsChain(r)
  BY ReadRowsFollow
<1> HIDE DEF rows
<1> SUFFICES ProgramRead(k, o, tip) = {OwnerIn(update, k, tip) = o}
  BY <1>2
<1>4. CASE OwnerIn(update, k, tip) = o
  <2> DEFINE t == LastIn(update, k, tip)
  <2>1. /\ t \in 0..tip /\ t \in Nat /\ \A v \in (t + 1)..tip : update[v][k] = "none"
    BY <1>0, LastTouchIs
  <2>2. update[t][k] = o
    BY <1>0, <1>4 DEF OwnerIn, OwnerAt
  <2> HIDE DEF t
  <2> DEFINE row == RowOf(k, t)
  <2>3. row \in rows /\ row.slot = t
    <3>1. row \in accounts \cup snapshot
      BY <2>1, <2>2, CurrentRowThere
    <3>2. row.key = k /\ row.owner = o /\ row.slot = t
      BY <2>2 DEF RowOf
    <3> QED
      BY <3>1, <3>2 DEF rows
  <2> HIDE DEF row
  <2>4. row \in below /\ row.slot = t
    BY <1>0, <2>1, <2>3
  <2>5. ASSUME NEW r \in below PROVE r.slot <= t /\ (r.slot = t => r.open)
    <3>1. r \in rows /\ r.slot <= tip
      OBVIOUS
    <3>2. r.slot \in Nat /\ r.open \in BOOLEAN /\ RowFollowsChain(r) /\ r.key = k /\ r.owner = o
      BY <1>3, <3>1
    <3>3. update[r.slot][k] # "none"
      BY <1>0, <3>2 DEF RowFollowsChain
    <3>4. ~(r.slot > t)
      <4>1. r.slot > t => r.slot \in (t + 1)..tip
        BY <1>0, <2>1, <3>1, <3>2
      <4> QED
        BY <2>1, <3>3, <4>1
    <3>5. r.slot = t => r.open
      BY <2>2, <3>2 DEF RowFollowsChain
    <3> QED
      BY <2>1, <3>2, <3>4, <3>5
  <2>6. row \in newest
    BY <2>4, <2>5
  <2>7. \A r \in newest : r.open = TRUE
    <3> SUFFICES ASSUME NEW r \in newest PROVE r.open = TRUE
      OBVIOUS
    <3>1. r \in below /\ t <= r.slot /\ r \in rows
      BY <2>4
    <3>2. r.slot = t /\ r.open \in BOOLEAN
      BY <1>3, <2>1, <2>5, <3>1
    <3> QED
      BY <2>5, <3>1, <3>2
  <2> HIDE DEF newest
  <2>8. {r.open : r \in newest} = {TRUE}
    BY <2>6, <2>7
  <2> QED
    BY <1>1, <1>4, <2>6, <2>8
<1>5. CASE OwnerIn(update, k, tip) # o
  <2>1. ASSUME NEW r \in newest, r.open PROVE FALSE
    <3>1. r \in rows /\ r.slot <= tip /\ \A q \in below : q.slot <= r.slot
      OBVIOUS
    <3>2. /\ r.slot \in Nat /\ RowFollowsChain(r) /\ r.key = k /\ r.owner = o
          /\ r \in accounts \cup snapshot
      BY <1>3, <3>1
    <3>3. update[r.slot][k] = o /\ r.slot \in 0..tip
      BY <1>0, <2>1, <3>1, <3>2 DEF RowFollowsChain
    <3> DEFINE w == LastIn(update, k, tip)
    <3>4. w \in (r.slot + 1)..tip /\ update[w][k] \notin {"none", o}
      BY <1>0, <1>5, <3>3, LeftBehind
    <3> HIDE DEF w
    <3>5. w \in Nat /\ r.slot < w /\ w <= Done /\ w <= tip /\ Ends(k, o, w)
      BY <1>0, <3>2, <3>4 DEF Ends
    <3>6. PICK s \in Nat : r.slot < s /\ s <= w /\ HasMask(k, o, s)
      <4> HIDE DEF newest
      <4> QED
        BY <2>1, <3>2, <3>5, EndedIsMasked
    <3> DEFINE q == [key |-> k, owner |-> o, slot |-> s, open |-> FALSE]
    <3>7. q \in accounts /\ q.key = k /\ q.owner = o /\ q.slot = s
      BY <3>6 DEF HasMask
    <3> HIDE DEF q
    <3>8. q \in rows
      BY <3>7 DEF rows
    <3>9. q \in below
      BY <1>0, <3>5, <3>6, <3>7, <3>8
    <3> QED
      BY <3>1, <3>2, <3>6, <3>7, <3>9
  <2>2. \A r \in newest : r.open = FALSE
    <3>1. \A r \in newest : r \in rows
      OBVIOUS
    <3> QED
      BY <1>3, <2>1, <3>1
  <2> HIDE DEF newest
  <2>3. CASE newest = {}
    BY <1>1, <1>5, <2>3
  <2>4. CASE newest # {}
    <3>1. {r.open : r \in newest} = {FALSE}
      BY <2>2, <2>4
    <3> QED
      BY <1>1, <1>5, <2>4, <3>1
  <2> QED
    BY <2>3, <2>4
<1> QED
  BY <1>4, <1>5

\* In every ordinary deployment, with a snapshot to load or without, getProgramAccounts
\* lists a settled key under exactly the program that owns it on the chain once the
\* Startup reason is gone, however blocks, the load, finalization, the one-shot and
\* the drainer interleaved (finalize_slot.rs 425-436, 502-568, save_block.rs 203-215).
THEOREM StartupReadsExact ==
  ASSUME \A m \in Modes : Ordinary(m)
  PROVE  StartupSpec => []ReadsExactOnceStarted
<1>1. StartupInit => StartInv
  BY StartInvInit DEF StartupInit
<1>2. StartInv /\ [StartupNext]_startupVars => StartInv'
  <2>1. StartInv => Ordinary(mode)
    BY DEF StartInv, StartType
  <2> QED
    BY <2>1, StartInvStep
<1> QED
  BY <1>1, <1>2, StartReadsMatch, PTL DEF StartupSpec
=============================================================================
