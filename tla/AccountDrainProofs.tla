------------------------- MODULE AccountDrainProofs -------------------------
(***************************************************************************)
(* Proof that the drained tables are exact (AccountStore's DrainedIsExact).*)
(*                                                                         *)
(* AccountStoreProofs has that current versions are kept.  What is added   *)
(* here is that everything else goes: a row superseded by a finalized      *)
(* touch of its key, and a mask of a finalized slot, is Covered - some     *)
(* item queued or taken will delete it - and stays so until it is deleted. *)
(* Without the owner map an item deletes a key under every program, so     *)
(* only the last touch has to be recorded (LeftoversQueued); with it an    *)
(* item is for one program, and every touch must have recorded the         *)
(* programs it wrote the key under and took it from (LeftoversRouted).     *)
(***************************************************************************)
EXTENDS AccountStoreProofs

USE DEF cleanupVars, storeVars, vars

----------------------------------------------------------------------------
(* Nothing is left behind: without the owner map                           *)

\* What closes are found without the map: those of accounts that do not move.
NoMoves == ~mode.map /\ "other" \notin mode.updates

\* A lost slot counts once its repair runs.
Arrived(s) == s \in missed => Busy("fill") /\ saver["fill"].slot = s

\* The last touch of a key, once received, waits in its block until it is finalized.
BlockCarriesTouched ==
  NoMoves =>
    \A k \in Keys, s \in (finalTip + 1)..head :
      Touched(k, s) /\ (\A v \in (s + 1)..head : ~Touched(k, v)) /\ Arrived(s) =>
        IF update[s][k] = "closed" THEN k \in blocks[s].closed
        ELSE [key |-> k, owner |-> update[s][k]] \in blocks[s].open

\* Without the map only closed keys are masked.
ScansMaskCloses ==
  ~mode.map => \A r \in accounts \cup snapshot : ~r.open => update[r.slot][r.key] \in Gone

\* A superseded row, and a mask, is on its way out once the last touch is finalized.
LeftoversQueued ==
  NoMoves =>
    \A r \in accounts \cup snapshot :
      LET w == LastIn(update, r.key, head)
      IN  w <= finalTip /\ (r.slot < w \/ (~r.open /\ r.slot <= w)) => Covered(r)

\* A slot arrives when its repair starts, or when the snapshot has nothing of it.
LEMMA ArrivedBefore ==
  ASSUME StoreType, SlotOrder, [Next]_vars, NEW s \in 0..head, ~Arrived(s),
         s \in missed' => saver'["fill"].busy /\ saver'["fill"].slot = s
  PROVE  s \in Slots /\ (RepairBlock(s) \/ GapSlotEmpty(s))
<1>0. /\ head \in Nat /\ s \in Nat /\ s <= head /\ Tasks = {"main", "fill"}
      /\ saver \in [Tasks -> Saving] /\ missed \subseteq Slots
  BY StoreFacts
<1>1. s \in missed /\ s \in Slots /\ ~(saver["fill"].busy /\ saver["fill"].slot = s)
  BY <1>0 DEF Arrived, Busy
<1> SUFFICES ASSUME ~RepairBlock(s), ~GapSlotEmpty(s) PROVE FALSE
  BY <1>1
<1> DEFINE Same == s \in missed' /\ ~(saver'["fill"].busy /\ saver'["fill"].slot = s)
<1>2. SUFFICES Same
  OBVIOUS
<1>3. ASSUME NEW b \in Blocks, LiveBlock(b) PROVE Same
  <2>1. /\ SaveStart("main", head', b, AllWork) /\ head' \in Slots /\ missed' = missed
    BY <1>3, LiveFollows DEF LiveBlock
  <2>2. saver'["fill"] = saver["fill"]
    BY <1>0, <2>1, SaveStarted
  <2> QED
    BY <1>1, <2>1, <2>2
<1>4. ASSUME NEW b \in Blocks, LostBlock(b) PROVE Same
  BY <1>1, <1>4 DEF LostBlock
<1>5. ASSUME NEW g \in Slots, RepairBlock(g) PROVE Same
  <2>1. PICK b \in [Keys -> AllUpdates] : SaveStart("fill", g, b, AllWork)
    BY <1>5, RepairFollows
  <2>2. saver'["fill"].slot = g /\ missed' = missed
    BY <1>0, <1>5, <2>1, SaveStarted DEF RepairBlock
  <2>3. g # s
    BY <1>5
  <2> QED
    BY <1>1, <2>2, <2>3
<1>6. ASSUME NEW g \in Slots, GapSlotEmpty(g) PROVE Same
  <2>1. g # s
    BY <1>6
  <2> QED
    BY <1>1, <1>6, <2>1 DEF GapSlotEmpty
<1>7. ASSUME NEW t \in Tasks, SaveMasks(t) \/ SaveRows(t) PROVE Same
  <2>1. missed' = missed
    BY <1>7 DEF SaveMasks, SaveRows
  <2> QED
    BY <1>0, <1>1, <1>7, <2>1, WritingTask
<1>8. ASSUME NEW t \in Tasks, SaveConfirm(t) PROVE Same
  <2>1. /\ Busy(t) /\ missed' = missed \ {saver[t].slot}
        /\ saver'[t] = Idle /\ \A u \in Tasks : u # t => saver'[u] = saver[u]
    BY <1>0, <1>8 DEF SaveConfirm, Busy
  <2>2. saver[t].slot # s
    BY <1>0, <1>1, <2>1, BusySlots DEF SlotOrder, Busy
  <2> QED
    BY <1>0, <1>1, <2>1, <2>2 DEF Idle
<1>9. ASSUME NEW v \in Slots, FinalizeSlot(v) PROVE Same
  BY <1>1, <1>9 DEF FinalizeSlot
<1>10. CASE ApiLearns \/ DrainStep \/ UNCHANGED vars
  BY <1>1, <1>10 DEF ApiLearns, DrainStep
<1> QED
  BY <1>3, <1>4, <1>5, <1>6, <1>7, <1>8, <1>9, <1>10 DEF Next, Tasks

\* The step starts to save the block of a slot.
StartsSlot(s) ==
  \E t \in Tasks, b \in [Keys -> AllUpdates] : SaveStart(t, s, b, AllWork) /\ BlockHolds(b, s)

\* What is recorded of a block stays until its slot is finalized.
LEMMA BlockKept ==
  ASSUME StoreType, SlotOrder, [Next]_vars, NEW s \in Slots, finalTip' < s, ~StartsSlot(s)
  PROVE  /\ blocks'[s].open = blocks[s].open /\ blocks'[s].closed = blocks[s].closed
         /\ blocks'[s].pairs = blocks[s].pairs
<1>1. CASE Starts
  <2>1. PICK t \in Tasks, u \in Slots, b \in [Keys -> AllUpdates] :
          SaveStart(t, u, b, AllWork) /\ BlockHolds(b, u)
    BY <1>1 DEF Starts
  <2>2. u # s
    BY <2>1 DEF StartsSlot
  <2>3. \A v \in Slots : v # u => blocks'[v] = blocks[v]
    BY <2>1, SaveStarted
  <2> QED
    BY <2>2, <2>3
<1>2. CASE Continues
  <2>1. s \in Nat /\ finalTip' \in Nat
    BY StoreFacts, ChainGrows
  <2>2. ~(s <= finalTip')
    BY <2>1
  <2> QED
    BY <1>2, <2>2 DEF Continues
<1> QED
  BY <1>1, <1>2, StartsOrContinues

\* A slot that appears is being saved or is missed.
LEMMA NewSlot ==
  ASSUME StoreType, SlotOrder, [Next]_vars, head < head'
  PROVE  /\ head' = head + 1 /\ head' \in Slots
         /\ StartsSlot(head') \/ (head' \in missed' /\ saver' = saver)
<1>0. head \in Nat /\ "main" \in Tasks
  BY StoreFacts
<1>1. ASSUME NEW b \in Blocks, LiveBlock(b)
      PROVE  head' = head + 1 /\ head' \in Slots /\ StartsSlot(head')
  <2>1. PICK s \in Slots :
          /\ s = head + 1 /\ head' = s /\ b \in [Keys -> AllUpdates]
          /\ update'[s] = b /\ SaveStart("main", s, b, AllWork)
    BY <1>1, LiveFollows
  <2>2. BlockHolds(b, s)
    BY <2>1 DEF BlockHolds
  <2>3. StartsSlot(s)
    BY <1>0, <2>1, <2>2 DEF StartsSlot
  <2> QED
    BY <2>1, <2>3
<1>2. ASSUME NEW b \in Blocks, LostBlock(b)
      PROVE  head' = head + 1 /\ head' \in Slots /\ head' \in missed' /\ saver' = saver
  <2>1. head < mode.slots - 1 /\ mode.slots \in Nat
    BY <1>2, StoreAssumption DEF LostBlock, StoreType
  <2>2. head < mode.slots
    BY <1>0, <2>1
  <2> QED
    BY <1>2, <2>2, LiveSlot DEF LostBlock
<1>3. CASE \A b \in Blocks : ~LiveBlock(b) /\ ~LostBlock(b)
  <2>1. head' = head
    BY <1>3 DEF Next, RepairBlock, GapSlotEmpty, SaveMasks, SaveRows, SaveConfirm, FinalizeSlot,
                ApiLearns, DrainStep
  <2> QED
    BY <1>0, <2>1
<1> QED
  BY <1>1, <1>2, <1>3

\* record_block has the last touch of a key, live or repaired, until its slot is
\* finalized.
LEMMA BlockCarriesTouchedStep ==
  ASSUME StoreType, SlotInv, BlockCarriesTouched, [Next]_vars
  PROVE  BlockCarriesTouched'
<1>s. SlotOrder
  BY DEF SlotInv
<1>0. /\ head \in Nat /\ head' \in Nat /\ head <= head' /\ finalTip \in Nat /\ finalTip' \in Nat
      /\ finalTip <= finalTip' /\ lastSlot \in Nat /\ lastSlot <= head /\ mode' = mode
      /\ \A v \in 0..head : update'[v] = update[v]
      /\ StoreType' /\ Slots \subseteq Nat /\ "fill" \in Tasks
  BY <1>s, ChainGrows, StoreFacts, NextType DEF SlotOrder
<1> SUFFICES ASSUME NoMoves, NEW k \in Keys, NEW s \in (finalTip' + 1)..head',
                    update'[s][k] # "none", \A v \in (s + 1)..head' : update'[v][k] = "none",
                    s \in missed' => saver'["fill"].busy /\ saver'["fill"].slot = s
             PROVE  IF update'[s][k] = "closed" THEN k \in blocks'[s].closed
                    ELSE [key |-> k, owner |-> update'[s][k]] \in blocks'[s].open
  BY <1>0 DEF BlockCarriesTouched, NoMoves, Touched, Arrived, Busy
<1>1. /\ s \in Nat /\ s \in 0..head' /\ finalTip' < s /\ finalTip < s /\ s # 0
  BY <1>0
<1>2. s \in Slots /\ update'[s][k] \in Owners \cup {"closed"}
  <2>1. head' \in 0..MaxSlot /\ update' \in [0..MaxSlot -> [Keys -> mode'.updates]] /\ MaxSlot \in Nat
    BY <1>0, StoreFacts DEF StoreType, TypeOK, Blocks
  <2>2. s \in 0..MaxSlot
    BY <1>1, <2>1
  <2>3. update'[s][k] \in mode.updates
    BY <1>0, <2>1, <2>2
  <2>4. mode.updates \subseteq AllUpdates
    BY StoreAssumption DEF StoreType
  <2> QED
    BY <1>1, <2>2, <2>3, <2>4 DEF NoMoves, AllUpdates, Slots
<1>3. CASE StartsSlot(s)
  <2>1. PICK t \in Tasks, b \in [Keys -> AllUpdates] : SaveStart(t, s, b, AllWork) /\ BlockHolds(b, s)
    BY <1>3 DEF StartsSlot
  <2>2. blocks'[s].open = OpenBy(b) /\ blocks'[s].closed = ClosedBy(b, s)
    BY <1>2, <2>1, SaveStarted
  <2>3. b[k] = update'[s][k]
    BY <1>2, <2>1, StoreAssumption DEF BlockHolds
  <2> QED
    BY <1>2, <2>2, <2>3 DEF OpenBy, ClosedBy
<1>4. CASE ~StartsSlot(s)
  <2>1. blocks'[s].open = blocks[s].open /\ blocks'[s].closed = blocks[s].closed
    BY <1>s, <1>1, <1>2, <1>4, BlockKept
  <2>2. s <= head
    <3> SUFFICES ASSUME ~(s <= head) PROVE FALSE
      OBVIOUS
    <3>1. head < head'
      BY <1>0, <1>1
    <3>2. s = head' /\ head' \in missed' /\ saver' = saver
      <4>1. head' = head + 1 /\ (StartsSlot(head') \/ (head' \in missed' /\ saver' = saver))
        BY <1>s, <3>1, NewSlot
      <4>2. s = head'
        BY <1>0, <1>1, <4>1
      <4> QED
        BY <1>4, <4>1, <4>2
    <3>3. Busy("fill") /\ saver["fill"].slot = head'
      BY <3>2 DEF Busy
    <3>4. saver["fill"].slot \in Nat /\ saver["fill"].slot <= lastSlot
      BY <1>s, <1>0, <3>3, BusySlots
    <3> QED
      BY <1>0, <3>1, <3>3, <3>4
  <2>3. s \in 0..head /\ s \in (finalTip + 1)..head /\ update'[s] = update[s]
    BY <1>0, <1>1, <2>2
  <2>4. \A v \in (s + 1)..head : update[v][k] = "none"
    <3>1. \A v \in (s + 1)..head : v \in (s + 1)..head' /\ v \in 0..head
      BY <1>0, <1>1
    <3> QED
      BY <1>0, <3>1
  <2>5. CASE Arrived(s)
    BY <2>1, <2>3, <2>4, <2>5 DEF BlockCarriesTouched, Touched
  <2>6. CASE ~Arrived(s)
    <3>1. RepairBlock(s) \/ GapSlotEmpty(s)
      BY <1>s, <2>3, <2>6, ArrivedBefore
    <3>2. CASE RepairBlock(s)
      <4>1. PICK b \in [Keys -> AllUpdates] : b \in InSnapshot(s) /\ SaveStart("fill", s, b, AllWork)
        BY <1>2, <3>2, RepairFollows
      <4>2. head' = head /\ update' = update
        BY <3>2 DEF RepairBlock
      <4>3. BlockHolds(b, s)
        BY <4>1, <4>2 DEF BlockHolds, InSnapshot
      <4> QED
        BY <1>0, <1>4, <4>1, <4>3 DEF StartsSlot
    <3>3. CASE GapSlotEmpty(s)
      <4>1. NoUpdate \in InSnapshot(s) /\ NoUpdate[k] = "none"
        BY <3>3 DEF GapSlotEmpty, NoUpdate
      <4>2. update[s][k] # "none" /\ update[s][k] # "other"
        BY <1>2, <2>3, StoreAssumption
      <4> QED
        BY <2>4, <4>1, <4>2 DEF InSnapshot
    <3> QED
      BY <3>1, <3>2, <3>3
  <2> QED
    BY <2>5, <2>6
<1> QED
  BY <1>3, <1>4

\* insertClosedAccount.sql masks closed keys only.
LEMMA ScansMaskClosesStep ==
  ASSUME StoreType, SlotOrder, HistoryInv, ScansMaskCloses, [Next]_vars
  PROVE  ScansMaskCloses'
<1>0. /\ head \in Nat /\ mode' = mode /\ \A v \in 0..head : update'[v] = update[v]
  BY ChainGrows, StoreFacts
<1> SUFFICES ASSUME ~mode.map, NEW r \in (accounts \cup snapshot)', ~r.open
             PROVE  update'[r.slot][r.key] \in Gone
  BY <1>0 DEF ScansMaskCloses
<1>1. CASE r \in accounts \cup snapshot
  <2>1. r \in Row /\ r.slot <= head
    BY <1>1, StoreFacts DEF HistoryInv, RowsFollowChain, RowFollowsChain
  <2>2. r.slot \in 0..head
    BY <1>0, <2>1 DEF Row
  <2> QED
    BY <1>0, <1>1, <2>2 DEF ScansMaskCloses
<1>2. CASE r \notin accounts \cup snapshot
  <2>1. PICK t \in Tasks :
           /\ Busy(t) /\ r.slot = saver[t].slot
           /\ \/ SaveRows(t) /\ r \in OpenRows(t)
              \/ SaveMasks(t) /\ mode.map /\ r \in RoutedMasks(t)
              \/ /\ SaveMasks(t) /\ ~mode.map
                 /\ \E m \in MaskByScan(saver[t].closed, saver[t].slot) : r \in m
    BY <1>2, RowsWritten
  <2>2. r \notin OpenRows(t)
    BY DEF OpenRows
  <2>3. r.key \in saver[t].closed
    BY <2>1, <2>2, ScannedMask
  <2>4. saver[t].slot \in 0..head
    BY <2>1, SavedIsOld
  <2> QED
    BY <1>0, <2>1, <2>3, <2>4 DEF HistoryInv, SaverFollowsChain
<1> QED
  BY <1>1, <1>2

\* A row written in this step is of a slot that is not finalized, and touched its key.
LEMMA NewRowIsFresh ==
  ASSUME StoreType, SlotInv, HistoryInv, [Next]_vars,
         NEW r \in (accounts \cup snapshot)', r \notin accounts \cup snapshot
  PROVE  /\ r \in Row /\ r.slot \in Nat /\ r.slot <= head' /\ finalTip < r.slot
         /\ update'[r.slot][r.key] # "none" /\ finalTip' = finalTip
<1>s. SlotOrder /\ FinalizedDone
  BY DEF SlotInv
<1>1. PICK t \in Tasks : Busy(t) /\ r.slot = saver[t].slot /\ (SaveRows(t) \/ SaveMasks(t))
  BY <1>s, RowsWritten
<1>2. finalTip < r.slot
  BY <1>1 DEF SlotInv, FinalizedDone
<1>3. finalTip' = finalTip
  BY <1>1 DEF SaveRows, SaveMasks
<1>4. (accounts \cup snapshot)' \subseteq Row
  BY NextType DEF StoreType, TypeOK, CleanupTypeOK
<1>5. r \in Row /\ r.slot \in Nat /\ r.owner \in Owners
  BY <1>4 DEF Row
<1>6. RowsFollowChain'
  BY <1>s, RowsFollowStep
<1>7. r.slot <= head' /\ update'[r.slot][r.key] # "none"
  BY <1>5, <1>6, StoreAssumption DEF RowsFollowChain, RowFollowsChain
<1> QED
  BY <1>2, <1>3, <1>5, <1>7

\* While slots are missed in between, no slot is finalized.
LEMMA FinalizedArrived ==
  ASSUME StoreType, SlotOrder, NEW s \in Slots, FinalizeSlot(s), NEW v \in Nat, v <= s
  PROVE  v \notin missed
<1>1. s \in Nat /\ lastSlot \in Nat /\ confirmed \in Nat /\ s <= confirmed /\ confirmed <= lastSlot
  BY StoreFacts DEF SlotOrder, FinalizeSlot
<1>2. v \in missed => v < lastSlot
  <2>1. v \in missed => v # lastSlot
    BY DEF SlotOrder
  <2> QED
    BY <1>1, <2>1
<1> QED
  BY <1>2 DEF FinalizeSlot, Gaps

\* finalize_slot queues the key of its last touch, and the queue, its merges, failed
\* drains and retries keep it until the superseded rows are gone.
LEMMA LeftoversQueuedStep ==
  ASSUME StoreType, SlotInv, HistoryInv, DrainInv, BlockCarriesTouched, ScansMaskCloses,
         LeftoversQueued, [Next]_vars
  PROVE  LeftoversQueued'
<1>s. SlotOrder /\ FinalizedDone
  BY DEF SlotInv
<1>0. /\ head \in Nat /\ head' \in Nat /\ head <= head' /\ finalTip \in Nat /\ finalTip' \in Nat
      /\ finalTip <= head /\ mode' = mode /\ \A v \in 0..head : update'[v] = update[v]
  BY <1>s, ChainGrows, StoreFacts DEF SlotOrder
<1> DEFINE wNew(r) == LastIn(update', r.key, head')
           w(r) == LastIn(update, r.key, head)
<1> SUFFICES ASSUME NoMoves, NEW r \in (accounts \cup snapshot)', wNew(r) <= finalTip',
                    r.slot < wNew(r) \/ (~r.open /\ r.slot <= wNew(r))
             PROVE  Covered(r)'
  BY <1>0 DEF LeftoversQueued, NoMoves
<1>1. /\ wNew(r) \in Nat
      /\ (wNew(r) = 0 \/ update'[wNew(r)][r.key] # "none")
      /\ \A v \in 0..head' : v <= wNew(r) \/ update'[v][r.key] = "none"
      /\ \A v \in (wNew(r) + 1)..head' : update'[v][r.key] = "none"
      /\ wNew(r) <= head'
  BY <1>0, LastTouchIs
<1> HIDE DEF wNew
<1>2. r \in accounts \cup snapshot
  <2> SUFFICES ASSUME r \notin accounts \cup snapshot PROVE FALSE
    OBVIOUS
  <2>1. /\ r.slot \in Nat /\ r.slot <= head' /\ finalTip < r.slot
        /\ update'[r.slot][r.key] # "none" /\ finalTip' = finalTip
    BY NewRowIsFresh
  <2>2. r.slot <= wNew(r)
    BY <1>1, <2>1
  <2> QED
    BY <1>0, <1>1, <2>1, <2>2
<1>3. r \in Row /\ r.slot \in Nat /\ r.key \in Keys
  BY <1>2, StoreFacts DEF Row
\* The last touch has not changed.
<1>4. wNew(r) <= head => wNew(r) = w(r)
  <2> SUFFICES ASSUME wNew(r) <= head PROVE wNew(r) = w(r)
    OBVIOUS
  <2>1. wNew(r) \in 0..head /\ update'[wNew(r)] = update[wNew(r)]
    BY <1>0, <1>1
  <2>2. \A v \in (wNew(r) + 1)..head : v \in (wNew(r) + 1)..head' /\ v \in 0..head
    BY <1>0, <1>1
  <2>3. \A v \in (wNew(r) + 1)..head : update[v][r.key] = "none"
    BY <1>0, <1>1, <2>2
  <2> QED
    BY <1>0, <1>1, <2>1, <2>3, LastTouchUnique
<1> HIDE DEF w
<1>5. ASSUME wNew(r) <= finalTip PROVE Covered(r)
  <2>1. wNew(r) = w(r)
    BY <1>0, <1>1, <1>4, <1>5
  <2> QED
    BY <1>2, <1>5, <2>1 DEF LeftoversQueued, w
<1>6. ASSUME NEW s \in Slots, FinalizeSlot(s) PROVE Covered(r)'
  <2>1. s \in Nat /\ finalTip < s /\ finalTip' = s /\ s <= head /\ update' = update /\ head' = head
    BY <1>s, <1>6, FinalizedNext DEF FinalizeSlot
  <2>2. CASE wNew(r) <= finalTip
    <3>1. PICK i \in queue \cup taken : Covers(i, r)
      BY <1>5, <2>2 DEF Covered
    <3> QED
      BY <1>3, <1>6, <3>1, EnqueueCovers
  <2>3. CASE finalTip < wNew(r)
    <3> DEFINE v == wNew(r)
    <3>1. v \in Nat /\ v <= s /\ v \in (finalTip + 1)..head /\ v \in Slots
      BY <1>0, <1>1, <2>1, <2>3, StoreFacts DEF Slots
    <3>2. Arrived(v)
      BY <1>s, <1>6, <3>1, FinalizedArrived DEF Arrived
    <3>3. update[v][r.key] # "none" /\ \A u \in (v + 1)..head : update[u][r.key] = "none"
      BY <1>0, <1>1, <2>1, <2>3
    <3>4. IF update[v][r.key] = "closed" THEN r.key \in blocks[v].closed
          ELSE [key |-> r.key, owner |-> update[v][r.key]] \in blocks[v].open
      BY <1>3, <3>1, <3>2, <3>3 DEF BlockCarriesTouched, Touched
    <3>5. v = s
      <4>1. blocks[v] # NoBlock
        BY <3>4 DEF NoBlock
      <4>2. ~(v < s)
        BY <1>6, <3>1, <4>1 DEF FinalizeSlot
      <4> QED
        BY <2>1, <3>1, <4>2
    <3>6. CASE update[s][r.key] = "closed"
      <4> DEFINE i == [at |-> s, key |-> r.key, owner |-> NoOwner, cutoff |-> s + 1]
      <4>1. i \in KeysForSlot(s)
        BY <3>4, <3>5, <3>6 DEF KeysForSlot, NoMoves
      <4>2. Covers(i, r)
        BY <1>1, <1>3, <2>1, <3>5 DEF Covers
      <4> HIDE DEF i
      <4> QED
        BY <1>3, <1>6, <4>1, <4>2, EnqueueCovers
    <3>7. CASE update[s][r.key] # "closed"
      <4>1. update[s][r.key] \in Owners
        <5>1. [key |-> r.key, owner |-> update[s][r.key]] \in KeyOwner
          BY <3>4, <3>5, <3>7, StoreFacts
        <5> QED
          BY <5>1 DEF KeyOwner
      <4>2. r.slot < s
        <5>1. ASSUME ~r.open, r.slot = s PROVE FALSE
          BY <1>2, <4>1, <5>1, StoreAssumption DEF ScansMaskCloses, NoMoves, Gone
        <5> QED
          BY <1>1, <1>3, <3>5, <5>1
      <4> DEFINE i == [at |-> s, key |-> r.key, owner |-> NoOwner, cutoff |-> s]
      <4>3. i \in KeysForSlot(s)
        <5>1. [key |-> r.key, owner |-> update[s][r.key]] \in blocks[s].open
          BY <3>4, <3>5, <3>7
        <5>2. \A p : p \in blocks[s].open =>
                [at |-> s, key |-> p.key, owner |-> NoOwner, cutoff |-> s] \in KeysForSlot(s)
          BY DEF KeysForSlot, NoMoves
        <5>3. [key |-> r.key, owner |-> update[s][r.key]].key = r.key
          OBVIOUS
        <5> QED
          BY <5>1, <5>2, <5>3
      <4>4. Covers(i, r)
        BY <4>2 DEF Covers
      <4> HIDE DEF i
      <4> QED
        BY <1>3, <1>6, <4>3, <4>4, EnqueueCovers
    <3> QED
      BY <3>6, <3>7
  <2> QED
    BY <1>0, <1>1, <2>2, <2>3
<1>7. CASE DrainerStep /\ \A s \in Slots : ~FinalizeSlot(s)
  <2>1. finalTip' = finalTip
    BY <1>7 DEF Next, LiveBlock, LostBlock, RepairBlock, GapSlotEmpty, SaveMasks, SaveRows,
                SaveConfirm, ApiLearns, DrainStep
  <2> QED
    BY <1>5, <1>7, <2>1, DrainCovers
<1>8. CASE ~DrainerStep /\ \A s \in Slots : ~FinalizeSlot(s)
  <2>1. queue' = queue /\ taken' = taken /\ finalTip' = finalTip
    BY <1>8, QueueKept
  <2> QED
    BY <1>5, <2>1 DEF Covered, Covers
<1> QED
  BY <1>6, <1>7, <1>8

\* At the start nothing but the open rows of the snapshot is in the tables.
LEMMA LeftoversInit == Init => BlockCarriesTouched /\ ScansMaskCloses /\ LeftoversQueued
<1> SUFFICES ASSUME Init PROVE BlockCarriesTouched /\ ScansMaskCloses /\ LeftoversQueued
  OBVIOUS
<1>0. StoreType
  BY InitType
<1>1. head = 0 /\ finalTip = 0 /\ accounts \cup snapshot = snapshot
  BY DEF Init, CleanupInit
<1>2. \A r \in snapshot : r.open /\ r.slot = 0
  BY DEF Init, CleanupInit
<1>3. (finalTip + 1)..head = {}
  BY <1>1
<1>4. \A r \in snapshot : LastIn(update, r.key, head) = 0
  BY <1>1, LastTouchIs
<1> QED
  BY <1>1, <1>2, <1>3, <1>4 DEF BlockCarriesTouched, ScansMaskCloses, LeftoversQueued

\* The current version of every account is in the tables once all is written, or its
\* insert failed.
LEMMA DrainedHasCurrent ==
  ASSUME StoreType, SlotInv, CurrentInv, Drained,
         NEW k \in Keys, OnChain(k, head) # "closed"
  PROVE  [key |-> k, owner |-> OnChain(k, head), slot |-> LastTouch(k, head), open |-> TRUE]
           \in accounts \cup snapshot \cup unsaved
<1> DEFINE w == LastIn(update, k, head)
<1>0. head \in Nat /\ finalTip \in Nat /\ finalTip <= head
  BY StoreFacts DEF SlotInv, SlotOrder
<1>1. w \in 0..head /\ w \in Nat /\ \A v \in (w + 1)..head : update[v][k] = "none"
  BY <1>0, LastTouchIs
<1>2. LastTouch(k, head) = w /\ OnChain(k, head) = OwnerAt(update[w][k])
  BY LastTouchOfChain DEF OwnerIn
<1> HIDE DEF w
<1>3. update[w][k] \in Owners /\ OwnerAt(update[w][k]) = update[w][k]
  BY <1>2 DEF OwnerAt
<1>4. Written(w)
  BY DEF Written, Drained, Busy, Tasks
<1>5. Current(k, w)
  <2>1. Horizon \in Nat /\ Horizon <= head
    BY <1>0 DEF Horizon
  <2>2. (w + 1)..Horizon \subseteq (w + 1)..head
    BY <1>0, <1>1, <2>1
  <2> QED
    BY <1>1, <2>2 DEF Current, Touched
<1> QED
  BY <1>1, <1>2, <1>3, <1>4, <1>5 DEF CurrentInv, CurrentRowsKept

\* With nothing queued and the drainer waiting, no row is on its way out.
LEMMA DrainedCoversNone ==
  ASSUME DrainInv, Drained, NEW r
  PROVE  ~Covered(r)
BY DEF DrainInv, TakenWhileDraining, Drained, Covered

\* A row of an open version is the chain's, if its slot is that of the last touch.
LEMMA CurrentRow ==
  ASSUME StoreType, HistoryInv, NEW r \in accounts \cup snapshot, r.open,
         r.slot = LastIn(update, r.key, head)
  PROVE  /\ r.key \in Keys /\ OnChain(r.key, head) # "closed"
         /\ r = [key |-> r.key, owner |-> OnChain(r.key, head),
                 slot |-> LastTouch(r.key, head), open |-> TRUE]
<1>1. /\ r.key \in Keys /\ r.owner \in Owners
      /\ r = [key |-> r.key, owner |-> r.owner, slot |-> r.slot, open |-> r.open]
      /\ r.open = TRUE
  BY StoreFacts DEF Row
<1>2. update[r.slot][r.key] = r.owner
  BY DEF HistoryInv, RowsFollowChain, RowFollowsChain
<1>3. LastTouch(r.key, head) = r.slot /\ OnChain(r.key, head) = r.owner
  BY <1>1, <1>2, LastTouchOfChain DEF OwnerIn, OwnerAt
<1>4. r.owner # "closed"
  BY <1>1, StoreAssumption
<1> QED
  BY <1>1, <1>3, <1>4

\* No row is younger than the last touch of its key.
LEMMA RowIsOld ==
  ASSUME StoreType, HistoryInv, NEW r \in accounts \cup snapshot
  PROVE  /\ r.slot \in Nat /\ r.key \in Keys /\ LastIn(update, r.key, head) \in Nat
         /\ r.slot <= LastIn(update, r.key, head)
<1>0. head \in Nat
  BY StoreFacts
<1>1. r \in Row /\ r.slot <= head
  BY StoreFacts DEF HistoryInv, RowsFollowChain, RowFollowsChain
<1>2. r.slot \in Nat /\ r.key \in Keys /\ r.owner \in Owners /\ r.open \in BOOLEAN
  BY <1>1 DEF Row
<1>3. r.slot = 0 \/ update[r.slot][r.key] # "none"
  BY <1>2, StoreAssumption DEF HistoryInv, RowsFollowChain, RowFollowsChain
<1>4. /\ LastIn(update, r.key, head) \in Nat
      /\ \A v \in 0..head : v <= LastIn(update, r.key, head) \/ update[v][r.key] = "none"
  BY <1>0, LastTouchIs
<1>5. r.slot \in 0..head
  BY <1>0, <1>1, <1>2
<1> QED
  BY <1>2, <1>3, <1>4, <1>5

\* Without the map, what is drained has no superseded row and no mask.
LEMMA DrainedScansExact ==
  ASSUME StoreType, SlotInv, HistoryInv, DrainInv, BlockCarriesTouched, LeftoversQueued,
         NoMoves, Drained, NEW r \in accounts \cup snapshot
  PROVE  r.open /\ r.slot = LastIn(update, r.key, head)
<1> DEFINE w == LastIn(update, r.key, head)
<1>0. head \in Nat /\ finalTip \in Nat
  BY StoreFacts
<1>1. r.slot \in Nat /\ r.key \in Keys /\ w \in Nat /\ r.slot <= w
  BY RowIsOld
<1>2. w <= head /\ (w = 0 \/ update[w][r.key] # "none")
      /\ \A v \in (w + 1)..head : update[v][r.key] = "none"
  BY <1>0, LastTouchIs
<1> HIDE DEF w
<1>3. w <= finalTip
  <2> SUFFICES ASSUME ~(w <= finalTip) PROVE FALSE
    OBVIOUS
  <2>1. w \in (finalTip + 1)..head /\ w # 0
    BY <1>0, <1>1, <1>2
  <2>2. w \in Slots
    BY <1>1, <1>2, <2>1, StoreFacts DEF Slots
  <2>3. blocks[w] = NoBlock /\ Arrived(w)
    BY <2>2 DEF Drained, Arrived
  <2>4. /\ Touched(r.key, w) /\ \A v \in (w + 1)..head : ~Touched(r.key, v)
    BY <1>2, <2>1 DEF Touched
  <2>5. IF update[w][r.key] = "closed" THEN r.key \in blocks[w].closed
        ELSE [key |-> r.key, owner |-> update[w][r.key]] \in blocks[w].open
    BY <1>1, <2>1, <2>3, <2>4 DEF BlockCarriesTouched
  <2> QED
    BY <2>3, <2>5 DEF NoBlock
<1>4. ~Covered(r)
  BY DrainedCoversNone
<1>5. ~(r.slot < w \/ (~r.open /\ r.slot <= w))
  BY <1>3, <1>4 DEF LeftoversQueued, w
<1> QED
  BY <1>1, <1>5 DEF w

----------------------------------------------------------------------------
(* Nothing is left behind: with the owner map                              *)

\* The owner map sees every block.
AllRouted == mode.map /\ ~mode.lossy

\* A block not finalized has the pair of every key it wrote, and of every program a
\* key left in it.
BlockCarriesRoutes ==
  AllRouted =>
    \A s \in (finalTip + 1)..head, k \in Keys :
      /\ update[s][k] \in Owners => [key |-> k, owner |-> update[s][k]] \in blocks[s].open
      /\ \A o \in Owners : OwnerIn(update, k, s - 1) = o /\ update[s][k] \notin {"none", o} =>
           [key |-> k, owner |-> o] \in blocks[s].pairs

\* Masks not finalized, and those still to be written, are among their block's pairs.
MasksRouted ==
  AllRouted =>
    /\ \A r \in accounts \cup snapshot : ~r.open /\ finalTip < r.slot =>
         [key |-> r.key, owner |-> r.owner] \in blocks[r.slot].pairs
    /\ MasksPending =>
         /\ \A k \in saver["main"].closed : Known(k) =>
              [key |-> k, owner |-> owners[k].owner] \in blocks[head].pairs
         /\ \A c \in changed : c.slot = head =>
              [key |-> c.key, owner |-> c.owner] \in blocks[head].pairs

\* A row touched since by a finalized slot, and a finalized mask, is on its way out.
LeftoversRouted ==
  AllRouted =>
    \A r \in accounts \cup snapshot :
      (\E v \in (r.slot + 1)..finalTip : Touched(r.key, v)) \/ (~r.open /\ r.slot <= finalTip) =>
        Covered(r)

\* At the start there is nothing to route.
LEMMA RoutesInit == Init => BlockCarriesRoutes /\ MasksRouted /\ LeftoversRouted
<1> SUFFICES ASSUME Init PROVE BlockCarriesRoutes /\ MasksRouted /\ LeftoversRouted
  OBVIOUS
<1>1. head = 0 /\ finalTip = 0 /\ accounts \cup snapshot = snapshot
  BY DEF Init, CleanupInit
<1>2. \A r \in snapshot : r.open /\ r.slot = 0
  BY DEF Init, CleanupInit
<1>3. (finalTip + 1)..head = {} /\ (0 + 1)..0 = {}
  BY <1>1
<1>4. ~MasksPending
  BY DEF Init, MasksPending, Busy, Idle
<1> QED
  BY <1>1, <1>2, <1>3, <1>4 DEF BlockCarriesRoutes, MasksRouted, LeftoversRouted

\* While nothing is lost, no block is saved twice.
LEMMA NoRestart ==
  ASSUME StoreType, SlotInv, ~mode.lossy, [Next]_vars, NEW s \in Slots, s <= head
  PROVE  ~StartsSlot(s)
<1> SUFFICES ASSUME StartsSlot(s) PROVE FALSE
  OBVIOUS
<1>0. StoreType' /\ SlotInv' /\ mode' = mode /\ head \in Nat /\ s \in Nat /\ Tasks = {"main", "fill"}
  BY NextType, SlotInvStep, NextMode, StoreFacts
<1>1. PICK t \in Tasks, b \in [Keys -> AllUpdates] : SaveStart(t, s, b, AllWork)
  BY DEF StartsSlot
<1>2. ~Busy(t) /\ saver'[t].busy /\ saver'[t].slot = s /\ saver'[t].todo = AllWork
  BY <1>1, SaveStarted
<1>3. missed' = {} /\ lastSlot' = head'
  BY <1>0 DEF SlotInv, NothingMissed
<1>4. t = "main"
  BY <1>0, <1>2, <1>3 DEF SlotInv, SlotOrder, Busy, Gaps
<1>5. s = head'
  BY <1>0, <1>2, <1>3, <1>4 DEF SlotInv, SlotOrder, Busy
<1>6. ASSUME NEW c \in Blocks, LiveBlock(c) PROVE FALSE
  <2>1. head' = head + 1
    BY <1>6, LiveFollows
  <2> QED
    BY <1>0, <1>5, <2>1
<1>7. CASE SaveMasks("main")
  BY <1>0, <1>2, <1>7, WritingTask DEF SlotInv, Busy
<1>8. CASE saver'["main"].busy /\ "masks" \in saver'["main"].todo <=> MasksPending
  BY <1>2, <1>4, <1>8 DEF MasksPending, Busy, AllWork
<1> QED
  BY <1>6, <1>7, <1>8, MapSteps

\* What a block routes by stays until its slot is finalized.
LEMMA RoutesKept ==
  ASSUME StoreType, SlotInv, ~mode.lossy, [Next]_vars, NEW s \in Slots, s <= head, finalTip' < s
  PROVE  blocks'[s].open = blocks[s].open /\ blocks'[s].pairs = blocks[s].pairs
BY NoRestart, BlockKept DEF SlotInv

\* Each received block has a pair for every program it wrote a key under, and for the
\* program the key was in before, as the owner map knew it then.
LEMMA BlockCarriesRoutesStep ==
  ASSUME StoreType, SlotInv, MapInv, BlockCarriesRoutes, [Next]_vars
  PROVE  BlockCarriesRoutes'
<1>s. SlotOrder
  BY DEF SlotInv
<1>0. /\ head \in Nat /\ head' \in Nat /\ head <= head' /\ finalTip \in Nat /\ finalTip' \in Nat
      /\ finalTip <= finalTip' /\ mode' = mode /\ \A v \in 0..head : update'[v] = update[v]
      /\ Tasks = {"main", "fill"}
  BY <1>s, ChainGrows, StoreFacts
<1> SUFFICES ASSUME AllRouted, NEW s \in (finalTip' + 1)..head', NEW k \in Keys
             PROVE  /\ update'[s][k] \in Owners =>
                         [key |-> k, owner |-> update'[s][k]] \in blocks'[s].open
                    /\ \A o \in Owners :
                         OwnerIn(update', k, s - 1) = o /\ update'[s][k] \notin {"none", o} =>
                           [key |-> k, owner |-> o] \in blocks'[s].pairs
  BY <1>0 DEF BlockCarriesRoutes, AllRouted
<1>1. s \in Nat /\ finalTip' < s /\ finalTip < s /\ s <= head' /\ s - 1 \in Nat
  <2>1. \A m, n \in Nat : \A v \in (m + 1)..n : v \in Nat /\ m < v /\ v <= n /\ v - 1 \in Nat
    OBVIOUS
  <2>2. s \in Nat /\ finalTip' < s /\ s <= head' /\ s - 1 \in Nat
    BY <1>0, <2>1
  <2> QED
    BY <1>0, <2>2
<1>2. CASE s <= head
  <2>1. s \in (finalTip + 1)..head /\ s \in 0..head /\ s \in Slots
    BY <1>0, <1>1, <1>2, StoreFacts DEF Slots
  <2>2. blocks'[s].open = blocks[s].open /\ blocks'[s].pairs = blocks[s].pairs
    BY <1>1, <1>2, <2>1, RoutesKept DEF AllRouted
  <2>3. update'[s] = update[s]
    BY <1>0, <2>1
  <2>4. OwnerIn(update', k, s - 1) = OwnerIn(update, k, s - 1)
    <3>1. \A v \in 0..(s - 1) : update'[v] = update[v]
      <4>1. \A v \in 0..(s - 1) : v \in 0..head
        BY <1>0, <1>1, <1>2
      <4> QED
        BY <1>0, <4>1
    <3> QED
      BY <1>1, <3>1, OwnerInSame
  <2> QED
    BY <2>1, <2>2, <2>3, <2>4 DEF BlockCarriesRoutes
<1>3. ASSUME NEW b \in Blocks, LiveBlock(b), ~(s <= head)
      PROVE  /\ update'[s][k] \in Owners =>
                  [key |-> k, owner |-> update'[s][k]] \in blocks'[s].open
             /\ \A o \in Owners :
                  OwnerIn(update', k, s - 1) = o /\ update'[s][k] \notin {"none", o} =>
                    [key |-> k, owner |-> o] \in blocks'[s].pairs
  <2>1. /\ head' = head + 1 /\ head' \in Slots /\ b \in [Keys -> AllUpdates]
        /\ update'[head'] = b /\ SaveStart("main", head', b, AllWork)
    BY <1>3, LiveFollows
  <2>2. s = head' /\ s - 1 = head /\ s \in Slots
    BY <1>0, <1>1, <1>3, <2>1
  <2>3. ~Busy("main") /\ blocks'[s].open = OpenBy(b) /\ blocks'[s].pairs = PairsBy(b, s)
    BY <1>0, <2>1, <2>2, SaveStarted DEF AllRouted
  <2>4. owners[k].slot <= head /\ Mapped(k) = OwnerIn(update, k, head)
    BY <2>3 DEF MapInv, OwnerMapFollowsChain, AllRouted, MasksPending
  <2>5. owners[k].slot < s
    <3>1. owners[k].slot \in Nat
      BY KnownIsMapped
    <3>2. head \in Nat /\ s = head + 1 /\ owners[k].slot <= head
      BY <1>0, <2>1, <2>2, <2>4
    <3> QED
      BY <3>1, <3>2
  <2>6. OwnerIn(update', k, s - 1) = Mapped(k)
    <3>1. OwnerIn(update', k, head) = OwnerIn(update, k, head)
      BY <1>0, OwnerInSame
    <3> QED
      BY <2>2, <2>4, <3>1
  <2>7. ASSUME NEW o \in Owners, Mapped(k) = o, b[k] \notin {"none", o}
        PROVE  [key |-> k, owner |-> o] \in PairsBy(b, s)
    <3>1. CASE b[k] \in Owners
      <4>1. [slot |-> s, key |-> k, owner |-> o] \in ChangedBy(b, s)
        BY <2>1, <2>2, <2>5, <2>7, <3>1, UpsertMaps DEF AllRouted
      <4> QED
        BY <4>1 DEF PairsBy
    <3>2. CASE b[k] \notin Owners
      <4>1. b[k] \in {"closed", "other"}
        BY <2>1, <2>7, <3>2 DEF AllUpdates
      <4>2. k \in ClosedBy(b, s) /\ OwnerAt(Upsert(b, s)[k].owner) = o
        BY <2>1, <2>2, <2>5, <2>7, <3>2, <4>1, UpsertMaps, StoreAssumption DEF AllRouted
      <4>3. Upsert(b, s)[k].owner = o
        BY <4>2, StoreAssumption DEF OwnerAt
      <4>4. Upsert(b, s)[k] # NoEntry
        BY <4>3, CleanupAssumption DEF NoEntry
      <4> QED
        BY <4>2, <4>3, <4>4 DEF PairsBy
    <3> QED
      BY <3>1, <3>2
  <2> QED
    BY <2>1, <2>2, <2>3, <2>6, <2>7 DEF OpenBy
<1>4. CASE head' = head
  BY <1>0, <1>1, <1>2, <1>4
<1>5. SaveMasks("main") => head' = head
  BY DEF SaveMasks
<1> QED
  BY <1>2, <1>3, <1>4, <1>5, MapSteps DEF SlotInv, AllRouted

\* A mask is written under a pair its block has recorded.
LEMMA MasksRoutedStep ==
  ASSUME StoreType, SlotInv, HistoryInv, MasksRouted, [Next]_vars
  PROVE  MasksRouted'
<1>s. SlotOrder
  BY DEF SlotInv
<1>0. /\ head \in Nat /\ head' \in Nat /\ head <= head' /\ finalTip \in Nat /\ finalTip' \in Nat
      /\ finalTip <= finalTip' /\ mode' = mode /\ Tasks = {"main", "fill"} /\ StoreType' /\ SlotInv'
  BY <1>s, ChainGrows, StoreFacts, NextType, SlotInvStep
\* What waits to be masked is routed by the block it is of.
<1>1. ASSUME AllRouted, MasksPending'
      PROVE  /\ \A k \in saver'["main"].closed : Known(k)' =>
                  [key |-> k, owner |-> owners'[k].owner] \in blocks'[head'].pairs
             /\ \A c \in changed' : c.slot = head' =>
                  [key |-> c.key, owner |-> c.owner] \in blocks'[head'].pairs
  <2>1. ASSUME NEW b \in Blocks, LiveBlock(b)
        PROVE  /\ \A k \in saver'["main"].closed : Known(k)' =>
                    [key |-> k, owner |-> owners'[k].owner] \in blocks'[head'].pairs
               /\ \A c \in changed' : c.slot = head' =>
                    [key |-> c.key, owner |-> c.owner] \in blocks'[head'].pairs
    <3>1. head' \in Slots /\ b \in [Keys -> AllUpdates] /\ SaveStart("main", head', b, AllWork)
      BY <2>1, LiveFollows
    <3>2. PICK s \in Slots : s = head' /\ SaveStart("main", s, b, AllWork)
      BY <3>1
    <3>3. /\ blocks'[s].pairs = PairsBy(b, s) /\ saver'["main"].closed = ClosedBy(b, s)
          /\ owners' = Upsert(b, s) /\ changed' = changed \cup ChangedBy(b, s)
      BY <1>0, <1>1, <3>2, SaveStarted DEF AllRouted
    <3> QED
      BY <3>2, <3>3 DEF PairsBy, Known, ClosedBy
  <2>2. ~SaveMasks("main")
    <3> SUFFICES ASSUME SaveMasks("main") PROVE FALSE
      OBVIOUS
    <3>1. saver'["main"].todo = saver["main"].todo \ {"masks"}
      BY <1>0, StoreFacts DEF SaveMasks, Saving
    <3> QED
      BY <1>1, <3>1 DEF MasksPending
  <2>3. ASSUME UNCHANGED <<mode, owners, changed, update, head>>,
               saver'["main"].busy /\ "masks" \in saver'["main"].todo <=> MasksPending,
               MasksPending => saver'["main"].closed = saver["main"].closed
        PROVE  /\ \A k \in saver'["main"].closed : Known(k)' =>
                    [key |-> k, owner |-> owners'[k].owner] \in blocks'[head'].pairs
               /\ \A c \in changed' : c.slot = head' =>
                    [key |-> c.key, owner |-> c.owner] \in blocks'[head'].pairs
    <3>1. MasksPending
      BY <1>1, <2>3 DEF MasksPending, Busy
    <3>2. head \in Slots /\ finalTip' < head
      <4>1. Busy("main") /\ Busy("main")' /\ lastSlot = head
        BY <1>1, <3>1 DEF MasksPending, SlotInv, NothingMissed, AllRouted
      <4>2. saver["main"].slot = head /\ saver["main"].slot \in Slots
        BY <1>s, <1>0, <4>1, BusySlots
      <4>3. saver'["main"].slot = head' /\ saver'["main"].slot > finalTip'
        BY <1>0, <1>1, <4>1 DEF SlotInv, NothingMissed, SlotOrder, FinalizedDone, AllRouted
      <4>4. finalTip' < head
        BY <1>0, <2>3, <4>3
      <4> QED
        BY <4>2, <4>4
    <3>3. blocks'[head].pairs = blocks[head].pairs
      BY <1>0, <1>1, <3>2, RoutesKept DEF AllRouted
    <3> QED
      BY <1>1, <2>3, <3>1, <3>3 DEF MasksRouted, Known
  <2> QED
    BY <1>1, <2>1, <2>2, <2>3, MapSteps DEF AllRouted
<1>2. ASSUME AllRouted, NEW r \in (accounts \cup snapshot)', ~r.open, finalTip' < r.slot
      PROVE  [key |-> r.key, owner |-> r.owner] \in blocks'[r.slot].pairs
  <2>1. CASE r \in accounts \cup snapshot
    <3>1. r.slot \in Slots /\ r.slot \in Nat /\ r.slot <= head
      <4>1. r \in Row /\ r.slot <= head /\ r.slot # 0
        BY <1>2, <2>1, StoreFacts DEF HistoryInv, RowsFollowChain, RowFollowsChain
      <4> QED
        BY <4>1, StoreFacts DEF Row, Slots
    <3>2. finalTip < r.slot
      BY <1>0, <1>2, <3>1
    <3>3. blocks'[r.slot].pairs = blocks[r.slot].pairs
      BY <1>2, <3>1, RoutesKept DEF AllRouted
    <3> QED
      BY <1>2, <2>1, <3>2, <3>3 DEF MasksRouted
  <2>2. CASE r \notin accounts \cup snapshot
    <3>1. PICK t \in Tasks :
             /\ Busy(t) /\ r.slot = saver[t].slot
             /\ \/ SaveRows(t) /\ r \in OpenRows(t)
                \/ SaveMasks(t) /\ mode.map /\ r \in RoutedMasks(t)
                \/ /\ SaveMasks(t) /\ ~mode.map
                   /\ \E m \in MaskByScan(saver[t].closed, saver[t].slot) : r \in m
      BY <1>s, <2>2, RowsWritten
    <3>2. r \notin OpenRows(t)
      BY <1>2 DEF OpenRows
    <3>3. SaveMasks(t) /\ r \in RoutedMasks(t)
      BY <1>2, <3>1, <3>2 DEF AllRouted
    <3>4. t = "main" /\ saver[t].slot = head /\ MasksPending /\ head \in Slots
      <4>1. missed = {} /\ lastSlot = head
        BY <1>2 DEF SlotInv, NothingMissed, AllRouted
      <4>2. t = "main"
        BY <1>s, <1>0, <3>1, <4>1 DEF SlotOrder, Gaps
      <4> QED
        BY <1>s, <3>1, <3>3, <4>1, <4>2, BusySlots DEF MasksPending, SaveMasks
    <3>5. [key |-> r.key, owner |-> r.owner] \in blocks[head].pairs
      BY <1>2, <3>3, <3>4 DEF MasksRouted, RoutedMasks
    <3>6. blocks' = blocks
      BY <3>3 DEF SaveMasks
    <3> QED
      BY <3>1, <3>4, <3>5, <3>6
  <2> QED
    BY <2>1, <2>2
<1> QED
  BY <1>0, <1>1, <1>2 DEF MasksRouted, AllRouted

\* What finalizing a slot queues, with the owner map: the pairs of the block.
LEMMA RoutesQueued ==
  ASSUME StoreType, mode.map, NEW s \in Slots, FinalizeSlot(s), NEW r \in Row, NEW p \in KeyOwner,
         p.key = r.key, p.owner = r.owner,
         (p \in blocks[s].open /\ r.slot < s) \/ (p \in blocks[s].pairs /\ r.slot <= s)
  PROVE  Covered(r)'
<1>0. s \in Nat /\ r.slot \in Nat
  BY StoreFacts DEF Row
<1>1. CASE p \in blocks[s].open /\ r.slot < s
  <2> DEFINE i == [at |-> s, key |-> p.key, owner |-> p.owner, cutoff |-> s]
  <2>1. i \in KeysForSlot(s)
    BY <1>1 DEF KeysForSlot
  <2>2. Covers(i, r)
    BY <1>1 DEF Covers
  <2> HIDE DEF i
  <2> QED
    BY <2>1, <2>2, EnqueueCovers
<1>2. CASE p \in blocks[s].pairs /\ r.slot <= s
  <2> DEFINE i == [at |-> s, key |-> p.key, owner |-> p.owner, cutoff |-> s + 1]
  <2>1. i \in KeysForSlot(s)
    BY <1>2 DEF KeysForSlot
  <2>2. Covers(i, r)
    BY <1>0, <1>2 DEF Covers
  <2> HIDE DEF i
  <2> QED
    BY <2>1, <2>2, EnqueueCovers
<1> QED
  BY <1>1, <1>2

\* Slots are finalized one after the other.
LEMMA FinalizesNext ==
  ASSUME StoreType, SlotInv, ~mode.lossy, NEW s \in Slots, FinalizeSlot(s)
  PROVE  s = finalTip + 1
<1>1. s \in Nat /\ finalTip \in Nat /\ finalTip < s /\ s <= confirmed /\ confirmed \in Nat
  BY FinalizedNext, StoreFacts DEF SlotInv
<1> SUFFICES ASSUME finalTip + 1 < s PROVE FALSE
  BY <1>1
<1>2. finalTip + 1 \in (finalTip + 1)..confirmed /\ finalTip + 1 \in Slots
  <2>1. s <= MaxSlot /\ MaxSlot \in Nat
    BY StoreFacts DEF Slots
  <2> QED
    BY <1>1, <2>1 DEF Slots
<1>3. blocks[finalTip + 1].saved
  BY <1>2 DEF SlotInv, NothingMissed
<1>4. blocks[finalTip + 1] # NoBlock
  BY <1>3 DEF NoBlock
<1> QED
  BY <1>2, <1>4 DEF FinalizeSlot

\* The row a finalized slot leaves behind is covered by what that slot queues.
LEMMA LeftoverIsQueued ==
  ASSUME StoreType, SlotInv, HistoryInv, BlockCarriesRoutes, MasksRouted, LeftoversRouted,
         AllRouted, NEW s \in Slots, FinalizeSlot(s), NEW r \in accounts \cup snapshot,
         (\E v \in (r.slot + 1)..s : Touched(r.key, v)) \/ (~r.open /\ r.slot <= s)
  PROVE  Covered(r)'
<1>0. /\ head \in Nat /\ finalTip \in Nat /\ s \in Nat /\ s = finalTip + 1 /\ s <= head
      /\ s - 1 = finalTip
  BY StoreFacts, FinalizesNext, FinalizedNext DEF SlotInv, AllRouted
<1>1. r \in Row /\ r.slot \in Nat /\ r.key \in Keys /\ r.owner \in Owners
  BY StoreFacts DEF Row
<1> SUFFICES ASSUME ~Covered(r) PROVE Covered(r)'
  <2>1. CASE Covered(r)
    <3>1. PICK i \in queue \cup taken : Covers(i, r)
      BY <2>1 DEF Covered
    <3> QED
      BY <1>1, <3>1, EnqueueCovers
  <2> QED
    BY <2>1
<1>2. /\ ~(~r.open /\ r.slot <= finalTip)
      /\ \A v \in (r.slot + 1)..finalTip : ~Touched(r.key, v)
  BY DEF LeftoversRouted
<1> DEFINE p == [key |-> r.key, owner |-> r.owner]
<1>3. p \in KeyOwner /\ p.key = r.key /\ p.owner = r.owner
  BY <1>1 DEF KeyOwner
<1>4. CASE ~r.open
  <2>1. r.slot = s
    <3>1. ~(r.slot <= finalTip)
      BY <1>2, <1>4
    <3>2. \A v \in (r.slot + 1)..s : r.slot < s
      BY <1>0, <1>1
    <3> QED
      BY <1>0, <1>1, <3>1, <3>2
  <2>2. p \in blocks[s].pairs
    BY <1>0, <1>4, <2>1 DEF MasksRouted
  <2> HIDE DEF p
  <2> QED
    BY <1>0, <1>1, <1>3, <2>1, <2>2, RoutesQueued DEF AllRouted
<1>5. CASE r.open
  <2>1. PICK v \in (r.slot + 1)..s : Touched(r.key, v)
    BY <1>5
  <2>2. v = s /\ r.slot < s /\ r.slot <= finalTip
    <3>1. v \in Nat /\ r.slot < v /\ v <= s
      BY <1>0, <1>1
    <3>2. v \notin (r.slot + 1)..finalTip
      BY <1>2, <2>1
    <3> QED
      BY <1>0, <1>1, <3>1, <3>2
  <2>3. OwnerIn(update, r.key, s - 1) = r.owner
    <3>1. update[r.slot][r.key] = r.owner /\ r.owner # "none" /\ OwnerAt(r.owner) = r.owner
      BY <1>1, <1>5, StoreAssumption DEF HistoryInv, RowsFollowChain, RowFollowsChain, OwnerAt
    <3>2. r.slot \in 0..finalTip /\ \A u \in (r.slot + 1)..finalTip : update[u][r.key] = "none"
      BY <1>0, <1>1, <1>2, <2>2 DEF Touched
    <3>3. LastIn(update, r.key, finalTip) = r.slot
      BY <1>0, <3>1, <3>2, LastTouchUnique
    <3> QED
      BY <1>0, <3>1, <3>3 DEF OwnerIn
  <2>4. s \in (finalTip + 1)..head /\ update[s][r.key] # "none"
    BY <1>0, <2>1, <2>2 DEF Touched
  <2>5. p \in blocks[s].open \/ p \in blocks[s].pairs
    <3>1. CASE update[s][r.key] = r.owner
      BY <1>1, <2>4, <3>1 DEF BlockCarriesRoutes
    <3>2. CASE update[s][r.key] # r.owner
      BY <1>1, <2>3, <2>4, <3>2 DEF BlockCarriesRoutes
    <3> QED
      BY <3>1, <3>2
  <2> HIDE DEF p
  <2> QED
    BY <1>0, <1>1, <1>3, <2>2, <2>5, RoutesQueued DEF AllRouted
<1> QED
  BY <1>4, <1>5

\* Every touch that is finalized has covered what it superseded.
LEMMA LeftoversRoutedStep ==
  ASSUME StoreType, SlotInv, HistoryInv, DrainInv, BlockCarriesRoutes, MasksRouted,
         LeftoversRouted, [Next]_vars
  PROVE  LeftoversRouted'
<1>s. SlotOrder /\ FinalizedDone
  BY DEF SlotInv
<1>0. /\ head \in Nat /\ head' \in Nat /\ head <= head' /\ finalTip \in Nat /\ finalTip' \in Nat
      /\ finalTip <= head /\ finalTip <= finalTip' /\ mode' = mode
      /\ \A v \in 0..head : update'[v] = update[v]
  BY <1>s, ChainGrows, StoreFacts DEF SlotOrder
<1> SUFFICES ASSUME AllRouted, NEW r \in (accounts \cup snapshot)',
                    (\E v \in (r.slot + 1)..finalTip' : update'[v][r.key] # "none")
                      \/ (~r.open /\ r.slot <= finalTip')
             PROVE  Covered(r)'
  BY <1>0 DEF LeftoversRouted, AllRouted, Touched
<1>1. r \in accounts \cup snapshot
  <2> SUFFICES ASSUME r \notin accounts \cup snapshot PROVE FALSE
    OBVIOUS
  <2>1. r.slot \in Nat /\ finalTip < r.slot /\ finalTip' = finalTip
    BY NewRowIsFresh
  <2>2. (r.slot + 1)..finalTip = {} /\ ~(r.slot <= finalTip)
    BY <1>0, <2>1
  <2> QED
    BY <2>1, <2>2
<1>2. r \in Row /\ r.slot \in Nat /\ r.key \in Keys
  BY <1>1, StoreFacts DEF Row
<1>3. ASSUME finalTip' = finalTip PROVE Covered(r)
  <2>1. \A v \in (r.slot + 1)..finalTip : v \in 0..head
    BY <1>0, <1>2
  <2>2. (\E v \in (r.slot + 1)..finalTip : update[v][r.key] # "none")
          \/ (~r.open /\ r.slot <= finalTip)
    BY <1>0, <1>3, <2>1
  <2> QED
    BY <1>1, <2>2 DEF LeftoversRouted, Touched
<1>4. ASSUME NEW s \in Slots, FinalizeSlot(s) PROVE Covered(r)'
  <2>1. finalTip' = s /\ update' = update
    BY <1>s, <1>4, FinalizedNext DEF FinalizeSlot
  <2>2. (\E v \in (r.slot + 1)..s : Touched(r.key, v)) \/ (~r.open /\ r.slot <= s)
    BY <2>1 DEF Touched
  <2> QED
    BY <1>1, <1>4, <2>2, LeftoverIsQueued
<1>5. CASE DrainerStep /\ \A s \in Slots : ~FinalizeSlot(s)
  <2>1. finalTip' = finalTip
    BY <1>5 DEF Next, LiveBlock, LostBlock, RepairBlock, GapSlotEmpty, SaveMasks, SaveRows,
                SaveConfirm, ApiLearns, DrainStep
  <2> QED
    BY <1>3, <1>5, <2>1, DrainCovers
<1>6. CASE ~DrainerStep /\ \A s \in Slots : ~FinalizeSlot(s)
  <2>1. queue' = queue /\ taken' = taken /\ finalTip' = finalTip
    BY <1>6, QueueKept
  <2> QED
    BY <1>3, <2>1 DEF Covered, Covers
<1> QED
  BY <1>4, <1>5, <1>6

\* With the map, what is drained has no superseded row and no mask.
LEMMA DrainedRoutesExact ==
  ASSUME StoreType, SlotInv, HistoryInv, DrainInv, LeftoversRouted, AllRouted, Drained,
         NEW r \in accounts \cup snapshot
  PROVE  r.open /\ r.slot = LastIn(update, r.key, head)
<1> DEFINE w == LastIn(update, r.key, head)
<1>0. head \in Nat /\ finalTip \in Nat /\ confirmed \in Nat /\ head <= MaxSlot /\ MaxSlot \in Nat
  BY StoreFacts
<1>1. r.slot \in Nat /\ r.key \in Keys /\ w \in Nat /\ r.slot <= w
  BY RowIsOld
<1>2. w <= head /\ (w = 0 \/ update[w][r.key] # "none")
  BY <1>0, LastTouchIs
<1> HIDE DEF w
<1>3. head <= finalTip
  <2> SUFFICES ASSUME ~(head <= finalTip) PROVE FALSE
    OBVIOUS
  <2>1. confirmed = head
    BY DEF SlotInv, NothingMissed, AllRouted, Drained, Busy
  <2>2. head \in (finalTip + 1)..confirmed /\ head \in Slots
    BY <1>0, <2>1 DEF Slots
  <2>3. blocks[head].saved /\ blocks[head] = NoBlock
    BY <2>2 DEF SlotInv, NothingMissed, AllRouted, Drained
  <2> QED
    BY <2>3 DEF NoBlock
<1>4. ~Covered(r)
  BY DrainedCoversNone
<1>5. r.open
  BY <1>0, <1>1, <1>2, <1>3, <1>4 DEF LeftoversRouted
<1>6. ~(r.slot < w)
  <2> SUFFICES ASSUME r.slot < w PROVE FALSE
    OBVIOUS
  <2>1. w \in (r.slot + 1)..finalTip /\ Touched(r.key, w)
    BY <1>0, <1>1, <1>2, <1>3 DEF Touched
  <2> QED
    BY <1>4, <2>1 DEF LeftoversRouted
<1> QED
  BY <1>1, <1>5, <1>6 DEF w

\* The inductive invariant of the drained tables.
DrainedInv ==
  /\ ReadsInv
  /\ BlockCarriesTouched /\ ScansMaskCloses /\ LeftoversQueued
  /\ BlockCarriesRoutes /\ MasksRouted /\ LeftoversRouted

\* The invariant gives the property.
LEMMA DrainedMatch == DrainedInv => DrainedIsExact
<1> DEFINE chain == {[key |-> k, owner |-> OnChain(k, head), slot |-> LastTouch(k, head),
                      open |-> TRUE] : k \in {j \in Keys : OnChain(j, head) # "closed"}}
<1> SUFFICES ASSUME DrainedInv, ClosesRouted, Drained
             PROVE  /\ accounts \cup snapshot \subseteq chain
                    /\ chain \subseteq accounts \cup snapshot \cup unsaved
  BY DEF DrainedIsExact
<1>1. \A r \in accounts \cup snapshot : r.open /\ r.slot = LastIn(update, r.key, head)
  <2>1. CASE NoMoves
    BY <2>1, DrainedScansExact DEF DrainedInv, ReadsInv
  <2>2. CASE AllRouted
    BY <2>2, DrainedRoutesExact DEF DrainedInv, ReadsInv
  <2> QED
    BY <2>1, <2>2 DEF ClosesRouted, NoMoves, AllRouted
<1>2. ASSUME NEW r \in accounts \cup snapshot
      PROVE  /\ r.key \in Keys /\ OnChain(r.key, head) # "closed"
             /\ r = [key |-> r.key, owner |-> OnChain(r.key, head),
                     slot |-> LastTouch(r.key, head), open |-> TRUE]
  BY <1>1, CurrentRow DEF DrainedInv, ReadsInv
<1>3. ASSUME NEW k \in Keys, OnChain(k, head) # "closed"
      PROVE  [key |-> k, owner |-> OnChain(k, head), slot |-> LastTouch(k, head), open |-> TRUE]
               \in accounts \cup snapshot \cup unsaved
  BY <1>3, DrainedHasCurrent DEF DrainedInv, ReadsInv
<1> QED
  BY <1>2, <1>3

\* The invariant is kept by every step.
LEMMA DrainedStep == DrainedInv /\ [Next]_vars => DrainedInv'
<1> SUFFICES ASSUME DrainedInv, [Next]_vars PROVE DrainedInv'
  OBVIOUS
<1>1. StoreType /\ SlotInv /\ SlotOrder /\ HistoryInv /\ DrainInv /\ MapInv
  BY DEF DrainedInv, ReadsInv, SlotInv
<1>2. ReadsInv'
  BY ReadsStep DEF DrainedInv
<1>3. BlockCarriesTouched' /\ ScansMaskCloses' /\ LeftoversQueued'
  BY <1>1, BlockCarriesTouchedStep, ScansMaskClosesStep, LeftoversQueuedStep DEF DrainedInv
<1>4. BlockCarriesRoutes' /\ MasksRouted' /\ LeftoversRouted'
  BY <1>1, BlockCarriesRoutesStep, MasksRoutedStep, LeftoversRoutedStep DEF DrainedInv
<1> QED
  BY <1>2, <1>3, <1>4 DEF DrainedInv

\* For every deployment in which closes are routed, blocks lost and inserts of masks or
\* rows and deletes failing or not: once the queue is drained, the tables hold no mask,
\* no superseded row, and one row per account of the chain, save those whose newest
\* version could not be inserted (cleanup/mod.rs 17-26, save_block.rs 266-306).
THEOREM DrainedTablesExact == Spec => []DrainedIsExact
<1>1. Init => DrainedInv
  BY ReadsInit, LeftoversInit, RoutesInit DEF DrainedInv
<1>2. DrainedInv /\ [Next]_vars => DrainedInv'
  BY DrainedStep
<1> QED
  BY <1>1, <1>2, DrainedMatch, PTL DEF Spec

=============================================================================
