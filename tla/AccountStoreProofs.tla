------------------------- MODULE AccountStoreProofs -------------------------
(***************************************************************************)
(* Proofs about AccountStore: its types (StoreTypeCorrect), and that while *)
(* nothing is lost getProgramAccounts reads the chain                      *)
(* (ProgramReadsCorrect).                                                  *)
(*                                                                         *)
(* The inductive invariant, ReadsInv, is built in layers, each inductive   *)
(* relative to those above it:                                             *)
(*   StoreType   types, of the savers and the map's entries too            *)
(*   SlotInv     a slot is received or missed, then saved, then finalized  *)
(*   HistoryInv  rows, recorded blocks and queued items stem from touches  *)
(*               of their keys by the chain                                *)
(*   DrainInv    what the drainer has taken and not yet deleted            *)
(*   CurrentInv  the current version of every account is kept              *)
(*   MapInv      the owner map is the chain, up to the masks pending       *)
(*   MaskInv     a version that ended under its program has a younger mask *)
(* AccountDrainProofs goes on from here to the drained tables.             *)
(***************************************************************************)
EXTENDS AccountStore, FiniteSetTheorems, WellFoundedInduction, TLAPS

\* The two tasks that save blocks.
Tasks == {"main", "fill"}

\* What the owner map may hold for a key.
Entry == [owner : Owners, slot : 0..MaxSlot] \cup {NoEntry}

\* What a task may be saving.
Saving == [busy : BOOLEAN, slot : 0..MaxSlot, open : SUBSET KeyOwner,
           closed : SUBSET Keys, todo : SUBSET AllWork]

\* The type invariant, with the types of the owner map's entries and of the savers.
StoreType ==
  /\ mode \in Modes
  /\ TypeOK
  /\ owners \in [Keys -> Entry]
  /\ saver \in [Tasks -> Saving]

USE DEF cleanupVars, storeVars, vars

----------------------------------------------------------------------------
(* Numbers and sets                                                        *)

\* A bounded non-empty set of naturals has a greatest element.
LEMMA MaxExists ==
  ASSUME NEW S \in SUBSET Nat, NEW b \in Nat, \A p \in S : p <= b, S # {}
  PROVE  \E m \in S : \A p \in S : p <= m
<1> DEFINE U == {n \in Nat : \A p \in S : p <= n}
<1>1. b \in U
  OBVIOUS
<1>2. PICK n \in U : \A y \in U : ~(<<y, n>> \in OpToRel(<, Nat))
  <2>1. U \subseteq Nat /\ U # {}
    BY <1>1
  <2> HIDE DEF U
  <2> QED
    BY <2>1, WFMin, NatLessThanWellFounded
<1>3. \A y \in U : ~(y < n)
  BY <1>2 DEF OpToRel
<1>4. n \in S
  <2> SUFFICES ASSUME n \notin S PROVE FALSE
    OBVIOUS
  <2>1. \A p \in S : p \in Nat /\ p < n
    OBVIOUS
  <2>2. n \in Nat /\ n > 0
    <3>1. PICK p \in S : p \in Nat /\ p < n
      BY <2>1
    <3>2. n \in Nat
      OBVIOUS
    <3> QED
      BY <3>1, <3>2
  <2>3. n - 1 \in U
    BY <2>1, <2>2
  <2> QED
    BY <1>3, <2>2, <2>3
<1> QED
  BY <1>4

\* A non-empty set of naturals has a least element.
LEMMA MinExists ==
  ASSUME NEW S \in SUBSET Nat, S # {}
  PROVE  \E m \in S : \A p \in S : m <= p
<1>1. PICK m \in S : \A y \in S : ~(<<y, m>> \in OpToRel(<, Nat))
  BY WFMin, NatLessThanWellFounded
<1>2. \A y \in S : ~(y < m)
  BY <1>1 DEF OpToRel
<1> QED
  BY <1>2

\* Merging keeps, for every item, one of its key and owner with a cutoff as high.
LEMMA MergeKeepsCutoffs ==
  ASSUME NEW items \in SUBSET Item, NEW i \in items
  PROVE  \E j \in MergeByMax(items) :
            j.key = i.key /\ j.owner = i.owner /\ i.cutoff <= j.cutoff
<1> DEFINE alike == {j \in items : j.at = i.at /\ j.key = i.key /\ j.owner = i.owner}
           S == {j.cutoff : j \in alike}
<1>1. S \in SUBSET Nat /\ S # {} /\ MaxSlot + 1 \in Nat /\ \A c \in S : c <= MaxSlot + 1
  BY CleanupAssumption DEF Item
<1>2. PICK m \in S : \A p \in S : p <= m
  <2> HIDE DEF S
  <2> QED
    BY <1>1, MaxExists
<1>3. PICK j \in alike : j.cutoff = m
  BY <1>2
<1> QED
  BY <1>2, <1>3 DEF MergeByMax

\* Merging invents no item.
LEMMA MergeSelects ==
  ASSUME NEW items
  PROVE  MergeByMax(items) \subseteq items
  BY DEF MergeByMax

----------------------------------------------------------------------------
(* Types                                                                   *)

\* The drainer drains at the oldest queued slot of a full window.
LEMMA WindowHasFirst ==
  ASSUME queue \subseteq Item, Window # {}
  PROVE  (CHOOSE s \in Window : \A t \in Window : s <= t) \in 1..MaxSlot
<1>1. Window \subseteq 1..MaxSlot
  BY CleanupAssumption DEF Window, QueuedSlots, Item
<1>2. Window \in SUBSET Nat
  BY <1>1
<1>3. \E m \in Window : \A p \in Window : m <= p
  BY <1>2, MinExists
<1> QED
  BY <1>1, <1>3

\* The state after startup has the types.
LEMMA InitType == Init => StoreType
<1> SUFFICES ASSUME Init PROVE StoreType
  OBVIOUS
<1> USE CleanupAssumption, StoreAssumption
<1>1. PICK first \in [Keys -> mode.updates \cap (Owners \cup {"none"})] :
        /\ update = [s \in 0..MaxSlot |-> IF s = 0 THEN first ELSE NoUpdate]
        /\ CleanupInit({[key |-> k, owner |-> first[k], slot |-> 0, open |-> TRUE] :
                         k \in {j \in Keys : first[j] \in Owners}})
        /\ owners = [k \in Keys |-> IF mode.map /\ first[k] \in Owners
                                      THEN [owner |-> first[k], slot |-> 0]
                                      ELSE NoEntry]
  BY DEF Init
<1>2. mode \in Modes
  BY DEF Init
<1>3. CleanupTypeOK
  <2>1. snapshot \subseteq Row
    <3> SUFFICES ASSUME NEW r \in snapshot PROVE r \in Row
      OBVIOUS
    <3>1. PICK k \in Keys : /\ first[k] \in Owners
                            /\ r = [key |-> k, owner |-> first[k], slot |-> 0, open |-> TRUE]
      BY <1>1 DEF CleanupInit
    <3> QED
      BY <3>1 DEF Row
  <2>2. highWater \in 0..MaxSlot /\ lastDrain \in -1..MaxSlot
    BY <1>1 DEF CleanupInit
  <2> QED
    BY <1>1, <2>1, <2>2 DEF CleanupInit, CleanupTypeOK
<1>4. update \in [0..MaxSlot -> Blocks]
  BY <1>1, <1>2 DEF Blocks, NoUpdate
<1>5. owners \in [Keys -> Entry] /\ owners \in [Keys -> [owner : Owners \cup {NoOwner}, slot : 0..MaxSlot]]
  BY <1>1 DEF Entry, NoEntry
<1>6. saver \in [Tasks -> Saving]
  BY DEF Init, Saving, Idle, Tasks
<1>7. blocks \in [Slots -> [saved : BOOLEAN, open : SUBSET KeyOwner,
                           closed : SUBSET Keys, pairs : SUBSET KeyOwner]]
  BY DEF Init, NoBlock
<1> QED
  BY <1>2, <1>3, <1>4, <1>5, <1>6, <1>7 DEF StoreType, TypeOK, Init

\* The types of what save_block does in memory.
LEMMA SaveStartType ==
  ASSUME StoreType, NEW t \in Tasks, NEW s \in Slots, NEW block \in [Keys -> AllUpdates],
         SaveStart(t, s, block, AllWork)
  PROVE  /\ owners' \in [Keys -> Entry]
         /\ changed' \subseteq [slot : Slots, key : Keys, owner : Owners]
         /\ blocks' \in [Slots -> [saved : BOOLEAN, open : SUBSET KeyOwner,
                                   closed : SUBSET Keys, pairs : SUBSET KeyOwner]]
         /\ saver' \in [Tasks -> Saving]
<1> DEFINE map == Upsert(block, s)
           closed == ClosedBy(block, s)
           moved == changed \cup ChangedBy(block, s)
           pairs == {[key |-> k, owner |-> map[k].owner] : k \in {c \in closed : map[c] # NoEntry}}
                    \cup {[key |-> c.key, owner |-> c.owner] : c \in {d \in moved : d.slot = s}}
<1>1. owners \in [Keys -> Entry] /\ saver \in [Tasks -> Saving]
      /\ changed \subseteq [slot : Slots, key : Keys, owner : Owners]
  BY DEF StoreType, TypeOK
<1>2. map \in [Keys -> Entry]
  BY <1>1 DEF Upsert, Entry, Slots
<1>3. closed \subseteq Keys /\ OpenBy(block) \subseteq KeyOwner
  BY DEF ClosedBy, OpenBy, KeyOwner
<1>4. moved \subseteq [slot : Slots, key : Keys, owner : Owners]
  BY <1>1 DEF ChangedBy, OwnerMoved, Known, Entry
<1>5. pairs \subseteq KeyOwner
  <2>1. \A k \in Keys : map[k] # NoEntry => map[k].owner \in Owners
    BY <1>2 DEF Entry
  <2> HIDE DEF map, closed, moved
  <2> QED
    BY <1>3, <1>4, <2>1 DEF KeyOwner
<1>6. /\ owners' = map /\ changed' = moved
      /\ blocks' = [blocks EXCEPT ![s] = [saved |-> FALSE, open |-> OpenBy(block),
                                          closed |-> closed,
                                          pairs |-> IF mode.map THEN pairs ELSE {}]]
      /\ saver' = [saver EXCEPT ![t] = [busy |-> TRUE, slot |-> s, open |-> OpenBy(block),
                                        closed |-> closed, todo |-> AllWork]]
  BY DEF SaveStart
<1> HIDE DEF map, closed, moved, pairs
<1>7. blocks' \in [Slots -> [saved : BOOLEAN, open : SUBSET KeyOwner,
                                   closed : SUBSET Keys, pairs : SUBSET KeyOwner]]
  BY <1>3, <1>5, <1>6 DEF StoreType, TypeOK
<1>8. saver' \in [Tasks -> Saving]
  BY <1>1, <1>3, <1>6 DEF Saving, Slots
<1> QED
  BY <1>2, <1>4, <1>6, <1>7, <1>8

\* What the drainer does to the tables and the queue keeps their types.
LEMMA DrainerType ==
  ASSUME StoreType, DrainerStep
  PROVE  CleanupTypeOK' /\ mode' = mode
<1> USE DEF StoreType, TypeOK, CleanupTypeOK
<1>1. CASE DrainerWake
  BY <1>1 DEF DrainerWake
<1>2. CASE DrainerNote
  <2>1. highWater \in -1..MaxSlot
    BY CleanupAssumption
  <2> QED
    BY <1>2, <2>1 DEF DrainerNote
<1>3. CASE DrainerTake
  <2> DEFINE old == {i \in queue : i.at \in Window}
             first == CHOOSE s \in Window : \A t \in Window : s <= t
  <2>1. \A i \in old : [i EXCEPT !.at = first] \in Item
    BY WindowHasFirst DEF Item
  <2>2. taken' \subseteq Item
    BY <1>3, <2>1, MergeSelects DEF DrainerTake
  <2> QED
    BY <1>3, <2>2 DEF DrainerTake
<1>4. CASE DrainSnapshot
  BY <1>4 DEF DrainSnapshot, DeleteBelow
<1>5. CASE DrainAccounts
  BY <1>5 DEF DrainAccounts, DeleteBelow
<1>6. CASE Reinsert
  BY <1>6, MergeSelects DEF Reinsert
<1> QED
  BY <1>1, <1>2, <1>3, <1>4, <1>5, <1>6 DEF DrainerStep

\* The keys a finalized slot queues are well typed.
LEMMA KeysForSlotType ==
  ASSUME StoreType, NEW s \in Slots
  PROVE  KeysForSlot(s) \subseteq Item
<1>1. /\ blocks[s].open \subseteq KeyOwner /\ blocks[s].closed \subseteq Keys
      /\ blocks[s].pairs \subseteq KeyOwner
  BY DEF StoreType, TypeOK
<1>2. s \in 1..MaxSlot /\ s \in 1..(MaxSlot + 1) /\ s + 1 \in 1..(MaxSlot + 1)
  BY CleanupAssumption DEF Slots
<1> QED
  BY <1>1, <1>2 DEF KeysForSlot, Item, KeyOwner

\* The masks of a block, as save_closed_accounts writes them with the owner map.
RoutedMasks(t) ==
  {[key |-> k, owner |-> owners[k].owner, slot |-> saver[t].slot, open |-> FALSE] :
     k \in {c \in saver[t].closed : Known(c)}}
  \cup {[key |-> c.key, owner |-> c.owner, slot |-> saver[t].slot, open |-> FALSE] :
          c \in {d \in changed : d.slot = saver[t].slot}}

\* The rows save_block inserts for a block.
OpenRows(t) ==
  {[key |-> o.key, owner |-> o.owner, slot |-> saver[t].slot, open |-> TRUE] : o \in saver[t].open}

\* Every row of a block is inserted or known to have failed; none fails when no
\* insert does.
LEMMA RowsInserted ==
  ASSUME NEW t, SaveRows(t)
  PROVE  /\ accounts \subseteq accounts' /\ accounts' \subseteq accounts \cup OpenRows(t)
         /\ unsaved \subseteq unsaved' /\ unsaved' \subseteq unsaved \cup OpenRows(t)
         /\ OpenRows(t) \subseteq accounts' \cup unsaved'
         /\ ~mode.rowsFail => accounts' = accounts \cup OpenRows(t) /\ unsaved' = unsaved
<1>1. PICK kept \in IF mode.rowsFail THEN SUBSET saver[t].open ELSE {saver[t].open} :
        /\ accounts' = accounts \cup RowsAt(saver[t].slot, kept)
        /\ unsaved' = unsaved \cup RowsAt(saver[t].slot, saver[t].open \ kept)
  BY DEF SaveRows
<1>2. OpenRows(t) = RowsAt(saver[t].slot, saver[t].open)
  BY DEF OpenRows, RowsAt
<1>3. kept \subseteq saver[t].open /\ (~mode.rowsFail => kept = saver[t].open)
  BY <1>1
<1>4. /\ RowsAt(saver[t].slot, kept) \subseteq OpenRows(t)
      /\ RowsAt(saver[t].slot, saver[t].open \ kept) \subseteq OpenRows(t)
      /\ OpenRows(t) \subseteq RowsAt(saver[t].slot, kept) \cup RowsAt(saver[t].slot, saver[t].open \ kept)
  BY <1>3 DEF OpenRows, RowsAt
<1>5. ~mode.rowsFail => RowsAt(saver[t].slot, saver[t].open \ kept) = {}
  BY <1>3 DEF RowsAt
<1> QED
  BY <1>1, <1>2, <1>3, <1>4, <1>5

\* A mask SaveMasks inserts is a routed one, or one of a closed key.
LEMMA MasksInserted ==
  ASSUME NEW t, SaveMasks(t), NEW r \in accounts', r \notin accounts
  PROVE  \/ mode.map /\ r \in RoutedMasks(t)
         \/ /\ ~mode.map
            /\ \E m \in MaskByScan(saver[t].closed, saver[t].slot) : r \in m
<1>1. PICK masks \in IF mode.map THEN {RoutedMasks(t)}
                      ELSE MaskByScan(saver[t].closed, saver[t].slot) :
        accounts' = accounts \cup masks
  BY DEF SaveMasks, RoutedMasks
<1>2. r \in masks
  BY <1>1
<1> QED
  BY <1>1, <1>2

\* All of them are inserted when the statement does not fail.
LEMMA MasksComplete ==
  ASSUME NEW t, SaveMasks(t), ~mode.maskFails
  PROVE  /\ accounts \subseteq accounts'
         /\ mode.map => RoutedMasks(t) \subseteq accounts'
         /\ ~mode.map => \E m \in MaskByScan(saver[t].closed, saver[t].slot) : m \subseteq accounts'
<1>1. PICK masks \in IF mode.map THEN {RoutedMasks(t)}
                      ELSE MaskByScan(saver[t].closed, saver[t].slot) :
        accounts' = accounts \cup masks
  BY DEF SaveMasks, RoutedMasks
<1> QED
  BY <1>1

\* What a scan masks is closed, at the block's slot.
LEMMA ScannedMask ==
  ASSUME NEW t, NEW m \in MaskByScan(saver[t].closed, saver[t].slot), NEW r \in m
  PROVE  r.key \in saver[t].closed /\ r.owner \in Owners
         /\ r = [key |-> r.key, owner |-> r.owner, slot |-> saver[t].slot, open |-> FALSE]
<1>1. r \in [key : saver[t].closed, owner : Owners, slot : {saver[t].slot}, open : {FALSE}]
  BY DEF MaskByScan
<1> QED
  BY <1>1

\* Rows by their parts.
LEMMA RowType ==
  ASSUME NEW k \in Keys, NEW o \in Owners, NEW s \in 0..MaxSlot, NEW b \in BOOLEAN
  PROVE  [key |-> k, owner |-> o, slot |-> s, open |-> b] \in Row
  BY DEF Row

\* The masks of a block are rows.
LEMMA MasksAreRows ==
  ASSUME StoreType, NEW t \in Tasks, SaveMasks(t)
  PROVE  accounts' \subseteq Row
<1> SUFFICES ASSUME NEW r \in accounts', r \notin accounts PROVE r \in Row
  BY DEF StoreType, TypeOK, CleanupTypeOK
<1>1. /\ saver[t].slot \in 0..MaxSlot /\ saver[t].closed \subseteq Keys
      /\ \A k \in Keys : Known(k) => owners[k].owner \in Owners
      /\ changed \subseteq [slot : Slots, key : Keys, owner : Owners]
  BY DEF StoreType, TypeOK, Saving, Entry, Known
<1>2. CASE r \in RoutedMasks(t)
  <2>1. PICK k \in Keys, o \in Owners :
          r = [key |-> k, owner |-> o, slot |-> saver[t].slot, open |-> FALSE]
    BY <1>1, <1>2 DEF RoutedMasks
  <2> QED
    BY <1>1, <2>1, RowType
<1>3. CASE \E m \in MaskByScan(saver[t].closed, saver[t].slot) : r \in m
  <2>1. PICK m \in MaskByScan(saver[t].closed, saver[t].slot) : r \in m
    BY <1>3
  <2>2. r.key \in saver[t].closed /\ r.owner \in Owners
        /\ r = [key |-> r.key, owner |-> r.owner, slot |-> saver[t].slot, open |-> FALSE]
    BY <2>1, ScannedMask
  <2> QED
    BY <1>1, <2>2, RowType
<1> QED
  BY <1>2, <1>3, MasksInserted

\* So are the open rows.
LEMMA OpenRowsAreRows ==
  ASSUME StoreType, NEW t \in Tasks
  PROVE  OpenRows(t) \subseteq Row
<1>1. saver[t].slot \in 0..MaxSlot /\ saver[t].open \subseteq KeyOwner
  BY DEF StoreType, Saving
<1> SUFFICES ASSUME NEW r \in OpenRows(t) PROVE r \in Row
  OBVIOUS
<1>2. PICK o \in saver[t].open :
        r = [key |-> o.key, owner |-> o.owner, slot |-> saver[t].slot, open |-> TRUE]
  BY DEF OpenRows
<1>3. o.key \in Keys /\ o.owner \in Owners
  BY <1>1, <1>2 DEF KeyOwner
<1> QED
  BY <1>1, <1>2, <1>3, RowType

\* Every step keeps the types: rows come from a block's writes and its routed or
\* scanned masks, items from a recorded block.
LEMMA NextType == StoreType /\ [Next]_vars => StoreType'
<1> SUFFICES ASSUME StoreType, [Next]_vars PROVE StoreType'
  OBVIOUS
<1> USE CleanupAssumption
<1> USE DEF StoreType, TypeOK
<1>0. /\ \A m \in Modes : m.slots <= MaxSlot /\ m.slots \in Nat
      /\ Blocks \subseteq [Keys -> AllUpdates]
  BY StoreAssumption DEF Blocks
<1>1. ASSUME NEW b \in Blocks, LiveBlock(b) PROVE StoreType'
  <2>1. head' \in Slots /\ head' \in 0..MaxSlot
    BY <1>1, <1>0 DEF LiveBlock, Slots
  <2>2. b \in [Keys -> AllUpdates] /\ "main" \in Tasks
    BY <1>0 DEF Tasks
  <2>3. SaveStart("main", head', b, AllWork)
    BY <1>1 DEF LiveBlock
  <2>4. update' \in [0..MaxSlot -> Blocks']
    BY <1>1, <2>1 DEF LiveBlock, Blocks
  <2>5. /\ owners' \in [Keys -> Entry]
        /\ changed' \subseteq [slot : Slots, key : Keys, owner : Owners]
        /\ blocks' \in [Slots -> [saved : BOOLEAN, open : SUBSET KeyOwner,
                                  closed : SUBSET Keys, pairs : SUBSET KeyOwner]]
        /\ saver' \in [Tasks -> Saving]
    <3> HIDE DEF StoreType
    <3> QED
      BY <2>1, <2>2, <2>3, SaveStartType
  <2> QED
    BY <1>1, <2>1, <2>4, <2>5 DEF LiveBlock, CleanupTypeOK, Entry, NoEntry
<1>2. ASSUME NEW b \in Blocks, LostBlock(b) PROVE StoreType'
  <2>1. head' \in Slots /\ head' \in 0..MaxSlot
    BY <1>2, <1>0 DEF LostBlock, Slots
  <2>2. update' \in [0..MaxSlot -> Blocks']
    BY <1>2, <2>1 DEF LostBlock, Blocks
  <2> QED
    BY <1>2, <2>1, <2>2 DEF LostBlock, CleanupTypeOK
<1>3. ASSUME NEW g \in Slots, RepairBlock(g) PROVE StoreType'
  <2>1. PICK b \in InSnapshot(g) : SaveStart("fill", g, b, AllWork)
    BY <1>3 DEF RepairBlock
  <2>2. b \in [Keys -> AllUpdates] /\ "fill" \in Tasks
    BY <2>1, <1>0 DEF Tasks, InSnapshot, Blocks
  <2>5. /\ owners' \in [Keys -> Entry]
        /\ changed' \subseteq [slot : Slots, key : Keys, owner : Owners]
        /\ blocks' \in [Slots -> [saved : BOOLEAN, open : SUBSET KeyOwner,
                                  closed : SUBSET Keys, pairs : SUBSET KeyOwner]]
        /\ saver' \in [Tasks -> Saving]
    <3> HIDE DEF StoreType
    <3> QED
      BY <2>1, <2>2, SaveStartType
  <2> QED
    BY <1>3, <2>5 DEF RepairBlock, CleanupTypeOK, Entry, NoEntry, Blocks
<1>4. ASSUME NEW g \in Slots, GapSlotEmpty(g) PROVE StoreType'
  BY <1>4 DEF GapSlotEmpty, CleanupTypeOK, Blocks
<1>5. ASSUME NEW t \in Tasks, SaveMasks(t) PROVE StoreType'
  <2>1. saver' \in [Tasks -> Saving]
    BY <1>5 DEF SaveMasks, Saving
  <2>2. owners' \in [Keys -> Entry]
    BY <1>5 DEF SaveMasks, Entry
  <2>3. accounts' \subseteq Row
    BY <1>5, MasksAreRows
  <2>4. changed' \subseteq [slot : Slots, key : Keys, owner : Owners]
    BY <1>5 DEF SaveMasks
  <2> QED
    BY <1>5, <2>1, <2>2, <2>3, <2>4 DEF SaveMasks, CleanupTypeOK, Entry, NoEntry, Blocks
<1>6. ASSUME NEW t \in Tasks, SaveRows(t) PROVE StoreType'
  <2>1. saver' \in [Tasks -> Saving]
    BY <1>6 DEF SaveRows, Saving
  <2>2. accounts' \subseteq Row /\ unsaved' \subseteq Row
    BY <1>6, OpenRowsAreRows, RowsInserted DEF CleanupTypeOK
  <2> QED
    BY <1>6, <2>1, <2>2 DEF SaveRows, CleanupTypeOK, Blocks
<1>7. ASSUME NEW t \in Tasks, SaveConfirm(t) PROVE StoreType'
  <2>1. saver' \in [Tasks -> Saving]
    BY <1>7 DEF SaveConfirm, Saving, Idle
  <2>2. confirmed' \in 0..MaxSlot
    BY <1>7 DEF SaveConfirm, Saving
  <2>3. blocks' \in [Slots -> [saved : BOOLEAN, open : SUBSET KeyOwner,
                                  closed : SUBSET Keys, pairs : SUBSET KeyOwner]]
    BY <1>7 DEF SaveConfirm
  <2> QED
    BY <1>7, <2>1, <2>2, <2>3 DEF SaveConfirm, CleanupTypeOK, Blocks
<1>8. ASSUME NEW s \in Slots, FinalizeSlot(s) PROVE StoreType'
  <2>1. queue' \subseteq Item
    BY <1>8, KeysForSlotType, MergeSelects DEF FinalizeSlot, Enqueue, CleanupTypeOK
  <2>2. highWater' \in 0..MaxSlot /\ finalTip' \in 0..MaxSlot
    BY <1>8 DEF FinalizeSlot, Enqueue, CleanupTypeOK, Slots
  <2>3. sinceDrain' \in Nat
    BY <1>8 DEF FinalizeSlot, Enqueue, CleanupTypeOK
  <2>4. blocks' \in [Slots -> [saved : BOOLEAN, open : SUBSET KeyOwner,
                                  closed : SUBSET Keys, pairs : SUBSET KeyOwner]]
    BY <1>8 DEF FinalizeSlot, NoBlock
  <2>5. wake' \in BOOLEAN
    BY <1>8 DEF FinalizeSlot, Enqueue, CleanupTypeOK, ShouldDrain
  <2> QED
    BY <1>8, <2>1, <2>2, <2>3, <2>4, <2>5 DEF FinalizeSlot, Enqueue, CleanupTypeOK, Blocks
<1>9. CASE ApiLearns
  BY <1>9 DEF ApiLearns, CleanupTypeOK, Blocks
<1>10. CASE DrainStep
  BY <1>10, DrainerType DEF DrainStep, Blocks
<1>11. CASE UNCHANGED vars
  BY <1>11 DEF CleanupTypeOK, Blocks
<1> QED
  BY <1>1, <1>2, <1>3, <1>4, <1>5, <1>6, <1>7, <1>8, <1>9, <1>10, <1>11 DEF Next, Tasks

\* Types hold for all keys, programs, slots and deployments.
THEOREM StoreTypeCorrect == Spec => []TypeOK
<1>1. StoreType => TypeOK
  BY DEF StoreType
<1> QED
  BY <1>1, InitType, NextType, PTL DEF Spec

----------------------------------------------------------------------------
(* The order of slots                                                      *)

\* A task is saving a block.
Busy(t) == saver[t].busy

\* A slot is received or missed, then saved, then finalized.
SlotOrder ==
  /\ lastSlot <= head
  /\ \A s \in missed : s <= head /\ s # lastSlot
  /\ \A s \in Slots : s > head => update[s] = NoUpdate
  /\ finalTip <= confirmed /\ confirmed <= lastSlot
  /\ \A s \in Slots : blocks[s].saved => s <= confirmed /\ s \notin missed
  /\ \A t \in Tasks : Busy(t) \/ saver[t] = Idle
  /\ Busy("main") => saver["main"].slot = lastSlot /\ lastSlot # 0
  /\ Busy("fill") => saver["fill"].slot \in Gaps
  /\ \A t \in Tasks : Busy(t) => ~blocks[saver[t].slot].saved

\* Nothing is left to do for a slot up to the finalized one.
FinalizedDone ==
  /\ \A s \in missed : s > finalTip
  /\ \A s \in Slots : s <= finalTip => blocks[s] = NoBlock
  /\ \A t \in Tasks : Busy(t) => saver[t].slot > finalTip

\* Without losses the slots are saved one after the other.
NothingMissed ==
  ~mode.lossy =>
    /\ missed = {} /\ lastSlot = head
    /\ confirmed = IF Busy("main") THEN head - 1 ELSE head
    /\ \A s \in (finalTip + 1)..confirmed : blocks[s].saved

\* Together.
SlotInv == SlotOrder /\ FinalizedDone /\ NothingMissed

\* The pairs a block routes its cleanup by: closed keys the map knows, moved keys.
PairsBy(block, s) ==
  {[key |-> k, owner |-> Upsert(block, s)[k].owner] :
     k \in {c \in ClosedBy(block, s) : Upsert(block, s)[c] # NoEntry}}
  \cup {[key |-> c.key, owner |-> c.owner] :
          c \in {d \in changed \cup ChangedBy(block, s) : d.slot = s}}

\* What save_block does in memory, as the invariants need it.
LEMMA SaveStarted ==
  ASSUME StoreType, NEW t \in Tasks, NEW s \in Slots, NEW block,
         SaveStart(t, s, block, AllWork)
  PROVE  /\ ~Busy(t) /\ saver'[t].busy /\ saver'[t].slot = s
         /\ saver'[t].open = OpenBy(block) /\ saver'[t].closed = ClosedBy(block, s)
         /\ saver'[t].todo = AllWork
         /\ \A u \in Tasks : u # t => saver'[u] = saver[u]
         /\ blocks'[s].open = OpenBy(block) /\ blocks'[s].closed = ClosedBy(block, s)
         /\ blocks'[s].pairs = IF mode.map THEN PairsBy(block, s) ELSE {}
         /\ ~blocks'[s].saved
         /\ \A u \in Slots : u # s => blocks'[u] = blocks[u]
         /\ owners' = Upsert(block, s) /\ changed' = changed \cup ChangedBy(block, s)
  BY DEF SaveStart, StoreType, TypeOK, Busy, PairsBy

\* A block takes the next slot within the bound.
LEMMA LiveSlot ==
  ASSUME StoreType, head < mode.slots
  PROVE  head \in Nat /\ head + 1 \in Slots
<1>1. head \in Nat /\ mode.slots \in Nat /\ mode.slots <= MaxSlot /\ MaxSlot \in Nat
  BY CleanupAssumption, StoreAssumption DEF StoreType, TypeOK
<1> QED
  BY <1>1 DEF Slots

\* At the start no slot is received, missed or saved.
LEMMA SlotInit == Init => SlotInv
<1> SUFFICES ASSUME Init PROVE SlotInv
  OBVIOUS
<1>1. SlotOrder
  BY DEF Init, SlotOrder, Slots, Busy, Idle, NoBlock, Tasks
<1>2. FinalizedDone
  BY DEF Init, FinalizedDone, Slots, Busy, Idle, Tasks
<1>3. NothingMissed
  BY DEF Init, NothingMissed, Busy, Idle
<1> QED
  BY <1>1, <1>2, <1>3 DEF SlotInv

\* A task that inserts is in save_block, and stays there.
LEMMA WritingTask ==
  ASSUME StoreType, SlotOrder, NEW t \in Tasks, SaveMasks(t) \/ SaveRows(t)
  PROVE  /\ saver[t].busy
         /\ \A u \in Tasks : /\ saver'[u].busy = saver[u].busy
                             /\ saver'[u].slot = saver[u].slot
                             /\ saver'[u].open = saver[u].open
                             /\ saver'[u].closed = saver[u].closed
                             /\ u # t => saver'[u] = saver[u]
<1>1. saver \in [Tasks -> Saving]
  BY DEF StoreType
<1>2. saver[t] # Idle
  BY DEF SaveMasks, SaveRows, Idle
<1>3. saver[t].busy
  BY <1>2 DEF SlotOrder, Busy
<1>4. PICK todo : saver' = [saver EXCEPT ![t].todo = todo]
  BY <1>1 DEF SaveMasks, SaveRows
<1> QED
  BY <1>1, <1>3, <1>4 DEF Saving

\* Every step keeps the order of slots: the main loop saves the last received one,
\* the gap filler only what is still in a gap (self_healing.rs, main.rs).
LEMMA SlotOrderStep == StoreType /\ SlotOrder /\ [Next]_vars => SlotOrder'
<1> SUFFICES ASSUME StoreType, SlotOrder, [Next]_vars PROVE SlotOrder'
  OBVIOUS
<1> USE DEF SlotOrder, Slots
<1>0. /\ head \in 0..MaxSlot /\ lastSlot \in 0..MaxSlot /\ confirmed \in 0..MaxSlot
      /\ finalTip \in 0..MaxSlot /\ missed \subseteq Slots /\ missed \subseteq Nat
      /\ MaxSlot \in Nat /\ Tasks = {"main", "fill"}
      /\ blocks \in [Slots -> [saved : BOOLEAN, open : SUBSET KeyOwner,
                               closed : SUBSET Keys, pairs : SUBSET KeyOwner]]
      /\ saver \in [Tasks -> Saving]
      /\ \A m \in Modes : m.slots <= MaxSlot /\ m.slots \in Nat
      /\ update \in [0..MaxSlot -> Blocks]
      /\ mode \in Modes
  BY CleanupAssumption, StoreAssumption DEF StoreType, TypeOK, Slots, Tasks
<1>n. /\ head \in Nat /\ lastSlot \in Nat /\ confirmed \in Nat /\ finalTip \in Nat
      /\ missed \subseteq Nat /\ missed \subseteq Slots
  BY <1>0
<1>a. \A u \in Tasks : Busy(u) => saver[u].slot \in Slots /\ saver[u].slot <= lastSlot
  <2>1. /\ Busy("main") => saver["main"].slot = lastSlot /\ lastSlot # 0
        /\ Busy("fill") => saver["fill"].slot \in missed /\ saver["fill"].slot < lastSlot
    BY DEF Gaps
  <2> HIDE DEF SlotOrder
  <2>2. Busy("main") => saver["main"].slot \in Slots /\ saver["main"].slot <= lastSlot
    BY <1>0, <2>1
  <2>3. Busy("fill") => saver["fill"].slot \in Slots /\ saver["fill"].slot \in Nat
    BY <1>n, <2>1
  <2>4. Busy("fill") => saver["fill"].slot <= lastSlot
    BY <1>n, <2>1, <2>3
  <2> QED
    BY <1>0, <2>2, <2>3, <2>4 DEF Busy
<1>1. ASSUME NEW b \in Blocks, LiveBlock(b) PROVE SlotOrder'
  <2>1. /\ head' = head + 1 /\ head' \in Slots /\ lastSlot' = head' /\ missed' = missed
        /\ finalTip' = finalTip /\ confirmed' = confirmed /\ "main" \in Tasks
        /\ update' = [update EXCEPT ![head'] = b]
        /\ SaveStart("main", head', b, AllWork)
    BY <1>0, <1>1 DEF LiveBlock
  <2>2. /\ saver'["main"].busy /\ saver'["main"].slot = head' /\ saver'["fill"] = saver["fill"]
        /\ ~blocks'[head'].saved /\ \A u \in Slots : u # head' => blocks'[u] = blocks[u]
    BY <1>0, <2>1, SaveStarted
  <2>3. ASSUME NEW s \in Slots, s > head' PROVE update'[s] = NoUpdate
    <3>1. s \in 1..MaxSlot /\ s # head' /\ s > head
      BY <1>0, <2>1, <2>3
    <3>2. update'[s] = update[s]
      BY <1>0, <2>1, <3>1
    <3> QED
      BY <3>1, <3>2
  <2>6. Busy("fill")' => saver'["fill"].slot \in Gaps'
    <3> SUFFICES ASSUME Busy("fill")' PROVE saver'["fill"].slot \in Gaps'
      OBVIOUS
    <3>1. saver["fill"].slot \in missed /\ saver["fill"].slot < lastSlot
      BY <2>2 DEF Busy, Gaps
    <3>2. saver["fill"].slot \in missed' /\ saver["fill"].slot < lastSlot'
      <4>1. saver["fill"].slot \in Nat /\ lastSlot \in Nat /\ head \in Nat /\ lastSlot <= head
        BY <1>a, <1>n, <3>1
      <4> HIDE DEF SlotOrder
      <4> QED
        BY <2>1, <3>1, <4>1
    <3> QED
      BY <2>2, <3>2 DEF Gaps
  <2>4. \A s \in Slots : blocks'[s].saved => s <= confirmed' /\ s \notin missed'
    BY <1>0, <2>1, <2>2
  <2>5. \A t \in Tasks : Busy(t)' => ~blocks'[saver'[t].slot].saved
    <3>1. ~blocks'[saver'["main"].slot].saved
      BY <2>2
    <3>2. ASSUME Busy("fill")' PROVE ~blocks'[saver'["fill"].slot].saved
      <4>1. Busy("fill") /\ saver["fill"].slot \in Gaps
        BY <2>2, <3>2 DEF Busy
      <4>2. saver["fill"].slot \in Slots /\ saver["fill"].slot < lastSlot
        BY <1>0, <4>1 DEF Gaps
      <4>3. saver["fill"].slot # head'
        BY <1>0, <2>1, <4>2
      <4> QED
        BY <1>0, <2>2, <4>1, <4>2, <4>3
    <3> QED
      BY <1>0, <3>1, <3>2
  <2> QED
    BY <1>0, <2>1, <2>2, <2>3, <2>4, <2>5, <2>6 DEF Busy, NoUpdate
<1>2. ASSUME NEW b \in Blocks, LostBlock(b) PROVE SlotOrder'
  BY <1>0, <1>2 DEF LostBlock, Busy, Gaps, NoUpdate
<1>3. ASSUME NEW g \in Slots, RepairBlock(g) PROVE SlotOrder'
  <2>1. PICK b \in InSnapshot(g) : SaveStart("fill", g, b, AllWork)
    BY <1>3 DEF RepairBlock
  <2>2. /\ saver'["fill"].busy /\ saver'["fill"].slot = g /\ saver'["main"] = saver["main"]
        /\ ~blocks'[g].saved /\ \A u \in Slots : u # g => blocks'[u] = blocks[u]
    BY <1>0, <2>1, SaveStarted
  <2>3. g \in Gaps /\ UNCHANGED <<mode, head, lastSlot, missed, update, finalTip, confirmed>>
    BY <1>3 DEF RepairBlock
  <2>4. saver'["fill"].slot \in Gaps' /\ Busy("main")' = Busy("main") /\ Busy("fill")'
    BY <2>2, <2>3 DEF Busy, Gaps
  <2>5. \A u \in Slots : blocks'[u].saved => blocks[u].saved
    BY <1>0, <2>2, <2>3
  <2>6. \A t \in Tasks : Busy(t)' => ~blocks'[saver'[t].slot].saved
    BY <1>0, <1>a, <2>2, <2>4, <2>5 DEF Busy
  <2>7. \A t \in Tasks : Busy(t)' \/ saver'[t] = Idle
    BY <1>0, <2>2, <2>4 DEF Busy
  <2> QED
    BY <1>0, <2>2, <2>3, <2>4, <2>5, <2>6, <2>7
<1>4. ASSUME NEW g \in Slots, GapSlotEmpty(g) PROVE SlotOrder'
  BY <1>0, <1>4 DEF GapSlotEmpty, Busy, Gaps, NoUpdate
<1>5. ASSUME NEW t \in Tasks, SaveMasks(t) PROVE SlotOrder'
  <2>1. /\ \A u \in Tasks : saver'[u].busy = saver[u].busy /\ saver'[u].slot = saver[u].slot
        /\ saver[t].busy /\ \A u \in Tasks : u # t => saver'[u] = saver[u]
    BY <1>5, WritingTask
  <2>2. UNCHANGED <<mode, head, lastSlot, missed, update, finalTip, confirmed, blocks>>
    BY <1>5 DEF SaveMasks
  <2> QED
    BY <1>0, <2>1, <2>2 DEF Busy, Gaps, NoUpdate
<1>6. ASSUME NEW t \in Tasks, SaveRows(t) PROVE SlotOrder'
  <2>1. /\ \A u \in Tasks : saver'[u].busy = saver[u].busy /\ saver'[u].slot = saver[u].slot
        /\ saver[t].busy /\ \A u \in Tasks : u # t => saver'[u] = saver[u]
    BY <1>6, WritingTask
  <2>2. UNCHANGED <<mode, head, lastSlot, missed, update, finalTip, confirmed, blocks>>
    BY <1>6 DEF SaveRows
  <2> QED
    BY <1>0, <2>1, <2>2 DEF Busy, Gaps, NoUpdate
<1>7. ASSUME NEW t \in Tasks, SaveConfirm(t) PROVE SlotOrder'
  <2>1. /\ saver[t].busy /\ saver[t].slot \in Slots /\ saver[t].slot <= lastSlot
    BY <1>0, <1>7 DEF SaveConfirm, Busy, Gaps
  <2>2. /\ saver'[t] = Idle /\ \A u \in Tasks : u # t => saver'[u] = saver[u]
        /\ missed' = missed \ {saver[t].slot}
        /\ head' = head /\ lastSlot' = lastSlot /\ update' = update /\ finalTip' = finalTip
    BY <1>0, <1>7 DEF SaveConfirm
  <2>3. /\ confirmed' \in 0..MaxSlot /\ confirmed <= confirmed' /\ saver[t].slot <= confirmed'
        /\ confirmed' <= lastSlot
    BY <1>0, <1>7, <2>1 DEF SaveConfirm
  <2>4. \A u \in Slots : blocks'[u].saved => blocks[u].saved \/ u = saver[t].slot
    BY <1>0, <1>7 DEF SaveConfirm
  <2>5. \A u \in Slots : blocks'[u].saved => u <= confirmed' /\ u \notin missed'
    BY <1>0, <2>1, <2>2, <2>3, <2>4
  <2>6. \A u \in Tasks : Busy(u)' => u # t /\ saver'[u] = saver[u] /\ Busy(u)
                                   /\ saver[u].slot # saver[t].slot
    <3>1. \A u \in Tasks : Busy(u)' => u # t /\ saver'[u] = saver[u] /\ Busy(u)
      BY <2>2 DEF Busy, Idle
    <3>2. Busy("main") /\ Busy("fill") => saver["main"].slot # saver["fill"].slot
      BY <1>0 DEF Gaps
    <3> QED
      BY <1>0, <2>1, <3>1, <3>2 DEF Busy
  <2>7. \A u \in Tasks : Busy(u)' => ~blocks'[saver'[u].slot].saved
    BY <1>a, <2>4, <2>6 DEF Busy
  <2>8. Busy("fill")' => saver'["fill"].slot \in Gaps'
    BY <1>0, <2>2, <2>6 DEF Busy, Gaps
  <2>9. /\ \A u \in Tasks : Busy(u)' \/ saver'[u] = Idle
        /\ Busy("main")' => saver'["main"].slot = lastSlot' /\ lastSlot' # 0
    BY <1>0, <2>2, <2>6 DEF Busy
  <2>10. /\ finalTip' <= confirmed' /\ confirmed' <= lastSlot' /\ lastSlot' <= head'
         /\ \A s \in missed' : s <= head' /\ s # lastSlot'
    BY <1>0, <2>2, <2>3
  <2> QED
    BY <1>0, <2>2, <2>5, <2>7, <2>8, <2>9, <2>10 DEF NoUpdate
<1>8. ASSUME NEW s \in Slots, FinalizeSlot(s) PROVE SlotOrder'
  BY <1>0, <1>8 DEF FinalizeSlot, Busy, Gaps, NoUpdate, NoBlock
<1>9. CASE ApiLearns
  BY <1>9 DEF ApiLearns, Busy, Gaps, NoUpdate
<1>10. CASE DrainStep
  BY <1>10, DrainerType DEF DrainStep, Busy, Gaps, NoUpdate
<1>11. CASE UNCHANGED vars
  BY <1>11 DEF Busy, Gaps, NoUpdate
<1> QED
  BY <1>1, <1>2, <1>3, <1>4, <1>5, <1>6, <1>7, <1>8, <1>9, <1>10, <1>11 DEF Next, Tasks

\* The slot of a block that is being saved.
LEMMA BusySlots ==
  ASSUME StoreType, SlotOrder, NEW t \in Tasks, Busy(t)
  PROVE  /\ saver[t].slot \in Slots /\ saver[t].slot \in Nat /\ saver[t].slot <= lastSlot
         /\ t = "main" => saver[t].slot = lastSlot
         /\ t = "fill" => saver[t].slot \in missed /\ saver[t].slot < lastSlot
<1>1. lastSlot \in 0..MaxSlot /\ missed \subseteq Slots /\ MaxSlot \in Nat /\ Slots \subseteq Nat
  BY CleanupAssumption DEF StoreType, TypeOK, Slots
<1>2. CASE t = "main"
  <2>1. saver[t].slot = lastSlot /\ lastSlot # 0
    BY <1>2 DEF SlotOrder, Busy
  <2> QED
    BY <1>1, <1>2, <2>1 DEF Slots
<1>3. CASE t = "fill"
  <2>1. saver[t].slot \in missed /\ saver[t].slot < lastSlot
    BY <1>3 DEF SlotOrder, Busy, Gaps
  <2>2. saver[t].slot \in Slots
    BY <1>1, <2>1
  <2>3. saver[t].slot \in Nat
    BY <1>1, <2>2
  <2>4. saver[t].slot <= lastSlot
    BY <1>1, <2>1, <2>3
  <2> QED
    BY <1>3, <2>1, <2>2, <2>3, <2>4
<1> QED
  BY <1>2, <1>3 DEF Tasks

\* A slot is finalized once no gap is open and no earlier block is recorded, so
\* nothing of a finalized slot is left to save.
LEMMA FinalizedDoneStep ==
  StoreType /\ SlotOrder /\ FinalizedDone /\ [Next]_vars => FinalizedDone'
<1> SUFFICES ASSUME StoreType, SlotOrder, FinalizedDone, [Next]_vars PROVE FinalizedDone'
  OBVIOUS
<1>0. /\ head \in Nat /\ lastSlot \in Nat /\ finalTip \in Nat /\ confirmed \in Nat
      /\ missed \subseteq Slots /\ Slots \subseteq Nat /\ Tasks = {"main", "fill"}
      /\ finalTip <= lastSlot /\ lastSlot <= head
      /\ blocks \in [Slots -> [saved : BOOLEAN, open : SUBSET KeyOwner,
                               closed : SUBSET Keys, pairs : SUBSET KeyOwner]]
      /\ saver \in [Tasks -> Saving]
  BY CleanupAssumption DEF StoreType, TypeOK, Slots, Tasks, SlotOrder
<1>1. /\ \A s \in missed : s > finalTip
      /\ \A s \in Slots : s <= finalTip => blocks[s] = NoBlock
      /\ \A t \in Tasks : saver[t].busy => saver[t].slot > finalTip
  BY DEF FinalizedDone, Busy
<1> DEFINE Done == /\ \A s \in missed' : s > finalTip'
                   /\ \A s \in Slots : s <= finalTip' => blocks'[s] = NoBlock
                   /\ \A t \in Tasks : saver'[t].busy => saver'[t].slot > finalTip'
<1>2. SUFFICES Done
  BY DEF FinalizedDone, Busy
<1>3. ASSUME NEW b \in Blocks, LiveBlock(b) PROVE Done
  <2>1. /\ head' = head + 1 /\ head' \in Slots /\ missed' = missed /\ finalTip' = finalTip
        /\ SaveStart("main", head', b, AllWork)
    BY <1>0, <1>3, LiveSlot DEF LiveBlock
  <2>2. /\ saver'["main"].slot = head' /\ saver'["fill"] = saver["fill"]
        /\ \A u \in Slots : u # head' => blocks'[u] = blocks[u]
    BY <1>0, <2>1, SaveStarted
  <2>3. \A s \in Slots : s <= finalTip' => s # head'
    BY <1>0, <2>1
  <2> QED
    BY <1>0, <1>1, <2>1, <2>2, <2>3
<1>4. ASSUME NEW b \in Blocks, LostBlock(b) PROVE Done
  BY <1>0, <1>1, <1>4 DEF LostBlock
<1>5. ASSUME NEW g \in Slots, RepairBlock(g) PROVE Done
  <2>1. PICK b \in InSnapshot(g) : SaveStart("fill", g, b, AllWork)
    BY <1>5 DEF RepairBlock
  <2>2. /\ saver'["fill"].slot = g /\ saver'["main"] = saver["main"]
        /\ \A u \in Slots : u # g => blocks'[u] = blocks[u]
    BY <1>0, <2>1, SaveStarted
  <2>3. g > finalTip /\ UNCHANGED <<missed, finalTip>>
    BY <1>1, <1>5 DEF RepairBlock, Gaps
  <2>4. \A s \in Slots : s <= finalTip => s # g
    BY <1>0, <2>3
  <2> QED
    BY <1>0, <1>1, <2>2, <2>3, <2>4
<1>6. ASSUME NEW g \in Slots, GapSlotEmpty(g) PROVE Done
  BY <1>0, <1>1, <1>6 DEF GapSlotEmpty
<1>7. ASSUME NEW t \in Tasks, SaveMasks(t) \/ SaveRows(t) PROVE Done
  <2>1. \A u \in Tasks : saver'[u].busy = saver[u].busy /\ saver'[u].slot = saver[u].slot
    BY <1>7, WritingTask
  <2>2. UNCHANGED <<missed, finalTip, blocks>>
    BY <1>7 DEF SaveMasks, SaveRows
  <2> QED
    BY <1>1, <2>1, <2>2
<1>8. ASSUME NEW t \in Tasks, SaveConfirm(t) PROVE Done
  <2>1. saver[t].slot > finalTip /\ saver[t].slot \in Slots
    BY <1>1, <1>8, BusySlots DEF SaveConfirm, Busy
  <2>2. \A u \in Slots : u # saver[t].slot => blocks'[u] = blocks[u]
    BY <1>0, <1>8 DEF SaveConfirm
  <2>3. \A u \in Slots : u <= finalTip => u # saver[t].slot
    BY <1>0, <2>1
  <2>4. UNCHANGED finalTip /\ missed' \subseteq missed
    BY <1>8 DEF SaveConfirm
  <2>5. \A u \in Tasks : saver'[u].busy => saver'[u] = saver[u]
    BY <1>0, <1>8 DEF SaveConfirm, Idle
  <2> QED
    BY <1>0, <1>1, <2>2, <2>3, <2>4, <2>5
<1>9. ASSUME NEW s \in Slots, FinalizeSlot(s) PROVE Done
  <2>1. /\ blocks[s].saved /\ Gaps = {} /\ \A r \in Slots : r < s => blocks[r] = NoBlock
        /\ missed' = missed /\ saver' = saver
        /\ blocks' = [blocks EXCEPT ![s] = NoBlock]
        /\ finalTip' = IF s > finalTip THEN s ELSE finalTip
    BY <1>9 DEF FinalizeSlot
  <2>2. s \in Nat /\ s > finalTip /\ finalTip' = s
    BY <1>0, <1>1, <2>1 DEF NoBlock
  <2>3. s <= confirmed /\ confirmed <= lastSlot
    BY <2>1 DEF SlotOrder
  <2>4. ASSUME NEW m \in missed PROVE m > s
    <3>1. m \in Nat /\ m # lastSlot /\ ~(m < lastSlot)
      BY <1>0, <2>1 DEF Gaps, SlotOrder
    <3> QED
      BY <1>0, <2>2, <2>3, <3>1
  <2>5. ASSUME NEW t \in Tasks, saver[t].busy PROVE saver[t].slot > s
    <3>1. saver[t].slot \in Slots /\ saver[t].slot \in Nat /\ t # "fill" /\ saver[t].slot # s
      BY <2>1, <2>5, BusySlots DEF SlotOrder, Busy, Gaps
    <3>2. saver[t].slot = lastSlot
      BY <1>0, <2>5, <3>1 DEF SlotOrder, Busy
    <3> QED
      BY <1>0, <2>2, <2>3, <3>1, <3>2
  <2>6. ASSUME NEW u \in Slots, u <= s PROVE blocks'[u] = NoBlock
    BY <1>0, <2>1, <2>2, <2>6
  <2> QED
    BY <2>1, <2>2, <2>4, <2>5, <2>6
<1>10. CASE ApiLearns \/ UNCHANGED vars
  BY <1>1, <1>10 DEF ApiLearns
<1>11. CASE DrainStep
  BY <1>1, <1>11 DEF DrainStep
<1> QED
  BY <1>3, <1>4, <1>5, <1>6, <1>7, <1>8, <1>9, <1>10, <1>11 DEF Next, Tasks

\* The deployment never changes.
LEMMA NextMode == StoreType /\ [Next]_vars => mode' = mode
  BY DrainerType DEF StoreType, Next, LiveBlock, LostBlock, RepairBlock, GapSlotEmpty, SaveMasks,
     SaveRows, SaveConfirm, FinalizeSlot, ApiLearns, DrainStep

\* Without losses a block is saved before the next one is received.
LEMMA NothingMissedStep ==
  StoreType /\ SlotInv /\ [Next]_vars => NothingMissed'
<1> SUFFICES ASSUME StoreType, SlotInv, [Next]_vars, ~mode'.lossy PROVE NothingMissed'
  BY DEF NothingMissed
<1>m. mode' = mode /\ mode \in Modes
  BY NextMode DEF StoreType
<1>0. /\ head \in Nat /\ finalTip \in Nat /\ confirmed \in Nat /\ MaxSlot \in Nat
      /\ head <= MaxSlot
      /\ Slots \subseteq Nat /\ Tasks = {"main", "fill"}
      /\ blocks \in [Slots -> [saved : BOOLEAN, open : SUBSET KeyOwner,
                               closed : SUBSET Keys, pairs : SUBSET KeyOwner]]
      /\ saver \in [Tasks -> Saving]
  BY CleanupAssumption DEF StoreType, TypeOK, Slots, Tasks
<1>1. /\ missed = {} /\ lastSlot = head
      /\ confirmed = IF saver["main"].busy THEN head - 1 ELSE head
      /\ \A s \in (finalTip + 1)..confirmed : blocks[s].saved
      /\ SlotOrder
  BY <1>m DEF SlotInv, NothingMissed, Busy
<1>2. /\ ~saver["fill"].busy
      /\ saver["main"].busy => saver["main"].slot = head /\ head # 0
      /\ finalTip <= confirmed /\ confirmed <= head
      /\ Gaps = {}
  BY <1>1 DEF SlotOrder, Busy, Gaps
<1> DEFINE Done == /\ missed' = {} /\ lastSlot' = head'
                   /\ confirmed' = IF saver'["main"].busy THEN head' - 1 ELSE head'
                   /\ \A s \in (finalTip' + 1)..confirmed' : blocks'[s].saved
<1>3. SUFFICES Done
  BY DEF NothingMissed, Busy
<1>4. ASSUME NEW b \in Blocks, LiveBlock(b) PROVE Done
  <2>1. /\ head' = head + 1 /\ head' \in Slots /\ UNCHANGED <<missed, finalTip, confirmed>>
        /\ lastSlot' = head' /\ SaveStart("main", head', b, AllWork)
    BY <1>0, <1>4, LiveSlot DEF LiveBlock
  <2>2. /\ saver'["main"].busy /\ ~saver["main"].busy
        /\ \A u \in Slots : u # head' => blocks'[u] = blocks[u]
    BY <1>0, <2>1, SaveStarted DEF Busy
  <2>3. \A s \in (finalTip + 1)..confirmed : s \in Slots /\ s # head'
    BY <1>0, <1>2, <2>1 DEF Slots
  <2> QED
    BY <1>0, <1>1, <2>1, <2>2, <2>3
<1>5. ASSUME NEW b \in Blocks, LostBlock(b) PROVE Done
  BY <1>m, <1>5 DEF LostBlock
<1>6. ASSUME NEW g \in Slots, RepairBlock(g) \/ GapSlotEmpty(g) PROVE Done
  BY <1>2, <1>6 DEF RepairBlock, GapSlotEmpty
<1>7. ASSUME NEW t \in Tasks, SaveMasks(t) \/ SaveRows(t) PROVE Done
  <2>1. saver'["main"].busy = saver["main"].busy
    BY <1>0, <1>1, <1>7, WritingTask
  <2>2. UNCHANGED <<head, lastSlot, missed, finalTip, confirmed, blocks>>
    BY <1>7 DEF SaveMasks, SaveRows
  <2> QED
    BY <1>1, <2>1, <2>2
<1>8. ASSUME NEW t \in Tasks, SaveConfirm(t) PROVE Done
  <2>1. t = "main" /\ saver[t].busy /\ saver[t].slot = head /\ confirmed = head - 1 /\ head \in Slots
    BY <1>0, <1>1, <1>2, <1>8, BusySlots DEF SaveConfirm, Busy
  <2>2. /\ confirmed' = head /\ UNCHANGED <<head, lastSlot, finalTip>> /\ missed' = {}
        /\ blocks' = [blocks EXCEPT ![head].saved = TRUE] /\ saver'[t] = Idle
    BY <1>0, <1>1, <1>8, <2>1 DEF SaveConfirm
  <2>3. \A s \in (finalTip + 1)..head : s \in Slots /\ (s = head \/ s \in (finalTip + 1)..confirmed)
    BY <1>0, <1>2, <2>1 DEF Slots
  <2>4. \A s \in (finalTip + 1)..head : blocks'[s].saved
    BY <1>0, <1>1, <2>2, <2>3
  <2> QED
    BY <1>1, <2>1, <2>2, <2>4 DEF Idle
<1>9. ASSUME NEW s \in Slots, FinalizeSlot(s) PROVE Done
  <2>1. /\ blocks[s].saved
        /\ UNCHANGED <<head, lastSlot, missed, confirmed, saver>>
        /\ blocks' = [blocks EXCEPT ![s] = NoBlock]
        /\ finalTip' = IF s > finalTip THEN s ELSE finalTip
    BY <1>9 DEF FinalizeSlot
  <2>2. \A u \in (finalTip' + 1)..confirmed : u \in Slots /\ u # s /\ u \in (finalTip + 1)..confirmed
    BY <1>0, <1>2, <2>1 DEF Slots
  <2> QED
    BY <1>0, <1>1, <2>1, <2>2
<1>10. CASE ApiLearns \/ UNCHANGED vars
  BY <1>1, <1>10 DEF ApiLearns
<1>11. CASE DrainStep
  BY <1>1, <1>11 DEF DrainStep
<1> QED
  BY <1>4, <1>5, <1>6, <1>7, <1>8, <1>9, <1>10, <1>11 DEF Next, Tasks

\* The three parts together are inductive.
LEMMA SlotInvStep == StoreType /\ SlotInv /\ [Next]_vars => SlotInv'
  BY SlotOrderStep, FinalizedDoneStep, NothingMissedStep DEF SlotInv

----------------------------------------------------------------------------
(* What is stored follows the chain                                        *)

\* Updates after which no indexed program has the key.
Gone == {"closed", "other"}

\* The block of a slot updated the key.
Touched(k, s) == update[s][k] # "none"

\* What a task is saving, and has recorded for cleanup, is what the chain did.
SaverFollowsChain ==
  \A t \in Tasks : Busy(t) =>
    /\ \A o \in saver[t].open : update[saver[t].slot][o.key] = o.owner
    /\ \A k \in saver[t].closed : update[saver[t].slot][k] \in Gone
    /\ blocks[saver[t].slot].open = saver[t].open
    /\ blocks[saver[t].slot].closed = saver[t].closed

\* What is recorded of a block, pairs included, is what the chain did in its slot.
BlocksFollowChain ==
  \A s \in Slots :
    /\ \A o \in blocks[s].open : update[s][o.key] = o.owner
    /\ \A k \in blocks[s].closed : update[s][k] \in Gone
    /\ \A p \in blocks[s].pairs : update[s][p.key] \notin {"none", p.owner}

\* A changed owner is one the chain took the key from.
ChangedFollowsChain ==
  \A c \in changed : c.slot <= head /\ update[c.slot][c.key] \notin {"none", c.owner}

\* An open row is a write of the chain, a mask an end of the key under the owner.
RowFollowsChain(r) ==
  /\ r.slot <= head
  /\ r.open => update[r.slot][r.key] = r.owner
  /\ ~r.open => r.slot # 0 /\ update[r.slot][r.key] \notin {"none", r.owner}

\* All rows do.
RowsFollowChain == \A r \in accounts \cup snapshot : RowFollowsChain(r)

\* An item stems from a finalized touch of its key, and spares the row of that
\* touch unless the touch ended the key under the item's owner.
ItemFollowsChain(i) ==
  \E s \in 1..finalTip :
    /\ Touched(i.key, s)
    /\ i.cutoff \in {s, s + 1}
    /\ i.cutoff = s + 1 => IF i.owner = NoOwner THEN update[s][i.key] \in Gone
                                              ELSE update[s][i.key] # i.owner

\* All items do, queued or taken.
ItemsFollowChain == \A i \in queue \cup taken : ItemFollowsChain(i)

\* Together.
HistoryInv ==
  /\ SaverFollowsChain /\ BlocksFollowChain /\ ChangedFollowsChain
  /\ RowsFollowChain /\ ItemsFollowChain

\* The chain only grows, and so does the finalized slot.
LEMMA ChainGrows ==
  ASSUME StoreType, SlotOrder, [Next]_vars
  PROVE  /\ head' \in Nat /\ head <= head' /\ finalTip' \in Nat /\ finalTip <= finalTip'
         /\ \A s \in 0..head : update'[s] = update[s]
         /\ mode' = mode
<1>0. /\ head \in Nat /\ finalTip \in Nat /\ MaxSlot \in Nat /\ head <= MaxSlot
      /\ update \in [0..MaxSlot -> Blocks]
  BY CleanupAssumption DEF StoreType, TypeOK
<1>1. ASSUME NEW b \in Blocks, LiveBlock(b) \/ LostBlock(b)
      PROVE  head' = head + 1 /\ update' = [update EXCEPT ![head'] = b] /\ finalTip' = finalTip
  BY <1>1 DEF LiveBlock, LostBlock
<1>2. ASSUME NEW b \in Blocks, LiveBlock(b) \/ LostBlock(b) PROVE \A s \in 0..head : update'[s] = update[s]
  BY <1>0, <1>1, <1>2
<1>3. CASE \A b \in Blocks : ~(LiveBlock(b) \/ LostBlock(b))
  <2>1. head' = head /\ update' = update
    BY <1>3 DEF Next, RepairBlock, GapSlotEmpty, SaveMasks, SaveRows, SaveConfirm, FinalizeSlot,
                ApiLearns, DrainStep
  <2>2. finalTip' \in Nat /\ finalTip <= finalTip'
    <3>1. ASSUME NEW s \in Slots, FinalizeSlot(s) PROVE finalTip' \in Nat /\ finalTip <= finalTip'
      BY <1>0, <3>1 DEF FinalizeSlot, Slots
    <3>2. CASE \A s \in Slots : ~FinalizeSlot(s)
      BY <1>0, <1>3, <3>2 DEF Next, RepairBlock, GapSlotEmpty, SaveMasks, SaveRows, SaveConfirm,
                              ApiLearns, DrainStep
    <3> QED
      BY <3>1, <3>2
  <2> QED
    BY <1>0, <2>1, <2>2, NextMode
<1> QED
  BY <1>0, <1>1, <1>2, <1>3, NextMode

\* The drainer only deletes rows, and keeps key, owner and cutoff of what it moves.
LEMMA DrainShrinks ==
  ASSUME StoreType, DrainerStep
  PROVE  /\ accounts' \subseteq accounts /\ snapshot' \subseteq snapshot
         /\ \A i \in queue' \cup taken' : \E j \in queue \cup taken :
              j.key = i.key /\ j.owner = i.owner /\ j.cutoff = i.cutoff
<1> USE DEF StoreType, TypeOK, CleanupTypeOK
<1>1. CASE DrainerWake \/ DrainerNote
  BY <1>1 DEF DrainerWake, DrainerNote
<1>2. CASE DrainerTake
  <2> DEFINE old == {i \in queue : i.at \in Window}
             first == CHOOSE s \in Window : \A t \in Window : s <= t
  <2>1. taken' \subseteq {[i EXCEPT !.at = first] : i \in old} /\ queue' \subseteq queue
    BY <1>2, MergeSelects DEF DrainerTake
  <2>2. ASSUME NEW i \in old
        PROVE  /\ i \in queue /\ [i EXCEPT !.at = first].key = i.key
               /\ [i EXCEPT !.at = first].owner = i.owner
               /\ [i EXCEPT !.at = first].cutoff = i.cutoff
    BY DEF Item
  <2>3. UNCHANGED <<accounts, snapshot>>
    BY <1>2 DEF DrainerTake
  <2>4. ASSUME NEW i \in taken'
        PROVE  \E j \in queue : j.key = i.key /\ j.owner = i.owner /\ j.cutoff = i.cutoff
    <3>1. PICK j \in old : i = [j EXCEPT !.at = first]
      BY <2>1
    <3> HIDE DEF old, first
    <3> QED
      BY <2>2, <3>1
  <2> QED
    BY <2>1, <2>3, <2>4
<1>3. CASE DrainSnapshot
  BY <1>3 DEF DrainSnapshot, DeleteBelow
<1>4. CASE DrainAccounts
  BY <1>4 DEF DrainAccounts, DeleteBelow
<1>5. CASE Reinsert
  BY <1>5, MergeSelects DEF Reinsert
<1> QED
  BY <1>1, <1>2, <1>3, <1>4, <1>5 DEF DrainerStep

\* A block follows the chain at a slot: it holds the chain's update or none.
BlockFollows(block, s) == \A k \in Keys : block[k] \in {"none", update'[s][k]}

\* What is recorded of a block that follows the chain does so.
LEMMA RecordedFollows ==
  ASSUME StoreType, NEW t \in Tasks, NEW s \in Slots, NEW block \in [Keys -> AllUpdates],
         SaveStart(t, s, block, AllWork), BlockFollows(block, s),
         \A c \in changed : update'[c.slot][c.key] \notin {"none", c.owner}
  PROVE  /\ \A o \in OpenBy(block) : update'[s][o.key] = o.owner
         /\ \A k \in ClosedBy(block, s) : update'[s][k] \in Gone
         /\ \A c \in ChangedBy(block, s) : c.slot = s /\ update'[s][c.key] \notin {"none", c.owner}
         /\ \A p \in PairsBy(block, s) : update'[s][p.key] \notin {"none", p.owner}
<1>0. /\ Owners \cap {"none", "other", "closed"} = {}
      /\ owners \in [Keys -> Entry]
  BY StoreAssumption DEF StoreType
<1>1. \A o \in OpenBy(block) : update'[s][o.key] = o.owner
  BY <1>0 DEF OpenBy, BlockFollows
<1>2. \A k \in ClosedBy(block, s) : k \in Keys /\ update'[s][k] \in Gone
  BY DEF ClosedBy, BlockFollows, Gone
<1>3. \A c \in ChangedBy(block, s) : c.slot = s /\ update'[s][c.key] \notin {"none", c.owner}
  BY <1>0 DEF ChangedBy, OwnerMoved, BlockFollows
<1>4. ASSUME NEW p \in PairsBy(block, s) PROVE update'[s][p.key] \notin {"none", p.owner}
  <2>1. CASE \E k \in ClosedBy(block, s) : /\ Upsert(block, s)[k] # NoEntry
                                           /\ p = [key |-> k, owner |-> Upsert(block, s)[k].owner]
    <3>1. PICK k \in ClosedBy(block, s) : /\ Upsert(block, s)[k] # NoEntry
                                         /\ p = [key |-> k, owner |-> Upsert(block, s)[k].owner]
      BY <2>1
    <3>2. Upsert(block, s)[k] \in Entry
      BY <1>0, <1>2 DEF Upsert, Entry, Slots
    <3>3. p.owner \in Owners /\ p.key = k
      BY <3>1, <3>2 DEF Entry
    <3> QED
      BY <1>0, <1>2, <3>3 DEF Gone
  <2>2. CASE \E c \in changed \cup ChangedBy(block, s) :
               c.slot = s /\ p = [key |-> c.key, owner |-> c.owner]
    BY <1>3, <2>2
  <2> QED
    BY <2>1, <2>2 DEF PairsBy
<1> QED
  BY <1>1, <1>2, <1>3, <1>4

\* A live block is the chain's block.
LEMMA LiveFollows ==
  ASSUME StoreType, NEW b \in Blocks, LiveBlock(b)
  PROVE  /\ head \in Nat /\ head' = head + 1 /\ head' \in Slots /\ b \in [Keys -> AllUpdates]
         /\ update'[head'] = b /\ BlockFollows(b, head')
         /\ SaveStart("main", head', b, AllWork)
<1>1. /\ head \in Nat /\ head' = head + 1 /\ head' \in Slots
      /\ SaveStart("main", head', b, AllWork) /\ update' = [update EXCEPT ![head'] = b]
  BY LiveSlot DEF LiveBlock
<1>2. update \in [0..MaxSlot -> Blocks] /\ head' \in 0..MaxSlot
  BY <1>1 DEF StoreType, TypeOK, Slots
<1>3. b \in [Keys -> AllUpdates]
  BY StoreAssumption DEF StoreType, Blocks
<1> QED
  BY <1>1, <1>2, <1>3 DEF BlockFollows

\* A repaired block holds what the snapshot kept of the chain's block.
LEMMA RepairFollows ==
  ASSUME StoreType, NEW g \in Slots, RepairBlock(g)
  PROVE  \E b \in [Keys -> AllUpdates] :
           b \in InSnapshot(g) /\ BlockFollows(b, g) /\ SaveStart("fill", g, b, AllWork)
<1>1. PICK b \in InSnapshot(g) : SaveStart("fill", g, b, AllWork)
  BY DEF RepairBlock
<1>2. b \in [Keys -> AllUpdates]
  BY <1>1, StoreAssumption DEF StoreType, InSnapshot
<1>3. update' = update
  BY DEF RepairBlock
<1>4. BlockFollows(b, g)
  BY <1>1, <1>3 DEF BlockFollows, InSnapshot
<1> QED
  BY <1>1, <1>2, <1>4

\* A block holds every update of the chain's block that is not superseded yet,
\* the writes under programs that are not indexed apart.
BlockHolds(block, s) ==
  \A k \in Keys :
    update'[s][k] # "other" /\ (\A v \in (s + 1)..head' : update'[v][k] = "none") =>
      block[k] = update'[s][k]

\* A step starts to save a block that follows the chain, or only takes away from
\* what is being saved and recorded.
Starts ==
  \E t \in Tasks, s \in Slots, b \in [Keys -> AllUpdates] :
    /\ SaveStart(t, s, b, AllWork) /\ BlockFollows(b, s) /\ BlockHolds(b, s)
    /\ s <= head' /\ (s = head' \/ s \in missed)
    /\ \A u \in Tasks : Busy(u) => saver[u].slot # s

\* A step that starts no save.
Continues ==
  /\ \A u \in Tasks : saver'[u].busy =>
       /\ saver[u].busy /\ saver'[u].slot = saver[u].slot
       /\ saver'[u].open = saver[u].open /\ saver'[u].closed = saver[u].closed
       /\ blocks'[saver[u].slot] = blocks[saver[u].slot]
  /\ \A s \in Slots : \/ blocks'[s] = NoBlock /\ s <= finalTip'
                      \/ /\ blocks'[s].open = blocks[s].open
                         /\ blocks'[s].closed = blocks[s].closed
                         /\ blocks'[s].pairs = blocks[s].pairs
  /\ changed' \subseteq changed

\* Every step starts to save one block, or only takes away.
LEMMA StartsOrContinues ==
  ASSUME StoreType, SlotOrder, [Next]_vars
  PROVE  Starts \/ Continues
<1>0. /\ head \in Nat /\ lastSlot \in Nat /\ lastSlot <= head
      /\ Tasks = {"main", "fill"} /\ Slots \subseteq Nat
      /\ \A s \in missed : s \in Nat /\ s <= head
      /\ blocks \in [Slots -> [saved : BOOLEAN, open : SUBSET KeyOwner,
                               closed : SUBSET Keys, pairs : SUBSET KeyOwner]]
      /\ saver \in [Tasks -> Saving]
  BY CleanupAssumption DEF StoreType, TypeOK, Slots, Tasks, SlotOrder
<1>1. ASSUME NEW b \in Blocks, LiveBlock(b) PROVE Starts
  <2>1. /\ head' = head + 1 /\ head' \in Slots /\ b \in [Keys -> AllUpdates]
        /\ BlockFollows(b, head') /\ SaveStart("main", head', b, AllWork)
    BY <1>1, LiveFollows
  <2>2. ASSUME NEW u \in Tasks, Busy(u) PROVE saver[u].slot # head'
    <3>1. saver[u].slot \in Nat /\ saver[u].slot <= lastSlot
      BY <2>2, BusySlots
    <3> QED
      BY <1>0, <2>1, <3>1
  <2>3. head' <= head' /\ BlockHolds(b, head')
    BY <1>0, <1>1, <2>1, LiveFollows DEF BlockHolds
  <2> QED
    BY <1>0, <2>1, <2>2, <2>3 DEF Starts
<1>2. ASSUME NEW g \in Slots, RepairBlock(g) PROVE Starts
  <2>1. PICK b \in [Keys -> AllUpdates] :
          b \in InSnapshot(g) /\ BlockFollows(b, g) /\ SaveStart("fill", g, b, AllWork)
    BY <1>2, RepairFollows
  <2>2. g \in missed /\ g < lastSlot /\ head' = head /\ update' = update
    BY <1>2 DEF RepairBlock, Gaps
  <2>4. BlockHolds(b, g)
    BY <2>1, <2>2 DEF BlockHolds, InSnapshot
  <2>3. ASSUME NEW u \in Tasks, Busy(u) PROVE saver[u].slot # g
    <3>1. u # "fill"
      BY <1>0, <2>1, <2>3, SaveStarted DEF Busy
    <3>2. saver[u].slot = lastSlot
      BY <1>0, <2>3, <3>1, BusySlots
    <3> QED
      BY <1>0, <2>2, <3>2
  <2> QED
    BY <1>0, <2>1, <2>2, <2>3, <2>4 DEF Starts
<1>3. ASSUME NEW b \in Blocks, LostBlock(b) PROVE Continues
  BY <1>3 DEF LostBlock, Continues
<1>4. ASSUME NEW g \in Slots, GapSlotEmpty(g) PROVE Continues
  BY <1>4 DEF GapSlotEmpty, Continues
<1>5. ASSUME NEW t \in Tasks, SaveMasks(t) \/ SaveRows(t) PROVE Continues
  <2>1. blocks' = blocks /\ changed' \subseteq changed
    BY <1>5 DEF SaveMasks, SaveRows
  <2> QED
    BY <1>5, <2>1, WritingTask DEF Continues
<1>6. ASSUME NEW t \in Tasks, SaveConfirm(t) PROVE Continues
  <2>1. /\ changed' = changed /\ saver' = [saver EXCEPT ![t] = Idle] /\ Busy(t)
        /\ blocks' = [blocks EXCEPT ![saver[t].slot].saved = TRUE]
    BY <1>6 DEF SaveConfirm, Busy
  <2>2. ASSUME NEW u \in Tasks, saver'[u].busy
        PROVE  u # t /\ saver'[u] = saver[u] /\ saver[u].slot # saver[t].slot
    <3>1. u # t /\ saver'[u] = saver[u] /\ Busy(u)
      BY <1>0, <2>1, <2>2 DEF Idle, Busy
    <3> QED
      BY <1>0, <2>1, <3>1, BusySlots
  <2>3. \A s \in Slots : s # saver[t].slot => blocks'[s] = blocks[s]
    BY <1>0, <2>1
  <2>4. \A s \in Slots : /\ blocks'[s].open = blocks[s].open
                         /\ blocks'[s].closed = blocks[s].closed
                         /\ blocks'[s].pairs = blocks[s].pairs
    BY <1>0, <2>1
  <2>5. \A u \in Tasks : saver[u].busy => saver[u].slot \in Slots
    BY BusySlots DEF Busy
  <2> QED
    BY <2>1, <2>2, <2>3, <2>4, <2>5 DEF Continues
<1>7. ASSUME NEW s \in Slots, FinalizeSlot(s) PROVE Continues
  <2>1. /\ UNCHANGED <<changed, saver>> /\ blocks[s].saved /\ blocks' = [blocks EXCEPT ![s] = NoBlock]
    BY <1>7 DEF FinalizeSlot
  <2>3. s <= finalTip'
    <3>1. s \in Nat /\ finalTip \in Nat
      BY <1>0 DEF StoreType, TypeOK
    <3> QED
      BY <1>7, <3>1 DEF FinalizeSlot
  <2>2. \A u \in Tasks : saver[u].busy => saver[u].slot \in Slots /\ saver[u].slot # s
    BY <2>1, BusySlots DEF Busy, SlotOrder
  <2> QED
    BY <1>0, <2>1, <2>2, <2>3 DEF Continues
<1>8. CASE ApiLearns \/ DrainStep \/ UNCHANGED vars
  BY <1>8 DEF ApiLearns, DrainStep, Continues
<1> QED
  BY <1>1, <1>2, <1>3, <1>4, <1>5, <1>6, <1>7, <1>8 DEF Next, Tasks

\* Facts of the types that the steps below share.
LEMMA StoreFacts ==
  ASSUME StoreType
  PROVE  /\ Tasks = {"main", "fill"} /\ Slots \subseteq Nat /\ MaxSlot \in Nat
         /\ head \in Nat /\ head <= MaxSlot /\ lastSlot \in Nat /\ finalTip \in Nat
         /\ confirmed \in Nat /\ missed \subseteq Slots
         /\ blocks \in [Slots -> [saved : BOOLEAN, open : SUBSET KeyOwner,
                                  closed : SUBSET Keys, pairs : SUBSET KeyOwner]]
         /\ saver \in [Tasks -> Saving] /\ owners \in [Keys -> Entry]
         /\ changed \subseteq [slot : Slots, key : Keys, owner : Owners]
         /\ update \in [0..MaxSlot -> [Keys -> AllUpdates]]
         /\ accounts \subseteq Row /\ snapshot \subseteq Row
         /\ queue \subseteq Item /\ taken \subseteq Item
  BY CleanupAssumption, StoreAssumption DEF StoreType, TypeOK, CleanupTypeOK, Slots, Tasks, Blocks

\* Where the chain has no slot yet, nothing is touched.
LEMMA SavedIsOld ==
  ASSUME StoreType, SlotOrder, NEW t \in Tasks, Busy(t)
  PROVE  /\ saver[t].slot \in Slots /\ saver[t].slot \in Nat /\ saver[t].slot <= head
         /\ saver[t].slot \in 0..head
<1>1. saver[t].slot \in Slots /\ saver[t].slot \in Nat /\ saver[t].slot <= lastSlot
  BY BusySlots
<1>2. lastSlot <= head /\ lastSlot \in Nat /\ head \in Nat
  BY StoreFacts DEF SlotOrder
<1> QED
  BY <1>1, <1>2

\* The snapshot's rows are the chain's first versions.
LEMMA HistoryInit == Init => HistoryInv
<1> SUFFICES ASSUME Init PROVE HistoryInv
  OBVIOUS
<1>1. PICK first \in [Keys -> mode.updates \cap (Owners \cup {"none"})] :
        /\ update = [s \in 0..MaxSlot |-> IF s = 0 THEN first ELSE NoUpdate]
        /\ CleanupInit({[key |-> k, owner |-> first[k], slot |-> 0, open |-> TRUE] :
                         k \in {j \in Keys : first[j] \in Owners}})
  BY DEF Init
<1>2. SaverFollowsChain /\ BlocksFollowChain /\ ChangedFollowsChain
  BY DEF Init, SaverFollowsChain, BlocksFollowChain, ChangedFollowsChain, Busy, Idle, NoBlock, Tasks
<1>3. RowsFollowChain
  <2> SUFFICES ASSUME NEW r \in accounts \cup snapshot PROVE RowFollowsChain(r)
    BY DEF RowsFollowChain
  <2>1. PICK k \in Keys : r = [key |-> k, owner |-> first[k], slot |-> 0, open |-> TRUE]
    BY <1>1 DEF CleanupInit
  <2>2. head = 0 /\ update[0] = first
    BY <1>1, CleanupAssumption DEF Init
  <2> QED
    BY <2>1, <2>2 DEF RowFollowsChain
<1>4. ItemsFollowChain
  BY <1>1 DEF CleanupInit, ItemsFollowChain
<1> QED
  BY <1>2, <1>3, <1>4 DEF HistoryInv

\* What save_block still has to write stays what the chain did.
LEMMA SaverFollowsStep ==
  ASSUME StoreType, SlotOrder, HistoryInv, [Next]_vars
  PROVE  SaverFollowsChain'
<1>0. \A s \in 0..head : update'[s] = update[s]
  BY ChainGrows
<1>c. \A c \in changed : update'[c.slot][c.key] \notin {"none", c.owner}
  <2>1. \A c \in changed : c.slot \in 0..head
    BY StoreFacts DEF HistoryInv, ChangedFollowsChain
  <2> QED
    BY <1>0, <2>1 DEF HistoryInv, ChangedFollowsChain
<1>1. ASSUME NEW u \in Tasks, Busy(u)
      PROVE  /\ \A o \in saver[u].open : update'[saver[u].slot][o.key] = o.owner
             /\ \A k \in saver[u].closed : update'[saver[u].slot][k] \in Gone
             /\ blocks[saver[u].slot].open = saver[u].open
             /\ blocks[saver[u].slot].closed = saver[u].closed
  BY <1>0, <1>1, SavedIsOld DEF HistoryInv, SaverFollowsChain
<1> SUFFICES ASSUME NEW u \in Tasks, saver'[u].busy
             PROVE  /\ \A o \in saver'[u].open : update'[saver'[u].slot][o.key] = o.owner
                    /\ \A k \in saver'[u].closed : update'[saver'[u].slot][k] \in Gone
                    /\ blocks'[saver'[u].slot].open = saver'[u].open
                    /\ blocks'[saver'[u].slot].closed = saver'[u].closed
  BY DEF SaverFollowsChain, Busy
<1>2. CASE Starts
  <2>1. PICK t \in Tasks, s \in Slots, b \in [Keys -> AllUpdates] :
          /\ SaveStart(t, s, b, AllWork) /\ BlockFollows(b, s)
          /\ \A v \in Tasks : Busy(v) => saver[v].slot # s
    BY <1>2 DEF Starts
  <2>2. /\ saver'[t].slot = s /\ saver'[t].open = OpenBy(b) /\ saver'[t].closed = ClosedBy(b, s)
        /\ \A v \in Tasks : v # t => saver'[v] = saver[v]
        /\ blocks'[s].open = OpenBy(b) /\ blocks'[s].closed = ClosedBy(b, s)
        /\ \A v \in Slots : v # s => blocks'[v] = blocks[v]
    BY <2>1, SaveStarted
  <2>3. CASE u = t
    BY <1>c, <2>1, <2>2, <2>3, RecordedFollows
  <2>4. CASE u # t
    <3>1. Busy(u) /\ saver'[u] = saver[u]
      BY <2>2, <2>4 DEF Busy
    <3>2. saver[u].slot \in Slots /\ saver[u].slot # s
      BY <2>1, <3>1, SavedIsOld
    <3> QED
      BY <1>1, <2>2, <3>1, <3>2
  <2> QED
    BY <2>3, <2>4
<1>3. CASE Continues
  <2>1. Busy(u) /\ saver'[u].slot = saver[u].slot
        /\ saver'[u].open = saver[u].open /\ saver'[u].closed = saver[u].closed
        /\ blocks'[saver[u].slot] = blocks[saver[u].slot]
    BY <1>3 DEF Continues, Busy
  <2> QED
    BY <1>1, <2>1
<1> QED
  BY <1>2, <1>3, StartsOrContinues

\* record_block captures what the chain did, and the owner map's changes are moves.
LEMMA RecordsFollowStep ==
  ASSUME StoreType, SlotOrder, HistoryInv, [Next]_vars
  PROVE  BlocksFollowChain' /\ ChangedFollowsChain'
<1>0. /\ head \in Nat /\ head' \in Nat /\ head <= head' /\ \A s \in 0..head : update'[s] = update[s]
  BY ChainGrows, StoreFacts
<1>c. \A c \in changed : c.slot <= head' /\ update'[c.slot][c.key] \notin {"none", c.owner}
  <2>1. \A c \in changed : c.slot \in Nat /\ c.slot <= head
    BY StoreFacts DEF HistoryInv, ChangedFollowsChain
  <2>2. \A c \in changed : c.slot \in 0..head /\ c.slot <= head'
    BY <1>0, <2>1
  <2> QED
    BY <1>0, <2>2 DEF HistoryInv, ChangedFollowsChain
<1> DEFINE BlockOk(b, s) == /\ \A o \in b.open : update'[s][o.key] = o.owner
                            /\ \A k \in b.closed : update'[s][k] \in Gone
                            /\ \A p \in b.pairs : update'[s][p.key] \notin {"none", p.owner}
<1>1. \A s \in Slots : BlockOk(blocks[s], s)
  <2> SUFFICES ASSUME NEW s \in Slots PROVE BlockOk(blocks[s], s)
    OBVIOUS
  <2>1. /\ s \in Nat /\ blocks[s].open \subseteq KeyOwner /\ blocks[s].closed \subseteq Keys
        /\ blocks[s].pairs \subseteq KeyOwner
    BY StoreFacts
  <2>2. /\ \A o \in blocks[s].open : update[s][o.key] = o.owner
        /\ \A k \in blocks[s].closed : update[s][k] \in Gone
        /\ \A p \in blocks[s].pairs : update[s][p.key] \notin {"none", p.owner}
    BY DEF HistoryInv, BlocksFollowChain
  <2>3. CASE s <= head
    BY <1>0, <2>1, <2>2, <2>3
  <2>4. CASE s > head
    <3>1. \A k \in Keys : update[s][k] = "none"
      BY <2>4 DEF SlotOrder, NoUpdate
    <3>2. blocks[s].open = {}
      <4>1. \A o \in KeyOwner : o.key \in Keys /\ o.owner \in Owners
        BY DEF KeyOwner
      <4>2. "none" \notin Owners
        BY StoreAssumption
      <4> QED
        BY <2>1, <2>2, <3>1, <4>1, <4>2
    <3>3. blocks[s].closed = {}
      BY <2>1, <2>2, <3>1 DEF Gone
    <3>4. blocks[s].pairs = {}
      <4>1. \A o \in KeyOwner : o.key \in Keys
        BY DEF KeyOwner
      <4> QED
        BY <2>1, <2>2, <3>1, <4>1
    <3> QED
      BY <3>2, <3>3, <3>4
  <2> QED
    BY <1>0, <2>1, <2>3, <2>4
<1> SUFFICES /\ \A s \in Slots : BlockOk(blocks'[s], s)
             /\ \A c \in changed' : c.slot <= head' /\ update'[c.slot][c.key] \notin {"none", c.owner}
  BY DEF BlocksFollowChain, ChangedFollowsChain
<1> HIDE DEF BlockOk
<1>2. CASE Starts
  <2>1. PICK t \in Tasks, s \in Slots, b \in [Keys -> AllUpdates] :
          SaveStart(t, s, b, AllWork) /\ BlockFollows(b, s) /\ s <= head'
    BY <1>2 DEF Starts
  <2>2. /\ blocks'[s].open = OpenBy(b) /\ blocks'[s].closed = ClosedBy(b, s)
        /\ blocks'[s].pairs = IF mode.map THEN PairsBy(b, s) ELSE {}
        /\ \A v \in Slots : v # s => blocks'[v] = blocks[v]
        /\ changed' = changed \cup ChangedBy(b, s)
    BY <2>1, SaveStarted
  <2>3. /\ \A o \in OpenBy(b) : update'[s][o.key] = o.owner
        /\ \A k \in ClosedBy(b, s) : update'[s][k] \in Gone
        /\ \A c \in ChangedBy(b, s) : c.slot = s /\ update'[s][c.key] \notin {"none", c.owner}
        /\ \A p \in PairsBy(b, s) : update'[s][p.key] \notin {"none", p.owner}
    BY <1>c, <2>1, RecordedFollows
  <2>4. BlockOk(blocks'[s], s)
    BY <2>2, <2>3 DEF BlockOk
  <2> QED
    BY <1>1, <1>c, <2>1, <2>2, <2>3, <2>4
<1>3. CASE Continues
  <2>1. ASSUME NEW s \in Slots PROVE BlockOk(blocks'[s], s)
    <3>1. CASE blocks'[s] = NoBlock
      BY <3>1 DEF BlockOk, NoBlock
    <3>2. CASE /\ blocks'[s].open = blocks[s].open /\ blocks'[s].closed = blocks[s].closed
               /\ blocks'[s].pairs = blocks[s].pairs
      BY <1>1, <3>2 DEF BlockOk
    <3> QED
      BY <1>3, <3>1, <3>2 DEF Continues
  <2> QED
    BY <1>c, <1>3, <2>1 DEF Continues
<1> QED
  BY <1>2, <1>3, StartsOrContinues

\* Where rows come from: the rows and the masks of a block.
LEMMA RowsWritten ==
  ASSUME StoreType, SlotOrder, [Next]_vars,
         NEW r \in (accounts \cup snapshot)', r \notin accounts \cup snapshot
  PROVE  \E t \in Tasks :
           /\ Busy(t) /\ r.slot = saver[t].slot
           /\ \/ SaveRows(t) /\ r \in OpenRows(t)
              \/ SaveMasks(t) /\ mode.map /\ r \in RoutedMasks(t)
              \/ /\ SaveMasks(t) /\ ~mode.map
                 /\ \E m \in MaskByScan(saver[t].closed, saver[t].slot) : r \in m
<1>1. ASSUME NEW t \in Tasks, SaveMasks(t)
      PROVE  /\ Busy(t) /\ r.slot = saver[t].slot
             /\ \/ mode.map /\ r \in RoutedMasks(t)
                \/ /\ ~mode.map
                   /\ \E m \in MaskByScan(saver[t].closed, saver[t].slot) : r \in m
  <2>1. r \in accounts' /\ r \notin accounts
    BY <1>1 DEF SaveMasks
  <2>2. \/ mode.map /\ r \in RoutedMasks(t)
        \/ /\ ~mode.map
           /\ \E m \in MaskByScan(saver[t].closed, saver[t].slot) : r \in m
    BY <1>1, <2>1, MasksInserted
  <2>3. r \in RoutedMasks(t) => r.slot = saver[t].slot
    BY DEF RoutedMasks
  <2>4. \A m \in MaskByScan(saver[t].closed, saver[t].slot) : r \in m => r.slot = saver[t].slot
    BY DEF MaskByScan
  <2> QED
    BY <1>1, <2>2, <2>3, <2>4, WritingTask DEF Busy
<1>2. ASSUME NEW t \in Tasks, SaveRows(t)
      PROVE  Busy(t) /\ r.slot = saver[t].slot /\ r \in OpenRows(t)
  <2>1. r \in OpenRows(t)
    BY <1>2, RowsInserted DEF SaveRows
  <2>2. r.slot = saver[t].slot
    BY <2>1 DEF OpenRows
  <2> QED
    BY <1>2, <2>1, <2>2, WritingTask DEF Busy
<1>3. CASE DrainStep
  BY <1>3, DrainShrinks DEF DrainStep
<1>4. CASE \A t \in Tasks : ~SaveMasks(t) /\ ~SaveRows(t)
  BY <1>3, <1>4 DEF Next, Tasks, LiveBlock, LostBlock, RepairBlock, GapSlotEmpty, SaveConfirm,
                    FinalizeSlot, ApiLearns
<1> QED
  BY <1>1, <1>2, <1>4

\* Every row and mask inserted is of what the chain did in its slot.
LEMMA RowsFollowStep ==
  ASSUME StoreType, SlotOrder, HistoryInv, [Next]_vars
  PROVE  RowsFollowChain'
<1>0. /\ head \in Nat /\ head' \in Nat /\ head <= head' /\ \A s \in 0..head : update'[s] = update[s]
  BY ChainGrows, StoreFacts
<1> SUFFICES ASSUME NEW r \in (accounts \cup snapshot)' PROVE RowFollowsChain(r)'
  BY DEF RowsFollowChain
<1>1. SUFFICES r.slot \in Nat /\ RowFollowsChain(r)
  BY <1>0 DEF RowFollowsChain
<1>2. CASE r \in accounts \cup snapshot
  <2>1. r \in Row
    BY <1>2, StoreFacts
  <2>2. r.slot \in Nat
    BY <2>1 DEF Row
  <2> QED
    BY <1>2, <2>2 DEF HistoryInv, RowsFollowChain
<1>3. CASE r \notin accounts \cup snapshot
  <2>1. PICK t \in Tasks :
           /\ Busy(t) /\ r.slot = saver[t].slot
           /\ \/ SaveRows(t) /\ r \in OpenRows(t)
              \/ SaveMasks(t) /\ mode.map /\ r \in RoutedMasks(t)
              \/ /\ SaveMasks(t) /\ ~mode.map
                 /\ \E m \in MaskByScan(saver[t].closed, saver[t].slot) : r \in m
    BY <1>3, RowsWritten
  <2>2. /\ saver[t].slot \in Nat /\ saver[t].slot <= head /\ saver[t].slot # 0
        /\ saver[t].open \subseteq KeyOwner /\ saver[t].closed \subseteq Keys
    <3>1. saver[t].slot \in Slots /\ saver[t].slot \in Nat /\ saver[t].slot <= head
      BY <2>1, SavedIsOld
    <3> QED
      BY <3>1, StoreFacts DEF Saving, Slots
  <2>3. /\ \A o \in saver[t].open : update[saver[t].slot][o.key] = o.owner
        /\ \A k \in saver[t].closed : update[saver[t].slot][k] \in Gone
    BY <2>1 DEF HistoryInv, SaverFollowsChain
  <2>4. CASE r \in OpenRows(t)
    BY <2>2, <2>3, <2>4 DEF OpenRows, RowFollowsChain
  <2>o. Owners \cap {"none", "closed", "other"} = {}
    BY StoreAssumption
  <2>5. CASE r \in RoutedMasks(t)
    <3>1. CASE \E k \in saver[t].closed : /\ Known(k)
             /\ r = [key |-> k, owner |-> owners[k].owner, slot |-> saver[t].slot, open |-> FALSE]
      <4>1. PICK k \in saver[t].closed : /\ Known(k)
             /\ r = [key |-> k, owner |-> owners[k].owner, slot |-> saver[t].slot, open |-> FALSE]
        BY <3>1
      <4>2. owners[k] \in Entry
        BY <2>2, <4>1, StoreFacts
      <4>3. owners[k].owner \in Owners
        BY <4>1, <4>2 DEF Known, Entry
      <4>4. update[saver[t].slot][k] \in Gone
        BY <2>3
      <4> QED
        BY <2>2, <2>o, <4>1, <4>3, <4>4 DEF RowFollowsChain, Gone
    <3>2. CASE \E c \in changed : /\ c.slot = saver[t].slot
             /\ r = [key |-> c.key, owner |-> c.owner, slot |-> saver[t].slot, open |-> FALSE]
      BY <2>2, <3>2 DEF RowFollowsChain, HistoryInv, ChangedFollowsChain
    <3> QED
      BY <2>5, <3>1, <3>2 DEF RoutedMasks
  <2>6. CASE \E m \in MaskByScan(saver[t].closed, saver[t].slot) : r \in m
    <3>1. r.key \in saver[t].closed /\ r.owner \in Owners
         /\ r = [key |-> r.key, owner |-> r.owner, slot |-> saver[t].slot, open |-> FALSE]
      BY <2>6, ScannedMask
    <3>2. update[saver[t].slot][r.key] \in Gone
      BY <2>3, <3>1
    <3>3. r.open = FALSE /\ r.slot = saver[t].slot
      BY <3>1
    <3> QED
      BY <2>2, <2>o, <3>1, <3>2, <3>3 DEF RowFollowsChain, Gone
  <2> QED
    BY <2>1, <2>4, <2>5, <2>6
<1> QED
  BY <1>2, <1>3

\* What a finalized slot queues.
LEMMA ItemsQueued ==
  ASSUME StoreType, NEW s \in Slots, FinalizeSlot(s)
  PROVE  /\ taken' = taken /\ drainer' = drainer /\ accounts' = accounts /\ snapshot' = snapshot
         /\ queue' = MergeByMax(queue \cup KeysForSlot(s))
         /\ queue \cup KeysForSlot(s) \subseteq Item
  BY KeysForSlotType, StoreFacts DEF FinalizeSlot, Enqueue

\* Only finalization and the drainer change what is queued.
LEMMA QueueKept ==
  ASSUME StoreType, [Next]_vars, \A s \in Slots : ~FinalizeSlot(s), ~DrainerStep
  PROVE  queue' = queue /\ taken' = taken /\ drainer' = drainer /\ finalTip' = finalTip
  BY DEF Next, LiveBlock, LostBlock, RepairBlock, GapSlotEmpty, SaveMasks, SaveRows, SaveConfirm,
         ApiLearns, DrainStep

\* A finalized slot follows the one before it.
LEMMA FinalizedNext ==
  ASSUME StoreType, SlotOrder, FinalizedDone, NEW s \in Slots, FinalizeSlot(s)
  PROVE  s \in Nat /\ finalTip < s /\ finalTip' = s /\ s <= confirmed /\ s <= head
<1>1. /\ s \in Nat /\ blocks[s].saved /\ finalTip' = IF s > finalTip THEN s ELSE finalTip
  BY StoreFacts DEF FinalizeSlot
<1>2. ~(s <= finalTip)
  BY <1>1 DEF FinalizedDone, NoBlock
<1>3. s <= confirmed /\ confirmed <= lastSlot /\ lastSlot <= head
  BY <1>1 DEF SlotOrder
<1> QED
  BY <1>1, <1>2, <1>3, StoreFacts

\* keys_for_slot cuts a key off at the slot that touched it, past it only when that
\* slot ended the key under the item's owner; merging keeps that.
LEMMA ItemsFollowStep ==
  ASSUME StoreType, SlotOrder, FinalizedDone, HistoryInv, [Next]_vars
  PROVE  ItemsFollowChain'
<1>0. /\ head \in Nat /\ finalTip \in Nat /\ finalTip' \in Nat /\ finalTip <= finalTip'
      /\ finalTip <= head
      /\ \A s \in 0..head : update'[s] = update[s]
  BY ChainGrows, StoreFacts DEF SlotOrder
<1> SUFFICES ASSUME NEW i \in queue' \cup taken' PROVE ItemFollowsChain(i)'
  BY DEF ItemsFollowChain
\* An item that followed the chain does, and so does one like it.
<1>1. ASSUME NEW j \in queue \cup taken, j.key = i.key, j.owner = i.owner, j.cutoff = i.cutoff
      PROVE  ItemFollowsChain(i)'
  <2>1. PICK s \in 1..finalTip :
          /\ Touched(j.key, s) /\ j.cutoff \in {s, s + 1}
          /\ j.cutoff = s + 1 => IF j.owner = NoOwner THEN update[s][j.key] \in Gone
                                                    ELSE update[s][j.key] # j.owner
    BY DEF HistoryInv, ItemsFollowChain, ItemFollowsChain
  <2>2. s \in 1..finalTip' /\ update'[s] = update[s]
    BY <1>0
  <2> QED
    BY <1>1, <2>1, <2>2 DEF ItemFollowsChain, Touched
<1>2. ASSUME NEW s \in Slots, FinalizeSlot(s) PROVE ItemFollowsChain(i)'
  <2>1. /\ taken' = taken /\ queue' \subseteq queue \cup KeysForSlot(s)
    BY <1>2, ItemsQueued, MergeSelects
  <2>2. s \in Nat /\ s \in 1..finalTip' /\ s \in 0..head /\ s # 0
    BY <1>0, <1>2, FinalizedNext DEF Slots
  <2>3. update'[s] = update[s]
    BY <1>0, <2>2
  <2>4. CASE i \in KeysForSlot(s)
    <3>1. /\ \A o \in blocks[s].open : update[s][o.key] = o.owner
          /\ \A k \in blocks[s].closed : update[s][k] \in Gone
          /\ \A p \in blocks[s].pairs : update[s][p.key] \notin {"none", p.owner}
          /\ blocks[s].open \subseteq KeyOwner
      BY StoreFacts DEF HistoryInv, BlocksFollowChain
    <3>2. "none" \notin Owners /\ NoOwner \notin Owners
      BY StoreAssumption, CleanupAssumption
    <3>3. \A o \in blocks[s].open : o.owner \in Owners
      BY <3>1 DEF KeyOwner
    <3>4. CASE \E o \in blocks[s].open : i.key = o.key /\ i.cutoff = s
      <4>1. PICK o \in blocks[s].open : i.key = o.key /\ i.cutoff = s
        BY <3>4
      <4>2. update[s][i.key] = o.owner /\ o.owner \in Owners
        BY <3>1, <3>3, <4>1
      <4>3. i.cutoff # s + 1
        BY <2>2, <4>1
      <4> QED
        BY <2>2, <2>3, <3>2, <4>1, <4>2, <4>3 DEF ItemFollowsChain, Touched
    <3>5. CASE \E p \in blocks[s].pairs : i.key = p.key /\ i.owner = p.owner /\ i.cutoff = s + 1
      <4>1. PICK p \in blocks[s].pairs : i.key = p.key /\ i.owner = p.owner /\ i.cutoff = s + 1
        BY <3>5
      <4>2. update[s][i.key] \notin {"none", i.owner}
        BY <3>1, <4>1
      <4>3. i.owner # NoOwner
        <5>1. blocks[s].pairs \subseteq KeyOwner
          BY StoreFacts
        <5> QED
          BY <3>2, <4>1, <5>1 DEF KeyOwner
      <4> QED
        BY <2>2, <2>3, <4>1, <4>2, <4>3 DEF ItemFollowsChain, Touched
    <3>6. CASE \E k \in blocks[s].closed : i.key = k /\ i.owner = NoOwner /\ i.cutoff = s + 1
      <4>1. update[s][i.key] \in Gone
        BY <3>1, <3>6
      <4> QED
        BY <2>2, <2>3, <3>6, <4>1 DEF ItemFollowsChain, Touched, Gone
    <3> QED
      BY <2>4, <3>4, <3>5, <3>6 DEF KeysForSlot
  <2> QED
    BY <1>1, <2>1, <2>4
<1>3. CASE DrainerStep
  <2>1. \E j \in queue \cup taken : j.key = i.key /\ j.owner = i.owner /\ j.cutoff = i.cutoff
    BY <1>3, DrainShrinks
  <2> QED
    BY <1>1, <2>1
<1>4. CASE (\A s \in Slots : ~FinalizeSlot(s)) /\ ~DrainerStep
  BY <1>1, <1>4, QueueKept
<1> QED
  BY <1>2, <1>3, <1>4

----------------------------------------------------------------------------
(* The drainer                                                             *)

\* The rows an item deletes.
Covers(i, r) == i.key = r.key /\ i.owner \in {NoOwner, r.owner} /\ r.slot < i.cutoff

\* A row is on its way out.
Covered(r) == \E i \in queue \cup taken : Covers(i, r)

\* The accounts table is drained after snapshot_accounts.
SnapshotFirst == drainer = "accounts" => \A r \in snapshot, i \in taken : ~Covers(i, r)

\* Items are taken only during a drain.
TakenWhileDraining == drainer \in {"wait", "note", "take"} => taken = {}

\* Together.
DrainInv == SnapshotFirst /\ TakenWhileDraining

\* A statement leaves exactly the rows no item covers.
LEMMA DeleteLeaves ==
  ASSUME NEW rows \in SUBSET Row, NEW items \in SUBSET Item
  PROVE  DeleteBelow(rows, items) = {r \in rows : \A i \in items : ~Covers(i, r)}
<1>1. \A r \in rows : r.slot \in Int
  BY CleanupAssumption DEF Row
<1>2. \A i \in items : i.cutoff \in Int
  BY CleanupAssumption DEF Item
<1> QED
  BY <1>1, <1>2 DEF DeleteBelow, Covers

\* Merging keeps what is covered.
LEMMA MergeCovers ==
  ASSUME NEW items \in SUBSET Item, NEW i \in items, NEW r \in Row, Covers(i, r)
  PROVE  \E j \in MergeByMax(items) : Covers(j, r)
<1>1. PICK j \in MergeByMax(items) : j.key = i.key /\ j.owner = i.owner /\ i.cutoff <= j.cutoff
  BY MergeKeepsCutoffs
<1>2. r.slot \in Int /\ i \in Item /\ j \in Item
  BY <1>1, MergeSelects, CleanupAssumption DEF Row
<1>3. i.cutoff \in Int /\ j.cutoff \in Int
  BY <1>2, CleanupAssumption DEF Item
<1> QED
  BY <1>1, <1>2, <1>3 DEF Covers

\* What a step of the drainer deletes was covered by what it took, and no row that
\* stays has an older slot than a row deleted from the accounts table.
LEMMA DrainDeletes ==
  ASSUME StoreType, DrainInv, DrainerStep
  PROVE  /\ DrainInv'
         /\ \A r \in accounts : r \in accounts' \/ \E i \in taken : Covers(i, r)
         /\ \A r \in snapshot : r \in snapshot' \/ \E i \in taken : Covers(i, r)
         /\ \A q \in accounts \ accounts', r \in accounts' \cup snapshot' :
              r.key = q.key /\ r.owner = q.owner => q.slot < r.slot
<1> USE DEF DrainInv, SnapshotFirst, TakenWhileDraining
<1>0. accounts \subseteq Row /\ snapshot \subseteq Row /\ taken \subseteq Item
  BY StoreFacts
<1>1. CASE DrainerWake \/ DrainerNote \/ DrainerTake \/ Reinsert
  BY <1>1 DEF DrainerWake, DrainerNote, DrainerTake, Reinsert
<1>2. CASE DrainSnapshot
  <2>1. /\ drainer = "snapshot" /\ accounts' = accounts /\ taken' = taken
        /\ drainer' \in {"accounts", "failed"}
    BY <1>2 DEF DrainSnapshot
  <2>2. PICK done \in SUBSET taken : /\ snapshot' = DeleteBelow(snapshot, done)
                                     /\ drainer' = "accounts" => done = taken
    BY <1>2 DEF DrainSnapshot
  <2>3. snapshot' = {r \in snapshot : \A i \in done : ~Covers(i, r)}
    BY <1>0, <2>2, DeleteLeaves
  <2> QED
    BY <2>1, <2>2, <2>3 DEF Covers
<1>3. CASE DrainAccounts
  <2>1. /\ drainer = "accounts" /\ snapshot' = snapshot
        /\ drainer' = "failed" \/ (taken' = {} /\ drainer' \in {"note", "wait"})
    BY <1>3 DEF DrainAccounts
  <2>2. PICK done \in SUBSET taken : accounts' = DeleteBelow(accounts, done)
    BY <1>3 DEF DrainAccounts
  <2>3. accounts' = {r \in accounts : \A i \in done : ~Covers(i, r)}
    BY <1>0, <2>2, DeleteLeaves
  <2>4. ASSUME NEW q \in accounts \ accounts', NEW r \in accounts' \cup snapshot',
               r.key = q.key, r.owner = q.owner
        PROVE  q.slot < r.slot
    <3>1. PICK i \in done : Covers(i, q)
      BY <2>3
    <3>2. ~Covers(i, r)
      BY <2>1, <2>3, <3>1
    <3>3. q \in Row /\ r \in Row /\ i \in Item
      BY <1>0, <2>1, <2>3
    <3>4. q.slot \in Int /\ r.slot \in Int /\ i.cutoff \in Int
      BY <3>3, CleanupAssumption DEF Row, Item
    <3> QED
      BY <2>4, <3>1, <3>2, <3>4 DEF Covers
  <2> QED
    BY <2>1, <2>2, <2>3, <2>4
<1> QED
  BY <1>1, <1>2, <1>3 DEF DrainerStep

\* What is covered stays covered until it is deleted.
LEMMA DrainCovers ==
  ASSUME StoreType, DrainInv, DrainerStep, NEW r \in accounts' \cup snapshot',
         Covered(r)
  PROVE  Covered(r)'
<1>0. /\ accounts \subseteq Row /\ snapshot \subseteq Row /\ taken \subseteq Item /\ queue \subseteq Item
      /\ r \in accounts \cup snapshot /\ r \in Row
  BY StoreFacts, DrainShrinks
<1>1. PICK i \in queue \cup taken : Covers(i, r)
  BY DEF Covered
<1> SUFFICES \E j \in queue' \cup taken' : Covers(j, r)
  BY DEF Covered, Covers
<1>2. CASE DrainerWake \/ DrainerNote \/ DrainSnapshot
  BY <1>1, <1>2 DEF DrainerWake, DrainerNote, DrainSnapshot
<1>3. CASE DrainerTake
  <2> DEFINE old == {j \in queue : j.at \in Window}
             first == CHOOSE s \in Window : \A t \in Window : s <= t
             moved == {[j EXCEPT !.at = first] : j \in old}
  <2>1. taken = {} /\ taken' = MergeByMax(moved) /\ queue' = {j \in queue : j.at \notin Window}
    BY <1>3 DEF DrainInv, TakenWhileDraining, DrainerTake
  <2>2. CASE i \in old
    <3>1. [i EXCEPT !.at = first] \in moved /\ Covers([i EXCEPT !.at = first], r)
      BY <1>0, <1>1, <2>2 DEF Covers, Item
    <3>2. moved \subseteq Item
      BY <1>0, <2>2, WindowHasFirst DEF Item
    <3> HIDE DEF moved, first, old
    <3> QED
      BY <1>0, <2>1, <3>1, <3>2, MergeCovers
  <2>3. CASE i \notin old
    BY <1>1, <2>1, <2>3
  <2> QED
    BY <2>2, <2>3
<1>4. CASE DrainAccounts
  <2>1. i \in taken => taken' = taken
    <3> SUFFICES ASSUME i \in taken, accounts' = DeleteBelow(accounts, taken) PROVE FALSE
      BY <1>4 DEF DrainAccounts
    <3>1. r \notin accounts'
      BY <1>0, <1>1, DeleteLeaves
    <3>2. r \notin snapshot
      BY <1>1, <1>4 DEF DrainInv, SnapshotFirst, DrainAccounts
    <3> QED
      BY <1>4, <3>1, <3>2 DEF DrainAccounts
  <2>2. queue' = queue
    BY <1>4 DEF DrainAccounts
  <2> QED
    BY <1>1, <2>1, <2>2
<1>5. CASE Reinsert
  <2>1. queue' = MergeByMax(queue \cup taken)
    BY <1>5 DEF Reinsert
  <2> QED
    BY <1>0, <1>1, <2>1, MergeCovers
<1> QED
  BY <1>2, <1>3, <1>4, <1>5 DEF DrainerStep

\* Enqueuing keeps what is covered, and covers what the slot's keys cover.
LEMMA EnqueueCovers ==
  ASSUME StoreType, NEW s \in Slots, FinalizeSlot(s), NEW r \in Row,
         NEW i \in queue \cup taken \cup KeysForSlot(s), Covers(i, r)
  PROVE  Covered(r)'
<1>1. /\ taken' = taken /\ queue' = MergeByMax(queue \cup KeysForSlot(s))
      /\ queue \cup KeysForSlot(s) \subseteq Item
  BY ItemsQueued
<1>2. CASE i \in taken
  BY <1>1, <1>2 DEF Covered, Covers
<1>3. CASE i \in queue \cup KeysForSlot(s)
  <2>1. \E j \in queue' : Covers(j, r)
    BY <1>1, <1>3, MergeCovers
  <2> QED
    BY <2>1 DEF Covered, Covers
<1> QED
  BY <1>2, <1>3

\* Only the drainer deletes.
LEMMA RowsKept ==
  ASSUME StoreType, [Next]_vars, ~DrainerStep
  PROVE  /\ accounts \subseteq accounts' /\ snapshot' = snapshot
         /\ taken' = taken /\ drainer' = drainer
<1>1. ASSUME NEW t \in Tasks, SaveMasks(t)
      PROVE  accounts \subseteq accounts' /\ UNCHANGED <<snapshot, taken, drainer>>
  BY <1>1 DEF SaveMasks
<1>2. ASSUME NEW s \in Slots, FinalizeSlot(s)
      PROVE  accounts \subseteq accounts' /\ UNCHANGED <<snapshot, taken, drainer>>
  BY <1>2 DEF FinalizeSlot, Enqueue
<1>3. ASSUME NEW t \in Tasks, SaveRows(t)
      PROVE  accounts \subseteq accounts' /\ UNCHANGED <<snapshot, taken, drainer>>
  BY <1>3, RowsInserted DEF SaveRows
<1> QED
  BY <1>1, <1>2, <1>3 DEF Next, LiveBlock, LostBlock, RepairBlock, GapSlotEmpty, SaveConfirm,
         ApiLearns, DrainStep, Tasks

\* A drain deletes from snapshot_accounts first and forgets its items at the end.
LEMMA DrainInvStep ==
  ASSUME StoreType, DrainInv, [Next]_vars
  PROVE  DrainInv'
<1>1. CASE DrainerStep
  BY <1>1, DrainDeletes
<1>2. CASE ~DrainerStep
  BY <1>2, RowsKept DEF DrainInv, SnapshotFirst, TakenWhileDraining, Covers
<1> QED
  BY <1>1, <1>2

\* At the start there is nothing to drain.
LEMMA DrainInvInit == Init => DrainInv
  BY DEF Init, CleanupInit, DrainInv, SnapshotFirst, TakenWhileDraining

\* A covered open row was superseded: its key is touched again up to the
\* finalized slot.
LEMMA CoveredIsSuperseded ==
  ASSUME StoreType, HistoryInv, NEW i \in queue \cup taken,
         NEW r \in accounts \cup snapshot, Covers(i, r), r.open
  PROVE  \E v \in (r.slot + 1)..finalTip : Touched(r.key, v)
<1>0. /\ r \in Row /\ i \in Item /\ finalTip \in Nat
  BY StoreFacts
<1>1. r.slot \in Nat /\ r.owner \in Owners /\ r.key \in Keys
  BY <1>0 DEF Row
<1>2. PICK s \in 1..finalTip :
        /\ Touched(i.key, s) /\ i.cutoff \in {s, s + 1}
        /\ i.cutoff = s + 1 => IF i.owner = NoOwner THEN update[s][i.key] \in Gone
                                                  ELSE update[s][i.key] # i.owner
  BY DEF HistoryInv, ItemsFollowChain, ItemFollowsChain
<1>3. update[r.slot][r.key] = r.owner
  BY DEF HistoryInv, RowsFollowChain, RowFollowsChain
<1>4. r.slot # s \/ i.cutoff = s
  <2>1. r.owner \notin Gone /\ r.owner # NoOwner
    BY <1>1, StoreAssumption, CleanupAssumption DEF Gone
  <2> QED
    BY <1>2, <1>3, <2>1 DEF Covers
<1>5. r.slot < s
  BY <1>0, <1>1, <1>2, <1>4 DEF Covers
<1> QED
  BY <1>0, <1>1, <1>2, <1>5 DEF Covers

----------------------------------------------------------------------------
(* Current rows stay                                                       *)

\* Up to where a row must not be superseded to be kept: the drainer deletes what
\* finalized slots supersede; a snapshot may lack what any later slot superseded.
Horizon == IF mode.lossy THEN head ELSE finalTip

\* Nothing up to the horizon has superseded the key's update of a slot.
Current(k, s) == \A v \in (s + 1)..Horizon : ~Touched(k, v)

\* The rows of a slot are in the tables.
Written(s) ==
  /\ s \in missed => Busy("fill") /\ saver["fill"].slot = s
  /\ \A t \in Tasks : Busy(t) /\ saver[t].slot = s => "rows" \notin saver[t].todo

\* A block being saved has every update that is current.
SaverHasCurrent ==
  \A t \in Tasks : Busy(t) =>
    \A k \in Keys : Current(k, saver[t].slot) =>
      /\ update[saver[t].slot][k] \in Owners =>
           [key |-> k, owner |-> update[saver[t].slot][k]] \in saver[t].open
      /\ update[saver[t].slot][k] = "closed" => k \in saver[t].closed

\* Every current version of a written slot is in the tables, or its insert failed.
CurrentRowsKept ==
  \A k \in Keys, s \in 0..head :
    update[s][k] \in Owners /\ Written(s) /\ Current(k, s) =>
      [key |-> k, owner |-> update[s][k], slot |-> s, open |-> TRUE]
        \in accounts \cup snapshot \cup unsaved

\* Inserts fail only where they may.
UnsavedFailed == ~mode.rowsFail => unsaved = {}

\* Together.
CurrentInv == SaverHasCurrent /\ CurrentRowsKept /\ UnsavedFailed

\* Only an insert of rows adds to the failed ones.
LEMMA UnsavedGrows ==
  ASSUME [Next]_vars
  PROVE  unsaved \subseteq unsaved' /\ (~mode.rowsFail => unsaved' = unsaved)
<1>1. ASSUME NEW t \in Tasks, SaveRows(t)
      PROVE  unsaved \subseteq unsaved' /\ (~mode.rowsFail => unsaved' = unsaved)
  BY <1>1, RowsInserted
<1>2. ASSUME NEW t \in Tasks, SaveMasks(t) \/ SaveConfirm(t) PROVE unsaved' = unsaved
  BY <1>2 DEF SaveMasks, SaveConfirm
<1> QED
  BY <1>1, <1>2 DEF Next, LiveBlock, LostBlock, RepairBlock, GapSlotEmpty, FinalizeSlot,
         ApiLearns, DrainStep, Tasks

\* Where no insert may fail, none has.
LEMMA UnsavedFailedStep ==
  ASSUME StoreType, UnsavedFailed, [Next]_vars
  PROVE  UnsavedFailed'
<1>1. mode' = mode
  BY NextMode
<1> QED
  BY <1>1, UnsavedGrows DEF UnsavedFailed

\* What is current was current before.
LEMMA CurrentBefore ==
  ASSUME StoreType, SlotOrder, [Next]_vars, NEW k \in Keys, NEW s \in Nat,
         \A v \in (s + 1)..Horizon' : update'[v][k] = "none"
  PROVE  Current(k, s)
<1>1. /\ head \in Nat /\ head <= head' /\ head' \in Nat /\ finalTip \in Nat
      /\ finalTip <= finalTip' /\ finalTip' \in Nat
      /\ \A v \in 0..head : update'[v] = update[v]
      /\ mode' = mode
  BY ChainGrows, StoreFacts
<1>2. finalTip <= head
  BY StoreFacts DEF SlotOrder
<1> SUFFICES ASSUME NEW v \in (s + 1)..Horizon PROVE update[v][k] = "none"
  BY DEF Current, Touched
<1>3. v \in (s + 1)..Horizon' /\ v \in 0..head
  BY <1>1, <1>2 DEF Horizon
<1> QED
  BY <1>1, <1>3

\* At the start the snapshot's rows are current.
LEMMA CurrentInit == Init => CurrentInv
<1> SUFFICES ASSUME Init PROVE CurrentInv
  OBVIOUS
<1>1. SaverHasCurrent
  BY DEF Init, SaverHasCurrent, Busy, Idle, Tasks
<1>2. CurrentRowsKept
  <2> SUFFICES ASSUME NEW k \in Keys, NEW s \in 0..head, update[s][k] \in Owners
               PROVE  [key |-> k, owner |-> update[s][k], slot |-> s, open |-> TRUE] \in snapshot
    BY DEF CurrentRowsKept
  <2>1. PICK first \in [Keys -> mode.updates \cap (Owners \cup {"none"})] :
          /\ update = [v \in 0..MaxSlot |-> IF v = 0 THEN first ELSE NoUpdate]
          /\ CleanupInit({[key |-> j, owner |-> first[j], slot |-> 0, open |-> TRUE] :
                           j \in {l \in Keys : first[l] \in Owners}})
    BY DEF Init
  <2>2. s = 0 /\ update[s] = first
    BY <2>1, CleanupAssumption DEF Init
  <2>3. /\ k \in {j \in Keys : first[j] \in Owners}
        /\ snapshot = {[key |-> j, owner |-> first[j], slot |-> 0, open |-> TRUE] :
                         j \in {l \in Keys : first[l] \in Owners}}
    BY <2>1, <2>2 DEF CleanupInit
  <2> QED
    BY <2>2, <2>3
<1>3. UnsavedFailed
  BY DEF Init, UnsavedFailed
<1> QED
  BY <1>1, <1>2, <1>3 DEF CurrentInv

\* A repaired block may lack what a later block superseded, never what is current
\* (snapshot of a later slot, self_healing.rs).
LEMMA SaverHasCurrentStep ==
  ASSUME StoreType, SlotInv, SaverHasCurrent, [Next]_vars
  PROVE  SaverHasCurrent'
<1>s. SlotOrder /\ NothingMissed
  BY DEF SlotInv
<1>0. /\ head \in Nat /\ head' \in Nat /\ head <= head' /\ finalTip' \in Nat
      /\ \A v \in 0..head : update'[v] = update[v]
      /\ mode' = mode
  BY <1>s, ChainGrows, StoreFacts
<1> SUFFICES ASSUME NEW u \in Tasks, saver'[u].busy, NEW k \in Keys,
                    \A v \in (saver'[u].slot + 1)..Horizon' : update'[v][k] = "none"
             PROVE  /\ update'[saver'[u].slot][k] \in Owners =>
                         [key |-> k, owner |-> update'[saver'[u].slot][k]] \in saver'[u].open
                    /\ update'[saver'[u].slot][k] = "closed" => k \in saver'[u].closed
  BY DEF SaverHasCurrent, Busy, Current, Touched
\* A save that goes on.
<1>1. ASSUME saver[u].busy, saver'[u].slot = saver[u].slot,
             saver'[u].open = saver[u].open, saver'[u].closed = saver[u].closed
      PROVE  /\ update'[saver'[u].slot][k] \in Owners =>
                  [key |-> k, owner |-> update'[saver'[u].slot][k]] \in saver'[u].open
             /\ update'[saver'[u].slot][k] = "closed" => k \in saver'[u].closed
  <2>1. saver[u].slot \in Nat /\ saver[u].slot \in 0..head
    BY <1>1, <1>s, SavedIsOld DEF Busy
  <2>2. \A v \in Nat : (\A w \in (v + 1)..Horizon' : update'[w][k] = "none") => Current(k, v)
    BY <1>s, CurrentBefore
  <2>4. Current(k, saver[u].slot)
    BY <1>1, <2>1, <2>2
  <2> QED
    BY <1>0, <1>1, <2>1, <2>4 DEF SaverHasCurrent, Busy
<1>2. CASE Starts
  <2>1. PICK t \in Tasks, s \in Slots, b \in [Keys -> AllUpdates] :
          /\ SaveStart(t, s, b, AllWork) /\ BlockFollows(b, s) /\ BlockHolds(b, s)
          /\ s = head' \/ s \in missed
    BY <1>2 DEF Starts
  <2>2. /\ saver'[t].slot = s /\ saver'[t].open = OpenBy(b) /\ saver'[t].closed = ClosedBy(b, s)
        /\ \A v \in Tasks : v # t => saver'[v] = saver[v]
    BY <2>1, SaveStarted
  <2>3. CASE u = t
    <3>1. s \in Nat
      BY StoreFacts
    <3>2. \A v \in (s + 1)..head' : update'[v][k] = "none"
      <4>1. CASE s = head'
        <5>1. \A n \in Nat : (n + 1)..n = {}
          OBVIOUS
        <5>2. (s + 1)..head' = {}
          BY <3>1, <4>1, <5>1
        <5> QED
          BY <5>2
      <4>2. CASE s \in missed
        <5>1. Horizon' = head'
          BY <1>s, <1>0, <4>2 DEF NothingMissed, Horizon
        <5>2. \A v \in (s + 1)..Horizon' : update'[v][k] = "none"
          BY <2>2, <2>3
        <5> QED
          BY <5>1, <5>2
      <4> QED
        BY <2>1, <4>1, <4>2
    <3>3. update'[s][k] # "other" => b[k] = update'[s][k]
      BY <2>1, <3>2 DEF BlockHolds
    <3>4. "other" \notin Owners
      BY StoreAssumption
    <3> QED
      BY <2>2, <2>3, <3>3, <3>4 DEF OpenBy, ClosedBy
  <2>4. CASE u # t
    BY <1>1, <2>2, <2>4
  <2> QED
    BY <2>3, <2>4
<1>3. CASE Continues
  BY <1>1, <1>3 DEF Continues
<1> QED
  BY <1>s, <1>2, <1>3, StartsOrContinues

\* An item spares the rows that are current.
LEMMA CurrentNotCovered ==
  ASSUME StoreType, SlotOrder, HistoryInv, NEW i \in queue \cup taken,
         NEW r \in accounts \cup snapshot, r.open, Current(r.key, r.slot)
  PROVE  ~Covers(i, r)
<1> SUFFICES ASSUME Covers(i, r) PROVE FALSE
  OBVIOUS
<1>1. PICK v \in (r.slot + 1)..finalTip : Touched(r.key, v)
  BY CoveredIsSuperseded
<1>2. finalTip \in Nat /\ head \in Nat /\ finalTip <= head /\ r \in Row
  BY StoreFacts DEF SlotOrder
<1>3. r.slot \in Nat
  BY <1>2 DEF Row
<1>4. v \in (r.slot + 1)..Horizon
  BY <1>1, <1>2, <1>3 DEF Horizon
<1> QED
  BY <1>1, <1>4 DEF Current

\* A slot whose rows are written was so before the step, unless the step wrote them,
\* found that there are none, or is the one the slot appears in.
LEMMA WrittenBefore ==
  ASSUME StoreType, SlotOrder, [Next]_vars, NEW s \in 0..head, ~Written(s),
         s \in missed' => saver'["fill"].busy /\ saver'["fill"].slot = s,
         \A t \in Tasks : saver'[t].busy /\ saver'[t].slot = s => "rows" \notin saver'[t].todo
  PROVE  \/ \E t \in Tasks : Busy(t) /\ saver[t].slot = s /\ SaveRows(t)
         \/ s \in Slots /\ GapSlotEmpty(s)
<1> SUFFICES ASSUME \A t \in Tasks : ~(Busy(t) /\ saver[t].slot = s /\ SaveRows(t)),
                    ~(s \in Slots /\ GapSlotEmpty(s))
             PROVE  FALSE
  OBVIOUS
<1>0. /\ head \in Nat /\ s \in Nat /\ s <= head /\ Tasks = {"main", "fill"}
      /\ saver \in [Tasks -> Saving] /\ missed \subseteq Slots
  BY StoreFacts
<1>1. \/ s \in missed /\ ~(saver["fill"].busy /\ saver["fill"].slot = s)
      \/ \E t \in Tasks : saver[t].busy /\ saver[t].slot = s /\ "rows" \in saver[t].todo
  BY DEF Written, Busy
<1> DEFINE Saves(t) == saver[t].busy /\ saver[t].slot = s
           Saves2(t) == saver'[t].busy /\ saver'[t].slot = s
           Same == /\ s \in missed => s \in missed'
                   /\ \A t \in Tasks : Saves(t) /\ "rows" \in saver[t].todo =>
                                         Saves2(t) /\ "rows" \in saver'[t].todo
                   /\ \A t \in Tasks : Saves2(t) => Saves(t)
<1>2. SUFFICES Same
  <2>1. CASE s \in missed /\ ~(saver["fill"].busy /\ saver["fill"].slot = s)
    BY <1>0, <2>1
  <2>2. CASE \E t \in Tasks : saver[t].busy /\ saver[t].slot = s /\ "rows" \in saver[t].todo
    <3>1. PICK t \in Tasks : saver[t].busy /\ saver[t].slot = s /\ "rows" \in saver[t].todo
      BY <2>2
    <3>2. saver'[t].busy /\ saver'[t].slot = s /\ "rows" \in saver'[t].todo
      BY <1>2, <3>1
    <3> QED
      BY <3>2
  <2> QED
    BY <1>1, <2>1, <2>2
<1>3. ASSUME NEW b \in Blocks, LiveBlock(b) PROVE Same
  <2>1. /\ head' = head + 1 /\ head' \in Slots /\ SaveStart("main", head', b, AllWork)
        /\ missed' = missed
    BY <1>3, LiveFollows DEF LiveBlock
  <2>2. ~saver["main"].busy /\ saver'["main"].slot = head' /\ saver'["fill"] = saver["fill"]
    BY <1>0, <2>1, SaveStarted DEF Busy
  <2> QED
    BY <1>0, <2>1, <2>2
<1>4. ASSUME NEW b \in Blocks, LostBlock(b) PROVE Same
  BY <1>4 DEF LostBlock
<1>5. ASSUME NEW g \in Slots, RepairBlock(g) PROVE Same
  <2>1. PICK b \in [Keys -> AllUpdates] : SaveStart("fill", g, b, AllWork)
    BY <1>5, RepairFollows
  <2>2. /\ ~saver["fill"].busy /\ saver'["fill"].busy /\ saver'["fill"].slot = g
        /\ saver'["main"] = saver["main"] /\ "rows" \in saver'["fill"].todo
    BY <1>0, <2>1, SaveStarted DEF Busy, AllWork
  <2>3. missed' = missed
    BY <1>5 DEF RepairBlock
  <2>4. g # s
    BY <1>0, <2>2
  <2> QED
    BY <1>0, <2>2, <2>3, <2>4
<1>6. ASSUME NEW g \in Slots, GapSlotEmpty(g) PROVE Same
  BY <1>6 DEF GapSlotEmpty
<1>7. ASSUME NEW t \in Tasks, SaveMasks(t) PROVE Same
  BY <1>0, <1>7 DEF SaveMasks, Saving
<1>8. ASSUME NEW t \in Tasks, SaveRows(t) PROVE Same
  <2>1. saver[t].busy /\ saver[t].slot # s
    BY <1>8, WritingTask DEF Busy
  <2> QED
    BY <1>0, <1>8, <2>1, WritingTask DEF SaveRows
<1>9. ASSUME NEW t \in Tasks, SaveConfirm(t) PROVE Same
  <2>1. /\ Busy(t) /\ saver[t].todo = {} /\ missed' = missed \ {saver[t].slot}
        /\ saver'[t] = Idle /\ \A u \in Tasks : u # t => saver'[u] = saver[u]
    BY <1>0, <1>9 DEF SaveConfirm, Busy
  <2>2. CASE s # saver[t].slot
    BY <2>1, <2>2 DEF Idle
  <2>3. CASE s = saver[t].slot
    <3>1. s \in missed => t = "fill"
      BY <1>0, <2>1, <2>3, BusySlots DEF SlotOrder
    <3>2. \A u \in Tasks : Busy(u) /\ saver[u].slot = s => u = t
      <4>1. Busy("main") /\ Busy("fill") => saver["main"].slot # saver["fill"].slot
        BY <1>0, BusySlots
      <4> QED
        BY <1>0, <2>1, <2>3, <4>1
    <3> QED
      BY <1>1, <2>1, <2>3, <3>1, <3>2 DEF Busy
  <2> QED
    BY <2>2, <2>3
<1>10. ASSUME NEW v \in Slots, FinalizeSlot(v) PROVE Same
  BY <1>10 DEF FinalizeSlot
<1>11. CASE ApiLearns \/ DrainStep \/ UNCHANGED vars
  BY <1>11 DEF ApiLearns, DrainStep
<1> QED
  BY <1>3, <1>4, <1>5, <1>6, <1>7, <1>8, <1>9, <1>10, <1>11 DEF Next, Tasks

\* Rows are inserted, or fail, before the slot is confirmed, and no delete hits one whose key
\* no finalized slot has touched since.
LEMMA CurrentRowsKeptStep ==
  ASSUME StoreType, SlotInv, HistoryInv, DrainInv, CurrentInv, [Next]_vars
  PROVE  CurrentRowsKept'
<1>s. SlotOrder /\ NothingMissed
  BY DEF SlotInv
<1>0. /\ head \in Nat /\ head' \in Nat /\ head <= head' /\ finalTip' \in Nat /\ lastSlot \in Nat
      /\ lastSlot <= head /\ Tasks = {"main", "fill"} /\ Slots \subseteq Nat
      /\ \A v \in 0..head : update'[v] = update[v]
      /\ mode' = mode
  BY <1>s, ChainGrows, StoreFacts DEF SlotOrder
<1> SUFFICES ASSUME NEW k \in Keys, NEW s \in 0..head', update'[s][k] \in Owners,
                    s \in missed' => saver'["fill"].busy /\ saver'["fill"].slot = s,
                    \A t \in Tasks : saver'[t].busy /\ saver'[t].slot = s => "rows" \notin saver'[t].todo,
                    \A v \in (s + 1)..Horizon' : update'[v][k] = "none"
             PROVE  [key |-> k, owner |-> update'[s][k], slot |-> s, open |-> TRUE]
                      \in accounts' \cup snapshot' \cup unsaved'
  BY DEF CurrentRowsKept, Written, Current, Touched, Busy
<1>1. s <= head
  <2> SUFFICES ASSUME s > head PROVE FALSE
    BY <1>0
  <2>1. ASSUME NEW b \in Blocks, LiveBlock(b) PROVE FALSE
    <3>1. /\ head' = head + 1 /\ head' \in Slots /\ SaveStart("main", head', b, AllWork)
      BY <2>1, LiveFollows
    <3>2. saver'["main"].busy /\ saver'["main"].slot = head' /\ "rows" \in saver'["main"].todo
      BY <1>0, <3>1, SaveStarted DEF AllWork
    <3>3. s = head'
      BY <1>0, <3>1
    <3> QED
      BY <1>0, <3>2, <3>3
  <2>2. ASSUME NEW b \in Blocks, LostBlock(b) PROVE FALSE
    <3>1. head' = head + 1 /\ head' \in missed' /\ saver' = saver
      BY <2>2 DEF LostBlock
    <3>2. s = head'
      BY <1>0, <3>1
    <3>3. Busy("fill") /\ saver["fill"].slot = head'
      BY <3>1, <3>2 DEF Busy
    <3>4. saver["fill"].slot \in Nat /\ saver["fill"].slot <= lastSlot
      BY <1>s, <1>0, <3>3, BusySlots
    <3> QED
      BY <1>0, <3>1, <3>3, <3>4
  <2>3. CASE \A b \in Blocks : ~LiveBlock(b) /\ ~LostBlock(b)
    <3>1. head' = head
      BY <2>3 DEF Next, RepairBlock, GapSlotEmpty, SaveMasks, SaveRows, SaveConfirm, FinalizeSlot,
                  ApiLearns, DrainStep
    <3> QED
      BY <1>0, <3>1
  <2> QED
    BY <2>1, <2>2, <2>3
<1>2. s \in Nat /\ s \in 0..head /\ update'[s] = update[s] /\ Current(k, s)
  BY <1>0, <1>1, <1>s, CurrentBefore
<1> DEFINE row == [key |-> k, owner |-> update[s][k], slot |-> s, open |-> TRUE]
<1>3. CASE Written(s)
  <2> SUFFICES ASSUME row \notin unsaved PROVE row \in accounts' \cup snapshot'
    BY <1>2, UnsavedGrows
  <2>1. row \in accounts \cup snapshot
    BY <1>2, <1>3 DEF CurrentInv, CurrentRowsKept
  <2>2. CASE DrainerStep
    <3>1. \A i \in taken : ~Covers(i, row)
      BY <1>s, <1>2, <2>1, CurrentNotCovered
    <3> QED
      BY <1>2, <2>1, <2>2, <3>1, DrainDeletes
  <2>3. CASE ~DrainerStep
    BY <1>2, <2>1, <2>3, RowsKept
  <2> QED
    BY <2>2, <2>3
<1>4. ASSUME NEW t \in Tasks, Busy(t), saver[t].slot = s, SaveRows(t)
      PROVE  row \in accounts' \cup unsaved'
  <2>1. [key |-> k, owner |-> update[s][k]] \in saver[t].open
    BY <1>2, <1>4 DEF CurrentInv, SaverHasCurrent
  <2>2. OpenRows(t) \subseteq accounts' \cup unsaved'
    BY <1>4, RowsInserted
  <2>3. row \in OpenRows(t)
    <3>1. \A o : o \in saver[t].open =>
            [key |-> o.key, owner |-> o.owner, slot |-> s, open |-> TRUE] \in OpenRows(t)
      BY <1>4 DEF OpenRows
    <3>2. [key |-> k, owner |-> update[s][k]].key = k
          /\ [key |-> k, owner |-> update[s][k]].owner = update[s][k]
      OBVIOUS
    <3> HIDE DEF row
    <3> QED
      BY <2>1, <3>1, <3>2 DEF row
  <2> QED
    BY <2>2, <2>3
<1>5. ASSUME s \in Slots, GapSlotEmpty(s) PROVE FALSE
  <2>1. s \in missed /\ NoUpdate \in InSnapshot(s)
    BY <1>5 DEF GapSlotEmpty, Gaps
  <2>2. Horizon = head
    BY <1>s, <2>1 DEF NothingMissed, Horizon
  <2>3. update[s][k] # "none" /\ update[s][k] # "other"
    BY <1>2, StoreAssumption
  <2>4. NoUpdate[k] = "none"
    BY DEF NoUpdate
  <2>5. \E v \in (s + 1)..head : update[v][k] # "none"
    BY <2>1, <2>3, <2>4 DEF InSnapshot
  <2> QED
    BY <1>2, <2>2, <2>5 DEF Current, Touched
<1> QED
  BY <1>s, <1>2, <1>3, <1>4, <1>5, WrittenBefore

----------------------------------------------------------------------------
(* The last touch of a key                                                 *)

\* LastTouch and OnChain of a history.
LastIn(u, k, tip) ==
  LET touched == {s \in 0..tip : s = 0 \/ u[s][k] # "none"}
  IN  CHOOSE s \in touched : \A r \in touched : r <= s

\* The indexed program an update leaves a key in.
OwnerAt(x) == IF x \in Owners THEN x ELSE "closed"

\* The program a key is in at a slot.
OwnerIn(u, k, tip) == OwnerAt(u[LastIn(u, k, tip)][k])

\* The last touch of a key: nothing after it, and it is a touch unless it is slot 0.
LEMMA LastTouchIs ==
  ASSUME NEW u, NEW k, NEW tip \in Nat
  PROVE  /\ LastIn(u, k, tip) \in 0..tip /\ LastIn(u, k, tip) \in Nat
         /\ LastIn(u, k, tip) = 0 \/ u[LastIn(u, k, tip)][k] # "none"
         /\ \A v \in (LastIn(u, k, tip) + 1)..tip : u[v][k] = "none"
         /\ \A v \in 0..tip : v <= LastIn(u, k, tip) \/ u[v][k] = "none"
<1> DEFINE touched == {s \in 0..tip : s = 0 \/ u[s][k] # "none"}
<1>1. touched \in SUBSET Nat /\ \A p \in touched : p <= tip
  OBVIOUS
<1>2. 0 \in touched
  OBVIOUS
<1> DEFINE w == LastIn(u, k, tip)
<1>3. w \in touched /\ \A r \in touched : r <= w
  <2>1. w = CHOOSE s \in touched : \A r \in touched : r <= s
    BY DEF LastIn
  <2>2. \E s \in touched : \A r \in touched : r <= s
    <3> HIDE DEF touched
    <3> QED
      BY <1>1, <1>2, MaxExists
  <2> HIDE DEF touched, w
  <2> QED
    BY <2>1, <2>2
<1>4. w \in 0..tip /\ w \in Nat /\ (w = 0 \/ u[w][k] # "none")
  BY <1>3
<1>5. \A v \in 0..tip : u[v][k] # "none" => v <= w
  BY <1>3
<1> HIDE DEF w, touched
<1>6. ASSUME NEW v \in (w + 1)..tip PROVE u[v][k] = "none"
  <2>1. v \in 0..tip /\ ~(v <= w)
    BY <1>4
  <2> QED
    BY <1>5, <2>1
<1> QED
  BY <1>4, <1>5, <1>6 DEF w

\* There is only one.
LEMMA LastTouchUnique ==
  ASSUME NEW u, NEW k, NEW tip \in Nat, NEW w \in 0..tip, w = 0 \/ u[w][k] # "none",
         \A v \in (w + 1)..tip : u[v][k] = "none"
  PROVE  LastIn(u, k, tip) = w
<1> DEFINE l == LastIn(u, k, tip)
<1>1. /\ l \in Nat /\ l \in 0..tip /\ (l = 0 \/ u[l][k] # "none")
      /\ \A v \in 0..tip : v <= l \/ u[v][k] = "none"
  BY LastTouchIs
<1> HIDE DEF l
<1>2. w <= l
  BY <1>1
<1>3. ~(l > w)
  <2>1. l > w => l \in (w + 1)..tip
    BY <1>1
  <2> QED
    BY <1>1, <2>1
<1> QED
  BY <1>1, <1>2, <1>3 DEF l

\* The owner on the chain depends on the history up to the slot, and changes with
\* the touches.
LEMMA OwnerInSame ==
  ASSUME NEW u, NEW v, NEW k, NEW tip \in Nat, \A s \in 0..tip : u[s] = v[s]
  PROVE  LastIn(u, k, tip) = LastIn(v, k, tip) /\ OwnerIn(u, k, tip) = OwnerIn(v, k, tip)
<1> DEFINE w == LastIn(v, k, tip)
<1>1. /\ w \in 0..tip /\ w \in Nat /\ (w = 0 \/ v[w][k] # "none")
      /\ \A s \in (w + 1)..tip : v[s][k] = "none"
  BY LastTouchIs
<1> HIDE DEF w
<1>2. /\ (w = 0 \/ u[w][k] # "none")
      /\ \A s \in (w + 1)..tip : s \in 0..tip
  BY <1>1
<1>3. \A s \in (w + 1)..tip : u[s][k] = "none"
  BY <1>1, <1>2
<1>4. LastIn(u, k, tip) = w
  BY <1>1, <1>2, <1>3, LastTouchUnique
<1> QED
  BY <1>1, <1>4 DEF OwnerIn, w

\* A slot decides the owner if it touches the key.
LEMMA OwnerInNext ==
  ASSUME NEW u, NEW k, NEW tip \in Nat
  PROVE  OwnerIn(u, k, tip + 1) =
           IF u[tip + 1][k] = "none" THEN OwnerIn(u, k, tip) ELSE OwnerAt(u[tip + 1][k])
<1>1. CASE u[tip + 1][k] = "none"
  <2> DEFINE w == LastIn(u, k, tip)
  <2>1. /\ w \in 0..tip /\ w \in Nat /\ (w = 0 \/ u[w][k] # "none")
        /\ \A s \in (w + 1)..tip : u[s][k] = "none"
    BY LastTouchIs
  <2> HIDE DEF w
  <2>2. \A s \in (w + 1)..(tip + 1) : s \in (w + 1)..tip \/ s = tip + 1
    BY <2>1
  <2>3. \A s \in (w + 1)..(tip + 1) : u[s][k] = "none"
    BY <1>1, <2>1, <2>2
  <2>4. w \in 0..(tip + 1) /\ tip + 1 \in Nat
    BY <2>1
  <2>5. LastIn(u, k, tip + 1) = w
    BY <2>1, <2>3, <2>4, LastTouchUnique
  <2> QED
    BY <1>1, <2>5 DEF OwnerIn, w
<1>2. CASE u[tip + 1][k] # "none"
  <2>1. tip + 1 \in Nat /\ tip + 1 \in 0..(tip + 1) /\ (tip + 1 + 1)..(tip + 1) = {}
    OBVIOUS
  <2>2. \A s \in (tip + 1 + 1)..(tip + 1) : u[s][k] = "none"
    BY <2>1
  <2>3. LastIn(u, k, tip + 1) = tip + 1
    BY <1>2, <2>1, <2>2, LastTouchUnique
  <2> QED
    BY <1>2, <2>3 DEF OwnerIn
<1> QED
  BY <1>1, <1>2

\* The module's LastTouch and OnChain are these operators of the history.
LEMMA LastTouchOfChain ==
  ASSUME NEW k, NEW tip
  PROVE  LastTouch(k, tip) = LastIn(update, k, tip) /\ OnChain(k, tip) = OwnerIn(update, k, tip)
  BY DEF LastTouch, OnChain, LastIn, OwnerIn, OwnerAt

\* Where a later touch under another owner ended a write: at the last touch, unless
\* the chain is back at the owner.
LEMMA LeftBehind ==
  ASSUME NEW u, NEW k, NEW tip \in Nat, NEW s \in 0..tip, NEW o \in Owners,
         u[s][k] = o, OwnerIn(u, k, tip) # o
  PROVE  /\ LastIn(u, k, tip) \in (s + 1)..tip
         /\ u[LastIn(u, k, tip)][k] \notin {"none", o}
<1> DEFINE w == LastIn(u, k, tip)
<1>1. /\ w \in 0..tip /\ w \in Nat /\ (w = 0 \/ u[w][k] # "none")
      /\ \A v \in 0..tip : v <= w \/ u[v][k] = "none"
  BY LastTouchIs
<1>2. OwnerIn(u, k, tip) = OwnerAt(u[w][k])
  BY DEF OwnerIn
<1> HIDE DEF w
<1>3. u[w][k] # o
  BY <1>2 DEF OwnerAt
<1>4. s <= w /\ s # w
  BY <1>1, <1>3, StoreAssumption
<1>5. w \in (s + 1)..tip
  BY <1>1, <1>4
<1> QED
  BY <1>1, <1>3, <1>5 DEF w

----------------------------------------------------------------------------
(* The owner map                                                           *)

\* The masks of the newest block are not written yet.
MasksPending == Busy("main") /\ "masks" \in saver["main"].todo

\* The program the owner map has for a key.
Mapped(k) == OwnerAt(owners[k].owner)

\* The map is the chain, except that the keys a block closes leave it when its masks
\* are written; until then what the block moves is in changed.
OwnerMapFollowsChain ==
  mode.map /\ ~mode.lossy =>
    /\ \A k \in Keys : owners[k].slot <= head
    /\ \A k \in Keys :
         IF MasksPending /\ k \in saver["main"].closed
           THEN Mapped(k) = OwnerIn(update, k, head - 1)
           ELSE Mapped(k) = OwnerIn(update, k, head)
    /\ MasksPending => \A k \in Keys, o \in Owners :
         OwnerIn(update, k, head - 1) = o /\ update[head][k] \notin {"none", o} =>
           k \in saver["main"].closed \/ [slot |-> head, key |-> k, owner |-> o] \in changed

\* Without the feature nothing is mapped.
NoMapUnused == ~mode.map => changed = {} /\ \A k \in Keys : owners[k] = NoEntry

\* Together.
MapInv == OwnerMapFollowsChain /\ NoMapUnused

\* An entry of the map names an indexed program.
LEMMA KnownIsMapped ==
  ASSUME StoreType, NEW k \in Keys
  PROVE  /\ Known(k) <=> owners[k].owner \in Owners
         /\ Known(k) <=> Mapped(k) # "closed"
         /\ Known(k) => Mapped(k) = owners[k].owner
         /\ owners[k].slot \in Nat
<1>1. owners[k] \in Entry /\ NoOwner \notin Owners /\ "closed" \notin Owners /\ MaxSlot \in Nat
  BY CleanupAssumption, StoreAssumption DEF StoreType
<1> QED
  BY <1>1 DEF Known, Mapped, OwnerAt, Entry, NoEntry

\* While no block is lost, a step receives a block, writes the masks of the main
\* loop's, or leaves the map, the chain and the pending masks alone.
LEMMA MapSteps ==
  ASSUME StoreType, SlotInv, ~mode.lossy, [Next]_vars
  PROVE  \/ \E b \in Blocks : LiveBlock(b)
         \/ SaveMasks("main")
         \/ /\ UNCHANGED <<mode, owners, changed, update, head>>
            /\ saver'["main"].busy /\ "masks" \in saver'["main"].todo <=> MasksPending
            /\ MasksPending => saver'["main"].closed = saver["main"].closed
<1>0. /\ SlotOrder /\ missed = {} /\ saver \in [Tasks -> Saving] /\ Tasks = {"main", "fill"}
  BY StoreFacts DEF SlotInv, NothingMissed
<1>f. ~saver["fill"].busy /\ saver["fill"] = Idle
  BY <1>0 DEF SlotOrder, Busy, Gaps
<1>1. ASSUME NEW b \in Blocks, LostBlock(b) PROVE FALSE
  BY <1>1 DEF LostBlock
<1>2. ASSUME NEW g \in Slots, RepairBlock(g) \/ GapSlotEmpty(g) PROVE FALSE
  BY <1>0, <1>2 DEF RepairBlock, GapSlotEmpty, Gaps
<1>3. ~SaveMasks("fill") /\ ~SaveRows("fill") /\ ~SaveConfirm("fill")
  BY <1>f DEF SaveMasks, SaveRows, SaveConfirm, Idle
<1> DEFINE Same == /\ UNCHANGED <<mode, owners, changed, update, head>>
                   /\ saver'["main"].busy /\ "masks" \in saver'["main"].todo <=> MasksPending
                   /\ MasksPending => saver'["main"].closed = saver["main"].closed
<1>4. CASE SaveRows("main")
  <2>1. UNCHANGED <<mode, owners, changed, update, head>>
    BY <1>4 DEF SaveRows
  <2>2. /\ saver'["main"].busy = saver["main"].busy
        /\ saver'["main"].closed = saver["main"].closed
    BY <1>0, <1>4, WritingTask
  <2>3. "masks" \in saver'["main"].todo <=> "masks" \in saver["main"].todo
    BY <1>0, <1>4 DEF SaveRows
  <2> QED
    BY <2>1, <2>2, <2>3 DEF MasksPending, Busy
<1>5. CASE SaveConfirm("main")
  <2>1. UNCHANGED <<mode, owners, changed, update, head>> /\ saver["main"].todo = {}
    BY <1>5 DEF SaveConfirm
  <2>2. saver'["main"] = Idle
    BY <1>0, <1>5 DEF SaveConfirm
  <2> QED
    BY <2>1, <2>2 DEF MasksPending, Busy, Idle
<1>6. ASSUME NEW s \in Slots, FinalizeSlot(s) PROVE Same
  BY <1>6 DEF FinalizeSlot, MasksPending, Busy
<1>7. CASE ApiLearns \/ UNCHANGED vars
  BY <1>7 DEF ApiLearns, MasksPending, Busy
<1>8. CASE DrainStep
  BY <1>8, DrainerType DEF DrainStep, MasksPending, Busy
<1> QED
  BY <1>1, <1>2, <1>3, <1>4, <1>5, <1>6, <1>7, <1>8 DEF Next

\* The owner map is seeded from the snapshot.
LEMMA MapInit == Init => MapInv
<1> SUFFICES ASSUME Init PROVE MapInv
  OBVIOUS
<1>1. PICK first \in [Keys -> mode.updates \cap (Owners \cup {"none"})] :
        /\ update = [s \in 0..MaxSlot |-> IF s = 0 THEN first ELSE NoUpdate]
        /\ owners = [k \in Keys |-> IF mode.map /\ first[k] \in Owners
                                      THEN [owner |-> first[k], slot |-> 0]
                                      ELSE NoEntry]
  BY DEF Init
<1>2. NoMapUnused
  BY <1>1 DEF NoMapUnused, Init
<1>3. OwnerMapFollowsChain
  <2> SUFFICES ASSUME mode.map PROVE OwnerMapFollowsChain
    BY DEF OwnerMapFollowsChain
  <2>1. ~MasksPending /\ head = 0
    BY DEF Init, MasksPending, Busy, Idle
  <2>2. ASSUME NEW k \in Keys
        PROVE  owners[k].slot <= head /\ Mapped(k) = OwnerIn(update, k, head)
    <3>1. update[0] = first /\ NoOwner \notin Owners
      BY <1>1, CleanupAssumption
    <3>2. LastIn(update, k, 0) \in 0..0
      BY LastTouchIs
    <3>3. LastIn(update, k, 0) = 0
      BY <3>2
    <3>4. OwnerIn(update, k, 0) = OwnerAt(first[k])
      BY <3>1, <3>3 DEF OwnerIn
    <3>5. CASE first[k] \in Owners
      BY <1>1, <2>1, <3>4, <3>5 DEF Mapped
    <3>6. CASE first[k] \notin Owners
      BY <1>1, <2>1, <3>1, <3>4, <3>6 DEF Mapped, OwnerAt, NoEntry
    <3> QED
      BY <3>5, <3>6
  <2> QED
    BY <2>1, <2>2 DEF OwnerMapFollowsChain
<1> QED
  BY <1>2, <1>3 DEF MapInv

\* Without the feature the map stays empty.
LEMMA NoMapUnusedStep ==
  ASSUME StoreType, SlotOrder, NoMapUnused, [Next]_vars
  PROVE  NoMapUnused'
<1>m. mode' = mode
  BY NextMode
<1> SUFFICES ASSUME ~mode.map PROVE changed' = {} /\ \A k \in Keys : owners'[k] = NoEntry
  BY <1>m DEF NoMapUnused, NoEntry
<1>1. changed = {} /\ owners \in [Keys -> Entry] /\ \A k \in Keys : owners[k] = NoEntry
  BY StoreFacts DEF NoMapUnused
<1>2. ASSUME NEW t \in Tasks, NEW s \in Slots, NEW b, SaveStart(t, s, b, AllWork)
      PROVE  changed' = {} /\ \A k \in Keys : owners'[k] = NoEntry
  <2>1. owners' = Upsert(b, s) /\ changed' = changed \cup ChangedBy(b, s)
    BY <1>2, SaveStarted
  <2>2. ChangedBy(b, s) = {}
    BY <1>1 DEF ChangedBy, OwnerMoved, Known
  <2> QED
    BY <1>1, <2>1, <2>2 DEF Upsert
<1>3. ASSUME NEW b \in Blocks, LiveBlock(b) PROVE changed' = {} /\ \A k \in Keys : owners'[k] = NoEntry
  BY <1>2, <1>3, LiveFollows DEF Tasks
<1>4. ASSUME NEW g \in Slots, RepairBlock(g) PROVE changed' = {} /\ \A k \in Keys : owners'[k] = NoEntry
  BY <1>2, <1>4, RepairFollows DEF Tasks
<1>5. ASSUME NEW t \in Tasks, SaveMasks(t) PROVE changed' = {} /\ \A k \in Keys : owners'[k] = NoEntry
  BY <1>1, <1>5 DEF SaveMasks
<1>6. CASE UNCHANGED <<owners, changed>>
  BY <1>1, <1>6
<1> QED
  BY <1>3, <1>4, <1>5, <1>6 DEF Next, LostBlock, GapSlotEmpty, SaveRows, SaveConfirm,
       FinalizeSlot, ApiLearns, DrainStep, Tasks

\* What a received block does to the map.
LEMMA UpsertMaps ==
  ASSUME StoreType, mode.map, NEW s \in Slots, NEW b \in [Keys -> AllUpdates], NEW k \in Keys,
         owners[k].slot < s
  PROVE  /\ Upsert(b, s)[k].slot <= s
         /\ OwnerAt(Upsert(b, s)[k].owner) = IF b[k] \in Owners THEN b[k] ELSE Mapped(k)
         /\ k \in ClosedBy(b, s) <=> b[k] = "closed" \/ (b[k] = "other" /\ Mapped(k) # "closed")
         /\ \A o \in Owners : Mapped(k) = o /\ b[k] \in Owners /\ b[k] # o =>
              [slot |-> s, key |-> k, owner |-> o] \in ChangedBy(b, s)
<1>0. /\ s \in Nat /\ owners[k].slot \in Nat /\ Owners \cap {"none", "other", "closed"} = {}
      /\ Known(k) <=> owners[k].owner \in Owners
      /\ Known(k) <=> Mapped(k) # "closed"
      /\ Known(k) => Mapped(k) = owners[k].owner
  BY StoreFacts, KnownIsMapped, StoreAssumption
<1>1. \A x : OwnerMoved(k, x, s) <=> Known(k) /\ owners[k].owner # x
  BY DEF OwnerMoved
<1>2. Upsert(b, s)[k] = IF b[k] \in Owners /\ (~Known(k) \/ owners[k].owner # b[k])
                          THEN [owner |-> b[k], slot |-> s] ELSE owners[k]
  BY <1>1 DEF Upsert
<1>3. Upsert(b, s)[k].slot <= s
  BY <1>0, <1>2
<1>4. OwnerAt(Upsert(b, s)[k].owner) = IF b[k] \in Owners THEN b[k] ELSE Mapped(k)
  BY <1>0, <1>2 DEF OwnerAt, Mapped
<1>5. k \in ClosedBy(b, s) <=> b[k] = "closed" \/ (b[k] = "other" /\ Mapped(k) # "closed")
  BY <1>0, <1>1 DEF ClosedBy
<1>6. ASSUME NEW o \in Owners, Mapped(k) = o, b[k] \in Owners, b[k] # o
      PROVE  [slot |-> s, key |-> k, owner |-> o] \in ChangedBy(b, s)
  <2>1. Known(k) /\ owners[k].owner = o
    BY <1>0, <1>6
  <2> QED
    BY <1>1, <1>6, <2>1 DEF ChangedBy
<1> QED
  BY <1>3, <1>4, <1>5, <1>6

\* upsert_account and the removal of closed keys keep the map the chain's owners.
LEMMA OwnerMapStep ==
  ASSUME StoreType, SlotInv, HistoryInv, OwnerMapFollowsChain, [Next]_vars
  PROVE  OwnerMapFollowsChain'
<1>m. mode' = mode
  BY NextMode
<1> SUFFICES ASSUME mode.map, ~mode.lossy PROVE OwnerMapFollowsChain'
  BY <1>m DEF OwnerMapFollowsChain
<1>0. /\ head \in Nat /\ owners \in [Keys -> Entry] /\ saver \in [Tasks -> Saving]
      /\ "main" \in Tasks /\ SlotOrder /\ lastSlot = head /\ update \in [0..MaxSlot -> [Keys -> AllUpdates]]
      /\ NoOwner \notin Owners
  BY StoreFacts, CleanupAssumption DEF SlotInv, NothingMissed, Tasks
<1>1. /\ \A k \in Keys : owners[k].slot <= head
      /\ \A k \in Keys :
           IF MasksPending /\ k \in saver["main"].closed
             THEN Mapped(k) = OwnerIn(update, k, head - 1)
             ELSE Mapped(k) = OwnerIn(update, k, head)
      /\ MasksPending => \A k \in Keys, o \in Owners :
           OwnerIn(update, k, head - 1) = o /\ update[head][k] \notin {"none", o} =>
             k \in saver["main"].closed \/ [slot |-> head, key |-> k, owner |-> o] \in changed
  BY DEF OwnerMapFollowsChain
<1> DEFINE Pending == saver'["main"].busy /\ "masks" \in saver'["main"].todo
           Done ==
             /\ \A k \in Keys : owners'[k].slot <= head'
             /\ \A k \in Keys :
                  OwnerAt(owners'[k].owner) = OwnerIn(update', k,
                    IF Pending /\ k \in saver'["main"].closed THEN head' - 1 ELSE head')
             /\ Pending => \A k \in Keys, o \in Owners :
                  OwnerIn(update', k, head' - 1) = o /\ update'[head'][k] \notin {"none", o} =>
                    \/ k \in saver'["main"].closed
                    \/ [slot |-> head', key |-> k, owner |-> o] \in changed'
<1>2. SUFFICES Done
  BY DEF OwnerMapFollowsChain, MasksPending, Busy, Mapped
<1>3. ASSUME NEW b \in Blocks, LiveBlock(b) PROVE Done
  <2>1. PICK s \in Slots :
          /\ s = head + 1 /\ head' = s /\ b \in [Keys -> AllUpdates]
          /\ update'[s] = b /\ SaveStart("main", s, b, AllWork)
    BY <1>3, LiveFollows
  <2>2. /\ ~Busy("main") /\ Pending /\ saver'["main"].closed = ClosedBy(b, s)
        /\ owners' = Upsert(b, s) /\ changed' = changed \cup ChangedBy(b, s)
    BY <1>0, <2>1, SaveStarted DEF AllWork
  <2>3. \A v \in 0..head : update'[v] = update[v]
    BY <1>0, ChainGrows
  <2>4. s - 1 = head
    BY <1>0, <2>1
  <2>5. ASSUME NEW k \in Keys
        PROVE  /\ owners'[k].slot <= s
               /\ OwnerAt(owners'[k].owner) = OwnerIn(update', k,
                    IF Pending /\ k \in saver'["main"].closed THEN s - 1 ELSE s)
               /\ \A o \in Owners :
                    OwnerIn(update', k, s - 1) = o /\ update'[s][k] \notin {"none", o} =>
                      \/ k \in saver'["main"].closed
                      \/ [slot |-> s, key |-> k, owner |-> o] \in changed'
    <3>1. Mapped(k) = OwnerIn(update, k, head)
      BY <1>1, <2>2 DEF MasksPending
    <3>2. OwnerIn(update', k, head) = Mapped(k)
      BY <1>0, <2>3, <3>1, OwnerInSame
    <3>3. OwnerIn(update', k, s) = IF b[k] = "none" THEN Mapped(k) ELSE OwnerAt(b[k])
      <4>1. OwnerIn(update', k, head + 1) =
              IF update'[head + 1][k] = "none" THEN OwnerIn(update', k, head)
              ELSE OwnerAt(update'[head + 1][k])
        BY <1>0, OwnerInNext
      <4> QED
        BY <2>1, <3>2, <4>1
    <3>4. /\ Upsert(b, s)[k].slot <= s
          /\ OwnerAt(Upsert(b, s)[k].owner) = IF b[k] \in Owners THEN b[k] ELSE Mapped(k)
          /\ k \in ClosedBy(b, s) <=> b[k] = "closed" \/ (b[k] = "other" /\ Mapped(k) # "closed")
          /\ \A o \in Owners : Mapped(k) = o /\ b[k] \in Owners /\ b[k] # o =>
              [slot |-> s, key |-> k, owner |-> o] \in ChangedBy(b, s)
      <4>1. owners[k].slot < s
        BY <1>0, <1>1, <2>1, KnownIsMapped
      <4> QED
        BY <2>1, <4>1, UpsertMaps
    <3>5. b[k] \in Owners \cup {"none", "other", "closed"}
          /\ Owners \cap {"none", "other", "closed"} = {}
      BY <2>1, StoreAssumption DEF AllUpdates
    <3>6. OwnerAt(owners'[k].owner) = OwnerIn(update', k,
                    IF k \in ClosedBy(b, s) THEN head ELSE s)
      BY <2>2, <3>2, <3>3, <3>4, <3>5 DEF OwnerAt
    <3>7. ASSUME NEW o \in Owners, OwnerIn(update', k, head) = o, b[k] \notin {"none", o}
          PROVE  k \in ClosedBy(b, s) \/ [slot |-> s, key |-> k, owner |-> o] \in changed'
      BY <2>2, <3>2, <3>4, <3>5, <3>7
    <3> QED
      BY <2>1, <2>2, <2>4, <3>4, <3>6, <3>7
  <2> QED
    BY <2>1, <2>5
<1>4. CASE SaveMasks("main")
  <2>0. /\ UNCHANGED <<update, head>> /\ "masks" \in saver["main"].todo
        /\ owners' = [k \in Keys |-> IF k \in saver["main"].closed THEN NoEntry ELSE owners[k]]
        /\ saver' = [saver EXCEPT !["main"].todo = @ \ {"masks"}]
    BY <1>4 DEF SaveMasks
  <2>a. saver["main"].busy
    BY <1>0, <1>4, WritingTask
  <2>b. ~Pending
    BY <1>0, <2>0
  <2>1. /\ UNCHANGED <<update, head>> /\ "masks" \in saver["main"].todo /\ saver["main"].busy
        /\ ~Pending
        /\ owners' = [k \in Keys |-> IF k \in saver["main"].closed THEN NoEntry ELSE owners[k]]
    BY <2>0, <2>a, <2>b
  <2>2. MasksPending /\ saver["main"].slot = head /\ head # 0 /\ head - 1 \in Nat /\ (head - 1) + 1 = head
    BY <1>0, <2>1, BusySlots DEF MasksPending, Busy, SlotOrder
  <2>3. ASSUME NEW k \in Keys
        PROVE owners'[k].slot <= head' /\ OwnerAt(owners'[k].owner) = OwnerIn(update', k, head')
    <3>1. CASE k \in saver["main"].closed
      <4>1. update[head][k] \in Gone
        BY <1>0, <2>2, <3>1 DEF HistoryInv, SaverFollowsChain, MasksPending
      <4>2. OwnerIn(update, k, head) = OwnerAt(update[head][k])
        <5>1. update[head][k] # "none"
          BY <4>1 DEF Gone
        <5> QED
          BY <2>2, <5>1, OwnerInNext
      <4>3. OwnerAt(update[head][k]) = "closed"
        BY <4>1, StoreAssumption DEF OwnerAt, Gone
      <4>4. OwnerAt(NoEntry.owner) = "closed" /\ NoEntry.slot = 0
        BY <1>0 DEF OwnerAt, NoEntry
      <4> QED
        BY <1>0, <2>1, <3>1, <4>2, <4>3, <4>4
    <3>2. CASE k \notin saver["main"].closed
      BY <1>1, <2>1, <3>2 DEF Mapped
    <3> QED
      BY <3>1, <3>2
  <2> QED
    BY <2>1, <2>3
<1>5. CASE /\ UNCHANGED <<mode, owners, changed, update, head>>
           /\ Pending <=> MasksPending
           /\ MasksPending => saver'["main"].closed = saver["main"].closed
  BY <1>1, <1>5 DEF Mapped
<1> QED
  BY <1>3, <1>4, <1>5, MapSteps

----------------------------------------------------------------------------
(* Masks                                                                   *)

\* Without the map a deployment's rows are of the programs its blocks write under.
RowOwnersInUse == ~mode.map => \A r \in accounts \cup snapshot : r.owner \in mode.updates

\* The last slot whose masks are written, while no block is lost.
Masked == IF MasksPending THEN head - 1 ELSE head

\* An open row whose key the chain ended under the row's owner has a younger mask.
LeaversMasked ==
  Complete =>
    \A r \in accounts \cup snapshot : r.open =>
      \A v \in (r.slot + 1)..Masked : update[v][r.key] \notin {"none", r.owner} =>
        \E q \in accounts : /\ q.key = r.key /\ q.owner = r.owner /\ ~q.open
                            /\ r.slot < q.slot /\ q.slot <= v

\* Together.
MaskInv == RowOwnersInUse /\ LeaversMasked

\* At the start every row is the newest of its key.
LEMMA MaskInit == Init => MaskInv
<1> SUFFICES ASSUME Init PROVE MaskInv
  OBVIOUS
<1>1. PICK first \in [Keys -> mode.updates \cap (Owners \cup {"none"})] :
        /\ CleanupInit({[key |-> k, owner |-> first[k], slot |-> 0, open |-> TRUE] :
                         k \in {j \in Keys : first[j] \in Owners}})
  BY DEF Init
<1>2. ASSUME NEW r \in accounts \cup snapshot PROVE r.slot = 0 /\ r.owner \in mode.updates
  <2>1. PICK k \in Keys : r = [key |-> k, owner |-> first[k], slot |-> 0, open |-> TRUE]
    BY <1>1 DEF CleanupInit
  <2> QED
    BY <1>1, <2>1
<1>3. Masked = 0
  BY DEF Init, Masked, MasksPending, Busy, Idle
<1> QED
  BY <1>2, <1>3 DEF MaskInv, RowOwnersInUse, LeaversMasked

\* Without the map a mask is written under the owner of a row of its key.
LEMMA ScannedOwner ==
  ASSUME StoreType, NEW t \in Tasks, NEW m \in MaskByScan(saver[t].closed, saver[t].slot),
         NEW r \in m
  PROVE  \E n \in accounts \cup snapshot : n.key = r.key /\ n.owner = r.owner
<1>1. r.key \in saver[t].closed
  BY ScannedMask
<1> QED
  BY <1>1 DEF MaskByScan

\* Rows and masks are of programs some block writes under.
LEMMA RowOwnersInUseStep ==
  ASSUME StoreType, SlotOrder, HistoryInv, RowOwnersInUse, [Next]_vars
  PROVE  RowOwnersInUse'
<1>m. mode' = mode
  BY NextMode
<1> SUFFICES ASSUME ~mode.map, NEW r \in (accounts \cup snapshot)' PROVE r.owner \in mode.updates
  BY <1>m DEF RowOwnersInUse
<1>0. \A n \in accounts \cup snapshot : n.owner \in mode.updates
  BY DEF RowOwnersInUse
<1>1. CASE r \notin accounts \cup snapshot
  <2>1. PICK t \in Tasks :
           /\ Busy(t) /\ r.slot = saver[t].slot
           /\ \/ SaveRows(t) /\ r \in OpenRows(t)
              \/ SaveMasks(t) /\ mode.map /\ r \in RoutedMasks(t)
              \/ /\ SaveMasks(t) /\ ~mode.map
                 /\ \E m \in MaskByScan(saver[t].closed, saver[t].slot) : r \in m
    BY <1>1, RowsWritten
  <2>2. CASE r \in OpenRows(t)
    <3>1. PICK o \in saver[t].open :
            r = [key |-> o.key, owner |-> o.owner, slot |-> saver[t].slot, open |-> TRUE]
      BY <2>2 DEF OpenRows
    <3>2. update[saver[t].slot][o.key] = o.owner /\ o \in KeyOwner
      BY <2>1, StoreFacts DEF HistoryInv, SaverFollowsChain, Saving
    <3>3. saver[t].slot \in 0..MaxSlot /\ o.key \in Keys
      BY <3>2, StoreFacts DEF Saving, KeyOwner
    <3>4. update \in [0..MaxSlot -> [Keys -> mode.updates]]
      BY DEF StoreType, TypeOK, Blocks
    <3> QED
      BY <3>1, <3>2, <3>3, <3>4
  <2>3. CASE \E m \in MaskByScan(saver[t].closed, saver[t].slot) : r \in m
    BY <1>0, <2>3, ScannedOwner
  <2> QED
    BY <2>1, <2>2, <2>3
<1> QED
  BY <1>0, <1>1

\* A closed key with a row gets a mask under that row's owner when there is only one.
LEMMA ScanMasks ==
  ASSUME StoreType, NEW t \in Tasks, NEW m \in MaskByScan(saver[t].closed, saver[t].slot),
         NEW r \in accounts \cup snapshot, r.key \in saver[t].closed,
         \A n \in accounts \cup snapshot : n.owner = r.owner
  PROVE  \E q \in m : q.key = r.key /\ q.owner = r.owner /\ ~q.open /\ q.slot = saver[t].slot
<1> DEFINE rows == {n \in accounts \cup snapshot : n.key = r.key}
           own == {q \in m : q.key = r.key}
<1>1. rows # {}
  OBVIOUS
<1>2. Cardinality(own) = IF rows = {} THEN 0 ELSE 1
  BY DEF MaskByScan
<1>3. own # {}
  <2>1. \A S : S = {} => Cardinality(S) = 0
    BY FS_EmptySet
  <2>2. Cardinality(own) = 1
    BY <1>1, <1>2
  <2>3. own = {} => Cardinality(own) = 0
    BY <2>1
  <2> QED
    BY <2>2, <2>3
<1>4. PICK q \in m : q.key = r.key
  BY <1>3
<1>5. \E n \in accounts \cup snapshot : n.key = q.key /\ n.owner = q.owner
  BY <1>4, ScannedOwner
<1>6. q = [key |-> q.key, owner |-> q.owner, slot |-> saver[t].slot, open |-> FALSE]
  BY <1>4, ScannedMask
<1>7. q.open = FALSE /\ q.slot = saver[t].slot
  BY <1>6
<1> QED
  BY <1>4, <1>5, <1>7

\* The masks of the main loop's block are those of the keys it ends under an owner.
LEMMA LeaverGetsMask ==
  ASSUME StoreType, SlotInv, HistoryInv, CurrentInv, MapInv, MaskInv, Complete, SaveMasks("main"),
         NEW r \in accounts \cup snapshot, r.open, r.slot < head,
         update[head][r.key] \notin {"none", r.owner}
  PROVE  \E q \in accounts' : /\ q.key = r.key /\ q.owner = r.owner /\ ~q.open
                              /\ r.slot < q.slot /\ q.slot <= head
<1>0. /\ SlotOrder /\ lastSlot = head /\ ~mode.lossy /\ ~mode.maskFails /\ "main" \in Tasks
      /\ head \in Nat /\ r \in Row /\ update \in [0..MaxSlot -> [Keys -> AllUpdates]]
      /\ head \in 0..MaxSlot /\ finalTip \in Nat /\ finalTip <= head
  BY StoreFacts DEF SlotInv, SlotOrder, NothingMissed, Complete, Tasks
<1>1. /\ r.slot \in Nat /\ r.slot \in 0..head /\ r.slot \in 0..(head - 1) /\ r.key \in Keys
      /\ r.owner \in Owners /\ head - 1 \in Nat
  <2>1. r.slot \in Nat /\ r.key \in Keys /\ r.owner \in Owners
    BY <1>0 DEF Row
  <2> QED
    BY <1>0, <2>1
<1>2. "masks" \in saver["main"].todo /\ saver["main"].busy
  BY <1>0, WritingTask DEF SaveMasks
<1>3. MasksPending /\ saver["main"].slot = head
  BY <1>0, <1>2, BusySlots DEF MasksPending, Busy
<1>4. /\ accounts \subseteq accounts'
      /\ mode.map => RoutedMasks("main") \subseteq accounts'
      /\ ~mode.map => \E m \in MaskByScan(saver["main"].closed, saver["main"].slot) : m \subseteq accounts'
  BY <1>0, MasksComplete
<1>5. update[head][r.key] = "closed" => r.key \in saver["main"].closed
  <2>1. (head + 1)..Horizon = {}
    BY <1>0 DEF Horizon
  <2>2. Current(r.key, head)
    BY <2>1 DEF Current
  <2> QED
    BY <1>0, <1>1, <1>3, <2>2 DEF CurrentInv, SaverHasCurrent, MasksPending
<1>6. CASE ~mode.map
  <2>1. PICK o \in Owners : mode.updates \subseteq {"none", "closed", o}
    BY <1>6 DEF Complete
  <2>2. \A n \in accounts \cup snapshot : n.owner = o
    <3>1. \A n \in accounts \cup snapshot : n.owner \in mode.updates /\ n \in Row
      BY <1>6, StoreFacts DEF MaskInv, RowOwnersInUse
    <3>2. \A n \in Row : n.owner \in Owners
      BY DEF Row
    <3> QED
      BY <2>1, <3>1, <3>2, StoreAssumption
  <2>3. update[head][r.key] = "closed"
    <3>1. update \in [0..MaxSlot -> [Keys -> mode.updates]]
      BY DEF StoreType, TypeOK, Blocks
    <3>2. update[head][r.key] \in mode.updates
      BY <1>0, <1>1, <3>1
    <3> QED
      BY <2>1, <2>2, <3>2
  <2>4. PICK m \in MaskByScan(saver["main"].closed, saver["main"].slot) : m \subseteq accounts'
    BY <1>4, <1>6
  <2>5. \E q \in m : q.key = r.key /\ q.owner = r.owner /\ ~q.open /\ q.slot = saver["main"].slot
    BY <1>0, <1>5, <2>2, <2>3, ScanMasks
  <2> QED
    BY <1>0, <1>3, <2>4, <2>5
<1>7. CASE mode.map
  <2>1. CASE OwnerIn(update, r.key, head - 1) = r.owner
    <3> DEFINE q == [key |-> r.key, owner |-> r.owner, slot |-> head, open |-> FALSE]
    <3>1. q \in RoutedMasks("main")
      <4>1. CASE r.key \in saver["main"].closed
        <5>1. Mapped(r.key) = r.owner
          BY <1>0, <1>1, <1>3, <1>7, <2>1, <4>1 DEF MapInv, OwnerMapFollowsChain
        <5>2. Known(r.key) /\ owners[r.key].owner = r.owner
          BY <1>1, <5>1, KnownIsMapped, StoreAssumption
        <5> QED
          BY <1>3, <4>1, <5>2 DEF RoutedMasks
      <4>2. CASE r.key \notin saver["main"].closed
        <5>1. [slot |-> head, key |-> r.key, owner |-> r.owner] \in changed
          BY <1>0, <1>1, <1>3, <1>7, <2>1, <4>2 DEF MapInv, OwnerMapFollowsChain
        <5>2. \A c : c \in changed /\ c.slot = saver["main"].slot =>
                [key |-> c.key, owner |-> c.owner, slot |-> saver["main"].slot, open |-> FALSE]
                  \in RoutedMasks("main")
          BY DEF RoutedMasks
        <5> DEFINE c == [slot |-> head, key |-> r.key, owner |-> r.owner]
        <5>3. c.slot = head /\ c.key = r.key /\ c.owner = r.owner
          OBVIOUS
        <5> HIDE DEF c
        <5>4. c \in changed
          BY <5>1 DEF c
        <5> QED
          BY <1>3, <5>2, <5>3, <5>4
      <4> QED
        BY <4>1, <4>2
    <3>2. q \in accounts'
      BY <1>4, <1>7, <3>1
    <3>3. q.key = r.key /\ q.owner = r.owner /\ ~q.open /\ q.slot = head
      OBVIOUS
    <3> HIDE DEF q
    <3> QED
      BY <1>0, <3>2, <3>3
  <2>2. CASE OwnerIn(update, r.key, head - 1) # r.owner
    <3> DEFINE w == LastIn(update, r.key, head - 1)
    <3>1. update[r.slot][r.key] = r.owner
      BY DEF HistoryInv, RowsFollowChain, RowFollowsChain
    <3>2. w \in (r.slot + 1)..(head - 1) /\ update[w][r.key] \notin {"none", r.owner}
      BY <1>1, <2>2, <3>1, LeftBehind
    <3> HIDE DEF w
    <3>3. Masked = head - 1
      BY <1>3 DEF Masked
    <3>4. PICK q \in accounts : /\ q.key = r.key /\ q.owner = r.owner /\ ~q.open
                                /\ r.slot < q.slot /\ q.slot <= w
      BY <3>2, <3>3 DEF MaskInv, LeaversMasked
    <3>5. w \in Nat /\ w <= head
      BY <1>0, <1>1, <3>2
    <3>6. q.slot \in Nat
      <4>1. q \in Row
        BY StoreFacts
      <4> QED
        BY <4>1 DEF Row
    <3>7. q.slot <= head
      BY <1>0, <3>4, <3>5, <3>6
    <3> QED
      BY <1>4, <3>4, <3>7
  <2> QED
    BY <2>1, <2>2
<1> QED
  BY <1>6, <1>7

\* Every key that leaves a program gets its mask there before it is seen gone, and a
\* drain never deletes the mask before the rows it hides (persist.rs 6-23).
LEMMA LeaversMaskedStep ==
  ASSUME StoreType, SlotInv, HistoryInv, DrainInv, CurrentInv, MapInv, MaskInv, [Next]_vars
  PROVE  LeaversMasked'
<1>m. mode' = mode
  BY NextMode
<1> SUFFICES ASSUME Complete, NEW r \in accounts' \cup snapshot', r.open,
                    NEW v \in (r.slot + 1)..Masked', update'[v][r.key] \notin {"none", r.owner}
             PROVE  \E q \in accounts' : /\ q.key = r.key /\ q.owner = r.owner /\ ~q.open
                                         /\ r.slot < q.slot /\ q.slot <= v
  BY <1>m DEF LeaversMasked, Complete
<1>0. /\ SlotOrder /\ lastSlot = head /\ ~mode.lossy /\ "main" \in Tasks /\ saver \in [Tasks -> Saving]
      /\ head \in Nat /\ head' \in Nat /\ head <= head'
      /\ \A s \in 0..head : update'[s] = update[s]
  BY StoreFacts, ChainGrows DEF SlotInv, NothingMissed, Complete, Tasks
\* Rows that were there.
<1>1. ASSUME r \in accounts \cup snapshot, v \in (r.slot + 1)..Masked
      PROVE  \E q \in accounts' : /\ q.key = r.key /\ q.owner = r.owner /\ ~q.open
                                  /\ r.slot < q.slot /\ q.slot <= v
  <2>1. r \in Row
    BY <1>1, StoreFacts
  <2>2. r.slot \in Nat /\ Masked <= head /\ Masked \in Int
    BY <1>0, <2>1 DEF Row, Masked
  <2>3. v \in 0..head
    BY <1>0, <1>1, <2>2
  <2>4. PICK q \in accounts : /\ q.key = r.key /\ q.owner = r.owner /\ ~q.open
                              /\ r.slot < q.slot /\ q.slot <= v
    BY <1>0, <1>1, <2>3 DEF MaskInv, LeaversMasked
  <2>5. q \in accounts'
    <3>1. CASE DrainerStep
      <4>1. q \in accounts' \/ q.slot < r.slot
        BY <2>4, <3>1, DrainDeletes
      <4>2. q \in Row
        BY StoreFacts
      <4>3. q.slot \in Nat
        BY <4>2 DEF Row
      <4> QED
        BY <2>2, <2>4, <4>1, <4>3
    <3>2. CASE ~DrainerStep
      BY <3>2, RowsKept
    <3> QED
      BY <3>1, <3>2
  <2> QED
    BY <2>4, <2>5
<1> DEFINE Pending == saver'["main"].busy /\ "masks" \in saver'["main"].todo
<1>2. Masked' = IF Pending THEN head' - 1 ELSE head'
  BY DEF Masked, MasksPending, Busy
<1>3. CASE \E b \in Blocks : LiveBlock(b)
  <2>1. PICK b \in Blocks : LiveBlock(b)
    BY <1>3
  <2>2. head' = head + 1 /\ head' \in Slots /\ SaveStart("main", head', b, AllWork)
    BY <2>1, LiveFollows
  <2>3. ~Busy("main") /\ Pending
    BY <1>0, <2>2, SaveStarted DEF AllWork
  <2>4. Masked' = head /\ Masked = head
    BY <1>0, <1>2, <2>2, <2>3 DEF Masked, MasksPending
  <2>5. UNCHANGED <<accounts, snapshot>>
    BY <2>1 DEF LiveBlock
  <2> QED
    BY <1>1, <2>4, <2>5
<1>4. CASE SaveMasks("main")
  <2>1. head' = head /\ snapshot' = snapshot /\ update' = update
    BY <1>4 DEF SaveMasks
  <2>2. "masks" \in saver["main"].todo /\ saver["main"].busy
    BY <1>0, <1>4, WritingTask DEF SaveMasks
  <2>3. saver["main"].slot = head
    BY <1>0, <2>2, BusySlots DEF Busy
  <2>4. Masked' = head /\ Masked = head - 1
    <3>1. ~("masks" \in saver'["main"].todo)
      BY <1>0, <1>4 DEF SaveMasks
    <3> QED
      BY <1>2, <2>1, <2>2, <3>1 DEF Masked, MasksPending, Busy
  <2>5. r \in accounts \cup snapshot
    <3> SUFFICES ASSUME r \in accounts', r \notin accounts PROVE FALSE
      BY <2>1
    <3>1. \/ r \in RoutedMasks("main")
          \/ \E m \in MaskByScan(saver["main"].closed, saver["main"].slot) : r \in m
      BY <1>4, MasksInserted
    <3>2. CASE r \in RoutedMasks("main")
      BY <3>2 DEF RoutedMasks
    <3>3. CASE \E m \in MaskByScan(saver["main"].closed, saver["main"].slot) : r \in m
      <4>1. r = [key |-> r.key, owner |-> r.owner, slot |-> saver["main"].slot, open |-> FALSE]
        BY <3>3, ScannedMask
      <4>2. r.open = FALSE
        BY <4>1
      <4> QED
        BY <4>2
    <3> QED
      BY <3>1, <3>2, <3>3
  <2>6. r.slot \in Nat
    <3>1. r \in Row
      BY <2>5, StoreFacts
    <3> QED
      BY <3>1 DEF Row
  <2>7. CASE v = head
    BY <1>0, <1>4, <2>1, <2>5, <2>6, <2>7, LeaverGetsMask
  <2>8. CASE v # head
    BY <1>0, <1>1, <2>4, <2>5, <2>6, <2>8
  <2> QED
    BY <2>7, <2>8
<1>5. CASE /\ UNCHANGED <<mode, owners, changed, update, head>>
           /\ Pending <=> MasksPending
  <2>1. Masked' = Masked /\ Masked <= head /\ Masked \in Int
    BY <1>0, <1>2, <1>5 DEF Masked
  <2>2. CASE r \in accounts \cup snapshot
    BY <1>1, <2>1, <2>2
  <2>3. CASE r \notin accounts \cup snapshot
    <3>1. PICK t \in Tasks : Busy(t) /\ r.slot = saver[t].slot
      BY <1>0, <2>3, RowsWritten
    <3>2. t = "main"
      BY <1>0, <3>1, BusySlots DEF SlotInv, NothingMissed, Complete, Tasks
    <3>3. r.slot = head
      BY <1>0, <3>1, <3>2, BusySlots
    <3> QED
      BY <1>0, <2>1, <3>3
  <2> QED
    BY <2>2, <2>3
<1> QED
  BY <1>0, <1>3, <1>4, <1>5, MapSteps

----------------------------------------------------------------------------
(* Reads                                                                   *)

\* The inductive invariant of the reads.
ReadsInv ==
  /\ StoreType /\ SlotInv /\ HistoryInv /\ DrainInv /\ CurrentInv /\ MapInv /\ MaskInv

\* The invariant of the reads holds at the start.
LEMMA ReadsInit == Init => ReadsInv
  BY InitType, SlotInit, HistoryInit, DrainInvInit, CurrentInit, MapInit, MaskInit DEF ReadsInv

\* It is kept by every step.
LEMMA ReadsStep == ReadsInv /\ [Next]_vars => ReadsInv'
<1> SUFFICES ASSUME ReadsInv, [Next]_vars PROVE ReadsInv'
  OBVIOUS
<1>1. /\ StoreType /\ SlotInv /\ HistoryInv /\ DrainInv /\ CurrentInv /\ MapInv /\ MaskInv
      /\ SlotOrder /\ FinalizedDone /\ SaverHasCurrent /\ NoMapUnused /\ OwnerMapFollowsChain
      /\ RowOwnersInUse /\ UnsavedFailed
  BY DEF ReadsInv, SlotInv, CurrentInv, MapInv, MaskInv
<1>2. StoreType' /\ SlotInv'
  BY <1>1, NextType, SlotInvStep
<1>3. HistoryInv'
  BY <1>1, SaverFollowsStep, RecordsFollowStep, RowsFollowStep, ItemsFollowStep DEF HistoryInv
<1>4. DrainInv'
  BY <1>1, DrainInvStep
<1>5. CurrentInv'
  BY <1>1, SaverHasCurrentStep, CurrentRowsKeptStep, UnsavedFailedStep DEF CurrentInv
<1>6. MapInv'
  BY <1>1, NoMapUnusedStep, OwnerMapStep DEF MapInv
<1>7. MaskInv'
  BY <1>1, RowOwnersInUseStep, LeaversMaskedStep DEF MaskInv
<1> QED
  BY <1>2, <1>3, <1>4, <1>5, <1>6, <1>7 DEF ReadsInv

\* It gives the property: the newest row of a key under a program is open exactly
\* when the chain has the key under that program.
LEMMA ReadsMatch == ReadsInv => ProgramReadsMatchChain
<1> SUFFICES ASSUME ReadsInv, Complete, NEW k \in Keys, NEW o \in Owners,
                    NEW tip \in {confirmed, finalTip}
             PROVE  ProgramRead(k, o, tip) = {OnChain(k, tip) = o}
  BY DEF ProgramReadsMatchChain
<1>i. /\ StoreType /\ SlotInv /\ HistoryInv /\ CurrentInv /\ MaskInv
      /\ SlotOrder /\ NothingMissed /\ ~mode.lossy /\ unsaved = {}
  BY DEF ReadsInv, SlotInv, CurrentInv, UnsavedFailed, Complete
<1>0. /\ tip \in Nat /\ head \in Nat /\ finalTip \in Nat /\ finalTip <= tip /\ tip <= confirmed
      /\ confirmed \in Nat /\ confirmed <= head /\ tip <= head /\ head <= MaxSlot /\ MaxSlot \in Nat
      /\ missed = {} /\ lastSlot = head
      /\ confirmed = IF Busy("main") THEN head - 1 ELSE head
      /\ Owners \cap {"none", "other", "closed"} = {}
  BY <1>i, StoreFacts, StoreAssumption DEF SlotOrder, NothingMissed
<1> DEFINE rows == {r \in accounts \cup snapshot : r.key = k /\ r.owner = o}
           below == {r \in rows : r.slot <= tip}
           newest == {r \in below : \A q \in below : q.slot <= r.slot}
<1>1. ProgramRead(k, o, tip) = IF newest = {} THEN {FALSE} ELSE {r.open : r \in newest}
  BY DEF ProgramRead, Newest
<1>2. OnChain(k, tip) = OwnerIn(update, k, tip)
  BY LastTouchOfChain
<1>3. \A r \in rows : /\ r \in Row /\ r \in accounts \cup snapshot /\ r.key = k /\ r.owner = o
                      /\ r.slot \in Nat /\ r.open \in BOOLEAN /\ RowFollowsChain(r)
  <2>1. \A r \in rows : r \in Row /\ r \in accounts \cup snapshot /\ r.key = k /\ r.owner = o
    BY <1>i, StoreFacts
  <2>2. \A r \in Row : r.slot \in Nat /\ r.open \in BOOLEAN
    BY DEF Row
  <2> QED
    BY <1>i, <2>1, <2>2 DEF HistoryInv, RowsFollowChain
<1> HIDE DEF rows
<1> SUFFICES ProgramRead(k, o, tip) = {OwnerIn(update, k, tip) = o}
  BY <1>2
<1>4. CASE OwnerIn(update, k, tip) = o
  <2> DEFINE t == LastIn(update, k, tip)
  <2>1. /\ t \in 0..tip /\ t \in Nat /\ \A v \in (t + 1)..tip : update[v][k] = "none"
    BY <1>0, LastTouchIs
  <2>2. update[t][k] = o
    BY <1>0, <1>4 DEF OwnerIn, OwnerAt
  <2> HIDE DEF t
  <2> DEFINE row == [key |-> k, owner |-> o, slot |-> t, open |-> TRUE]
  <2>3. row \in rows
    <3>1. Written(t)
      <4>1. ASSUME NEW u \in Tasks, Busy(u) PROVE saver[u].slot # t
        <5>1. u = "main"
          BY <1>0, <1>i, <4>1, BusySlots DEF Tasks
        <5>2. saver[u].slot = head
          BY <1>0, <1>i, <4>1, <5>1, BusySlots
        <5> QED
          BY <1>0, <2>1, <4>1, <5>1, <5>2
      <4> QED
        BY <1>0, <4>1 DEF Written
    <3>2. Current(k, t)
      <4>1. Horizon = finalTip
        BY <1>i DEF Horizon
      <4>2. \A v \in (t + 1)..finalTip : v \in (t + 1)..tip
        BY <1>0, <2>1
      <4> QED
        BY <2>1, <4>1, <4>2 DEF Current, Touched
    <3>3. t \in 0..head
      BY <1>0, <2>1
    <3>4. row \in accounts \cup snapshot
      BY <1>i, <2>2, <3>1, <3>2, <3>3 DEF CurrentInv, CurrentRowsKept
    <3> QED
      BY <3>4 DEF rows
  <2>4. row \in below /\ row.slot = t
    BY <2>1, <2>3
  <2>5. ASSUME NEW r \in below PROVE r.slot <= t /\ (r.slot = t => r.open)
    <3>1. r \in rows /\ r.slot <= tip
      OBVIOUS
    <3>2. r.slot \in Nat /\ r.open \in BOOLEAN /\ RowFollowsChain(r) /\ r.key = k /\ r.owner = o
      BY <1>3, <3>1
    <3>3. update[r.slot][k] # "none"
      BY <1>0, <3>2 DEF RowFollowsChain
    <3>4. ~(r.slot > t)
      <4>1. r.slot > t => r.slot \in (t + 1)..tip
        BY <1>0, <2>1, <3>1, <3>2
      <4> QED
        BY <2>1, <3>3, <4>1
    <3>5. r.slot = t => r.open
      BY <2>2, <3>2 DEF RowFollowsChain
    <3> QED
      BY <2>1, <3>2, <3>4, <3>5
  <2> HIDE DEF row
  <2>6. row \in newest
    BY <2>4, <2>5
  <2>7. \A r \in newest : r.open = TRUE
    <3> SUFFICES ASSUME NEW r \in newest PROVE r.open = TRUE
      OBVIOUS
    <3>1. r \in below /\ t <= r.slot /\ r \in rows
      BY <2>4
    <3>2. r.slot = t /\ r.open \in BOOLEAN
      BY <1>3, <2>1, <2>5, <3>1
    <3> QED
      BY <2>5, <3>1, <3>2
  <2> HIDE DEF newest
  <2>8. {r.open : r \in newest} = {TRUE}
    BY <2>6, <2>7
  <2> QED
    BY <1>1, <1>4, <2>6, <2>8
<1>5. CASE OwnerIn(update, k, tip) # o
  <2>1. ASSUME NEW r \in newest, r.open PROVE FALSE
    <3>1. r \in rows /\ r.slot <= tip /\ \A q \in below : q.slot <= r.slot
      OBVIOUS
    <3>2. /\ r.slot \in Nat /\ RowFollowsChain(r) /\ r.key = k /\ r.owner = o
          /\ r \in accounts \cup snapshot
      BY <1>3, <3>1
    <3>3. update[r.slot][k] = o /\ r.slot \in 0..tip
      BY <1>0, <2>1, <3>1, <3>2 DEF RowFollowsChain
    <3> DEFINE w == LastIn(update, k, tip)
    <3>4. w \in (r.slot + 1)..tip /\ update[w][k] \notin {"none", o}
      BY <1>0, <1>5, <3>3, LeftBehind
    <3> HIDE DEF w
    <3>5. w \in (r.slot + 1)..Masked
      BY <1>0, <3>2, <3>4 DEF Masked, MasksPending
    <3>6. PICK q \in accounts : /\ q.key = r.key /\ q.owner = r.owner /\ ~q.open
                                /\ r.slot < q.slot /\ q.slot <= w
      BY <1>i, <2>1, <3>2, <3>4, <3>5 DEF MaskInv, LeaversMasked
    <3>7. q \in rows
      BY <3>2, <3>6 DEF rows
    <3>8. q.slot \in Nat
      BY <1>3, <3>7
    <3>9. w \in Nat /\ w <= tip
      BY <1>0, <3>2, <3>4
    <3>10. q \in below
      BY <1>0, <3>6, <3>7, <3>8, <3>9
    <3> QED
      BY <3>1, <3>2, <3>6, <3>8, <3>10
  <2>2. \A r \in newest : r.open = FALSE
    <3>1. \A r \in newest : r \in rows
      OBVIOUS
    <3> QED
      BY <1>3, <2>1, <3>1
  <2> HIDE DEF newest
  <2>3. CASE newest = {}
    BY <1>1, <1>5, <2>3
  <2>4. CASE newest # {}
    <3>1. {r.open : r \in newest} = {FALSE}
      BY <2>2, <2>4
    <3> QED
      BY <1>1, <1>5, <2>4, <3>1
  <2> QED
    BY <2>3, <2>4
<1> QED
  BY <1>4, <1>5

\* For every deployment that loses nothing, getProgramAccounts lists a key under
\* exactly the program that owns it on the chain, at the confirmed and the finalized
\* slot, whatever the order of saves, finalizations and drains.
THEOREM ProgramReadsCorrect == Spec => []ProgramReadsMatchChain
  BY ReadsInit, ReadsStep, ReadsMatch, PTL DEF Spec

=============================================================================
