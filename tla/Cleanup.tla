------------------------------ MODULE Cleanup ------------------------------
(***************************************************************************)
(* The deferred cleanup of finalized slots (index/modules/cleanup): the    *)
(* queue of keys per finalized slot (pending.rs), the drainer task         *)
(* (drain.rs) and the DELETE statements on the two account tables, with    *)
(* their order (persist.rs, cleanup.sql, cleanupWithOwner.sql).            *)
(*                                                                         *)
(* A queued item is the key, its owner (NoOwner for the unrouted form) and *)
(* its exclusive cutoff.  The chunks of a statement are the subsets of the *)
(* items, so a failed statement has applied an arbitrary subset.  Stamps   *)
(* and the lag gauge are left out, and the startup rule that skips         *)
(* snapshot_accounts: startup is over here.                                *)
(***************************************************************************)
EXTENDS Integers, FiniteSets

CONSTANTS Keys,          \* account pubkeys
          Owners,        \* programs the node indexes
          NoOwner,       \* the owner of an unrouted key
          MaxSlot,       \* bound on the slots of a behaviour
          Modes          \* the deployments explored, see StoreAssumption

VARIABLES mode,        \* the deployment of this behaviour
          accounts,    \* rows of the accounts table
          snapshot,    \* rows of the snapshot_accounts table
          queue,       \* queued items, each at its finalized slot
          highWater,   \* highest slot enqueued
          sinceDrain,  \* enqueued_since_drain
          lastDrain,   \* last_drain_slot, -1 when None
          wake,        \* permit of work_available
          drainer,     \* control state of the drainer
          taken        \* items of the drain in flight

cleanupVars == <<accounts, snapshot, queue, highWater, sinceDrain, lastDrain,
                 wake, drainer, taken>>

ASSUME CleanupAssumption ==
  /\ NoOwner \notin Owners
  /\ MaxSlot \in Nat
  /\ \A m \in Modes : m.interval \in Nat \ {0} /\ m.deleteFails \in BOOLEAN

Row == [key : Keys, owner : Owners, slot : 0..MaxSlot, open : BOOLEAN]

Item == [at : 1..MaxSlot, key : Keys, owner : Owners \cup {NoOwner},
         cutoff : 1..(MaxSlot + 1)]

\* The snapshot is loaded, nothing is queued.
CleanupInit(loaded) ==
  /\ accounts = {}
  /\ snapshot = loaded
  /\ queue = {}
  /\ highWater = 0 /\ sinceDrain = 0 /\ lastDrain = -1
  /\ wake = FALSE
  /\ drainer = "wait"
  /\ taken = {}

----------------------------------------------------------------------------
(* The queue                                                               *)

\* One cutoff per key and slot, merged by max.
MergeByMax(items) ==
  {i \in items : \A j \in items :
     (j.at = i.at /\ j.key = i.key /\ j.owner = i.owner) => j.cutoff <= i.cutoff}

QueuedSlots(items) == {i.at : i \in items}

\* The oldest cleanup-interval-slots slots of the queue.
Window ==
  {s \in QueuedSlots(queue) :
     Cardinality({t \in QueuedSlots(queue) : t < s}) < mode.interval}

ShouldDrain(items, high, since, last) ==
  \/ Cardinality(QueuedSlots(items)) >= mode.interval
  \/ since >= mode.interval
  \/ last # -1 /\ high - last >= mode.interval

HasNoBacklog(items) == FALSE

HasBacklog(items) == Cardinality(QueuedSlots(items)) >= mode.interval

\* CleanupHandle::enqueue of one finalized slot's items.
Enqueue(slot, items) ==
  /\ queue' = MergeByMax(queue \cup items)
  /\ highWater' = IF slot > highWater THEN slot ELSE highWater
  /\ sinceDrain' = sinceDrain + 1
  /\ wake' = (wake \/ ShouldDrain(queue', highWater', sinceDrain', lastDrain))
  /\ UNCHANGED <<lastDrain, drainer, taken>>

----------------------------------------------------------------------------
(* The drainer                                                             *)

\* Rows a statement with these items leaves.
DeleteBelow(rows, items) ==
  {r \in rows : \A i \in items :
     (i.key = r.key /\ i.owner \in {NoOwner, r.owner}) => r.slot >= i.cutoff}

DrainerWake ==
  /\ drainer = "wait"
  /\ wake
  /\ wake' = FALSE
  /\ drainer' = "note"
  /\ UNCHANGED <<mode, accounts, snapshot, queue, highWater, sinceDrain, lastDrain,
                 taken>>

DrainerNote ==
  /\ drainer = "note"
  /\ sinceDrain' = 0
  /\ lastDrain' = highWater
  /\ drainer' = "take"
  /\ UNCHANGED <<mode, accounts, snapshot, queue, highWater, wake, taken>>

\* take_window: the window's items, merged, all at its oldest slot.
DrainerTake ==
  /\ drainer = "take"
  /\ queue' = {i \in queue : i.at \notin Window}
  /\ LET old == {i \in queue : i.at \in Window}
         first == CHOOSE s \in Window : \A t \in Window : s <= t
     IN  taken' = MergeByMax({[i EXCEPT !.at = first] : i \in old})
  /\ drainer' = IF taken' = {} THEN "wait" ELSE "snapshot"
  /\ UNCHANGED <<mode, accounts, snapshot, highWater, sinceDrain, lastDrain, wake>>

\* Every snapshot_accounts chunk; an error skips the accounts chunks.
DrainSnapshotGoesOn ==
  /\ drainer = "snapshot"
  /\ \/ snapshot' = DeleteBelow(snapshot, taken)
     \/ mode.deleteFails /\ \E done \in SUBSET taken : snapshot' = DeleteBelow(snapshot, done)
  /\ drainer' = "accounts"
  /\ UNCHANGED <<mode, accounts, queue, highWater, sinceDrain, lastDrain, wake, taken>>

DrainSnapshot ==
  /\ drainer = "snapshot"
  /\ \/ /\ snapshot' = DeleteBelow(snapshot, taken)
        /\ drainer' = "accounts"
     \/ /\ mode.deleteFails
        /\ \E done \in SUBSET taken : snapshot' = DeleteBelow(snapshot, done)
        /\ drainer' = "failed"
  /\ UNCHANGED <<mode, accounts, queue, highWater, sinceDrain, lastDrain, wake, taken>>

\* Every accounts chunk, then finish; a backlog drains without a new wake.
DrainAccounts ==
  /\ drainer = "accounts"
  /\ \/ /\ accounts' = DeleteBelow(accounts, taken)
        /\ drainer' = IF HasBacklog(queue) THEN "note" ELSE "wait"
        /\ taken' = {}
     \/ /\ mode.deleteFails
        /\ \E done \in SUBSET taken : accounts' = DeleteBelow(accounts, done)
        /\ drainer' = "failed"
        /\ UNCHANGED taken
  /\ UNCHANGED <<mode, snapshot, queue, highWater, sinceDrain, lastDrain, wake>>

\* reinsert: the items go back to the oldest slot of their window.
Reinsert ==
  /\ drainer = "failed"
  /\ queue' = MergeByMax(queue \cup taken)
  /\ taken' = {}
  /\ drainer' = "wait"
  /\ UNCHANGED <<mode, accounts, snapshot, highWater, sinceDrain, lastDrain, wake>>

DrainerStep ==
  \/ DrainerWake
  \/ DrainerNote
  \/ DrainerTake
  \/ DrainSnapshot
  \/ DrainAccounts
  \/ Reinsert

----------------------------------------------------------------------------

\* Type invariant of the tables and the queue.
CleanupTypeOK ==
  /\ accounts \subseteq Row /\ snapshot \subseteq Row
  /\ queue \subseteq Item /\ taken \subseteq Item
  /\ highWater \in 0..MaxSlot
  /\ sinceDrain \in Nat
  /\ lastDrain \in -1..MaxSlot
  /\ wake \in BOOLEAN
  /\ drainer \in {"wait", "note", "take", "snapshot", "accounts", "failed"}

=============================================================================
