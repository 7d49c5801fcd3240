--------------------------- MODULE SlotFinalizer ---------------------------
(***************************************************************************)
(* The slot finalizer of the indexer (modules/finalize_slot.rs): the map   *)
(* of confirmed blocks that are not finalized yet, the ordered queue of    *)
(* slots awaiting finalization, the pause used while a gap is repaired,    *)
(* and the single worker that drains the queue and walks the parent chain. *)
(*                                                                         *)
(* Every step below is one critical section of the finalizer's mutex, or   *)
(* one database call made outside of it.  A tokio Notify is the Boolean    *)
(* permit it stores: notify_one sets the permit, notified().await needs    *)
(* and clears it.  A notify_one that follows an unlock is part of the      *)
(* locked step: notifying later only delays the wake, which the sleeper's  *)
(* own step may be anyway.                                                 *)
(*                                                                         *)
(* Simplifications: the accounts of a block are left out (module Cleanup   *)
(* models what finalize_slot does with them), hashes are abstract values   *)
(* and NoHash is the empty string; handing a slot over to the cleanup      *)
(* queue and to the prune watch is one element added to `finalized`.       *)
(***************************************************************************)
EXTENDS Integers, FiniteSets

CONSTANTS Slots,    \* slot numbers
          Hash,     \* block hashes, the empty one included
          NoHash,   \* the empty hash a snapshot-repaired block carries
          Bound,    \* finalize-slot-buffer-size
          Feed,     \* <<slot, entry>> pairs the callers of record_block may use
          InsertMayFail  \* insert_slot may fail or time out

VARIABLES blocks,     \* slot -> recorded block, or NoBlock
          pending,    \* slots awaiting finalization
          paused,     \* pause_reasons is not empty
          work,       \* permit of work_available
          space,      \* permit of space_available
          worker,     \* control state of run_worker
          current,    \* slot the worker popped, 0 when none
          chain,      \* slots of the current walk still to be finalized
          finalized,  \* slots handed over by finalize_slot so far
          tip,        \* the Finalized row of the slots table, 0 when absent
          producer,   \* control state of the caller of note_finalized
          noted       \* the slot that caller is noting, 0 when none

finalizerVars == <<blocks, pending, paused, work, space, worker, current,
                   chain, finalized, tip, producer, noted>>

Entry == [hash : Hash, parent : Slots \cup {0}, phash : Hash]

NoBlock == [hash |-> NoHash, parent |-> -1, phash |-> NoHash]

\* A block rebuilt from a snapshot carries no chain data.
RepairedEntry == [hash |-> NoHash, parent |-> 0, phash |-> NoHash]

ASSUME SlotsAssumption == Slots \subseteq Nat \ {0} /\ IsFiniteSet(Slots)
ASSUME HashAssumption == NoHash \in Hash
ASSUME BoundAssumption == Bound \in Nat \ {0}
ASSUME FeedAssumption ==
  \A f \in Feed : f \in Slots \X Entry /\ f[2].parent < f[1]
ASSUME InsertAssumption == InsertMayFail \in BOOLEAN

WorkerStates == {"check", "wait", "loop", "walk", "finalize", "notify"}
ProducerStates == {"idle", "check", "wait"}

FinalizerInit ==
  /\ blocks = [s \in Slots |-> NoBlock]
  /\ pending = {}
  /\ paused = FALSE
  /\ work = FALSE
  /\ space = FALSE
  /\ worker = "check"
  /\ current = 0
  /\ chain = {}
  /\ finalized = {}
  /\ tip = 0
  /\ producer = "idle"
  /\ noted = 0

----------------------------------------------------------------------------
(* Callers' operations                                                     *)

RecordBlock(s, e) ==
  /\ blocks' = [blocks EXCEPT ![s] = e]
  /\ UNCHANGED <<pending, paused, work, space, worker, current, chain,
                 finalized, tip, producer, noted>>

\* note_finalized is called: the caller is now inside its retry loop.
NoteFinalized(s) ==
  /\ producer = "idle"
  /\ producer' = "check"
  /\ noted' = s
  /\ UNCHANGED <<blocks, pending, paused, work, space, worker, current, chain,
                 finalized, tip>>

\* One turn of the loop: insert and return, or go to sleep on space_available.
NoteInsertForgetsWorker ==
  /\ producer = "check"
  /\ IF Cardinality(pending) < Bound
       THEN /\ pending' = pending \cup {noted}
            /\ work' = work
            /\ producer' = "idle"
            /\ noted' = 0
       ELSE /\ producer' = "wait"
            /\ UNCHANGED <<pending, work, noted>>
  /\ UNCHANGED <<blocks, paused, space, worker, current, chain, finalized, tip>>

NoteInsert ==
  /\ producer = "check"
  /\ IF Cardinality(pending) < Bound
       THEN /\ pending' = pending \cup {noted}
            /\ work' = TRUE
            /\ producer' = "idle"
            /\ noted' = 0
       ELSE /\ producer' = "wait"
            /\ UNCHANGED <<pending, work, noted>>
  /\ UNCHANGED <<blocks, paused, space, worker, current, chain, finalized, tip>>

NoteWake ==
  /\ producer = "wait"
  /\ space
  /\ space' = FALSE
  /\ producer' = "check"
  /\ UNCHANGED <<blocks, pending, paused, work, worker, current, chain,
                 finalized, tip, noted>>

\* Repaired slots and gap boundaries ignore the bound.
EnqueueUnbounded(s) ==
  /\ pending' = pending \cup {s}
  /\ work' = TRUE
  /\ UNCHANGED <<blocks, paused, space, worker, current, chain, finalized, tip,
                 producer, noted>>

\* The finalizer half of pause(): health is added by the caller when this
\* step newly paused.
PauseFinalizer ==
  /\ paused' = TRUE
  /\ UNCHANGED <<blocks, pending, work, space, worker, current, chain,
                 finalized, tip, producer, noted>>

\* The finalizer half of resume(): the worker is woken when it was paused.
ResumeFinalizerForgetsWorker ==
  /\ paused' = FALSE
  /\ UNCHANGED <<blocks, pending, work, space, worker, current, chain, finalized,
                 tip, producer, noted>>

ResumeFinalizer ==
  /\ paused' = FALSE
  /\ work' = (work \/ paused)
  /\ UNCHANGED <<blocks, pending, space, worker, current, chain, finalized,
                 tip, producer, noted>>

----------------------------------------------------------------------------
(* The worker                                                              *)

\* t's entry names p as its parent and p's recorded hash agrees.
Linked(b, t, p) ==
  /\ b[t] # NoBlock
  /\ b[t].parent = p
  /\ b[t].phash # NoHash
  /\ b[p] # NoBlock
  /\ b[p].hash = b[t].phash

ClosedUnderParents(b, S) ==
  \A t \in S : \A p \in Slots : Linked(b, t, p) => p \in S

\* The slot itself and every recorded ancestor the hash-checked walk reaches:
\* the least set that holds the slot and is closed under Linked.
Ancestors(b, s) ==
  {t \in Slots : \A S \in SUBSET Slots :
                   (s \in S /\ ClosedUnderParents(b, S)) => t \in S}

\* First lock of an iteration: sleep or go and drain.
WorkerCheck ==
  /\ worker = "check"
  /\ worker' = IF paused \/ pending = {} THEN "wait" ELSE "loop"
  /\ UNCHANGED <<blocks, pending, paused, work, space, current, chain,
                 finalized, tip, producer, noted>>

WorkerWake ==
  /\ worker = "wait"
  /\ work
  /\ work' = FALSE
  /\ worker' = "loop"
  /\ UNCHANGED <<blocks, pending, paused, space, current, chain, finalized,
                 tip, producer, noted>>

\* Second lock: leave the inner loop, or pop the lowest pending slot.
WorkerBreak ==
  /\ worker = "loop"
  /\ paused \/ pending = {}
  /\ worker' = "check"
  /\ UNCHANGED <<blocks, pending, paused, work, space, current, chain,
                 finalized, tip, producer, noted>>

WorkerPop ==
  /\ worker = "loop"
  /\ ~paused
  /\ \E s \in pending :
       /\ \A t \in pending : s <= t
       /\ pending' = pending \ {s}
       /\ current' = s
  /\ worker' = "walk"
  /\ UNCHANGED <<blocks, paused, work, space, chain, finalized, tip, producer,
                 noted>>

\* Third lock: get_slot_ancestors takes the chain out of the map and out of
\* the queue.
WorkerWalk ==
  /\ worker = "walk"
  /\ chain' = Ancestors(blocks, current)
  /\ blocks' = [s \in Slots |-> IF s \in chain' THEN NoBlock ELSE blocks[s]]
  /\ pending' = pending \ (chain' \ {current})
  /\ worker' = "finalize"
  /\ UNCHANGED <<paused, work, space, current, finalized, tip, producer, noted>>

\* insert_slot: the Finalized row only moves forward; a failed or timed out
\* statement leaves it alone and the worker goes on.
InsertFinalizedAlways(s) == tip' = s

InsertFinalizedNext(s) == tip' = s + 1

InsertFinalized(s) ==
  \/ tip' = IF s > tip THEN s ELSE tip
  \/ InsertMayFail /\ tip' = tip

\* finalize_slot for the oldest slot left in the chain.
FinalizeSlot ==
  /\ worker = "finalize"
  /\ \E s \in chain :
       /\ \A t \in chain : s <= t
       /\ chain' = chain \ {s}
       /\ finalized' = finalized \cup {s}
       /\ InsertFinalized(s)
  /\ worker' = IF chain' = {} THEN "notify" ELSE "finalize"
  /\ UNCHANGED <<blocks, pending, paused, work, space, current, producer, noted>>

WorkerNotifyForgetsProducer ==
  /\ worker = "notify"
  /\ space' = space
  /\ current' = 0
  /\ worker' = "loop"
  /\ UNCHANGED <<blocks, pending, paused, work, chain, finalized, tip,
                 producer, noted>>

WorkerNotify ==
  /\ worker = "notify"
  /\ space' = TRUE
  /\ current' = 0
  /\ worker' = "loop"
  /\ UNCHANGED <<blocks, pending, paused, work, chain, finalized, tip,
                 producer, noted>>

WorkerStep ==
  \/ WorkerCheck
  \/ WorkerWake
  \/ WorkerBreak
  \/ WorkerPop
  \/ WorkerWalk
  \/ FinalizeSlot
  \/ WorkerNotify

ProducerStep == NoteInsert \/ NoteWake

----------------------------------------------------------------------------
(* The finalizer under arbitrary callers                                   *)

CallerStep ==
  \/ \E f \in Feed : RecordBlock(f[1], f[2])
  \/ \E s \in Slots : NoteFinalized(s)
  \/ \E s \in Slots : EnqueueUnbounded(s)
  \/ PauseFinalizer
  \/ ResumeFinalizer

FinalizerNext == WorkerStep \/ ProducerStep \/ CallerStep

FinalizerSpec == FinalizerInit /\ [][FinalizerNext]_finalizerVars

----------------------------------------------------------------------------
(* Properties                                                              *)

\* Type invariant of the finalizer's state.
FinalizerTypeOK ==
  /\ blocks \in [Slots -> Entry \cup {NoBlock}]
  /\ pending \subseteq Slots
  /\ paused \in BOOLEAN
  /\ work \in BOOLEAN
  /\ space \in BOOLEAN
  /\ worker \in WorkerStates
  /\ current \in Slots \cup {0}
  /\ chain \subseteq Slots
  /\ finalized \subseteq Slots
  /\ tip \in Slots \cup {0}
  /\ producer \in ProducerStates
  /\ noted \in Slots \cup {0}
  /\ producer # "idle" => noted \in Slots

\* No wakeup of the worker is lost: if it sleeps on work_available while there
\* is a slot it could finalize, a permit is stored for it (finalize_slot.rs
\* 192, 210, 242 against the unlocked await at 264).
NoLostWork ==
  worker = "wait" /\ pending # {} /\ ~paused => work

\* No wakeup of a blocked producer is lost: if note_finalized sleeps while the
\* queue has room, a permit is stored or the worker is between taking a slot
\* out of the queue and its notify_one (finalize_slot.rs 187-196, 294).
NoLostSpace ==
  producer = "wait" /\ Cardinality(pending) < Bound =>
     space \/ worker \in {"walk", "finalize", "notify"}

\* The Finalized row never moves back, although repaired slots, gap boundaries
\* and missed ancestors are finalized below it (the WHERE of insert_slot).
TipNeverRegresses == [][tip' >= tip]_finalizerVars

=============================================================================
