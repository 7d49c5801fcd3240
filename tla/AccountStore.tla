---------------------------- MODULE AccountStore ----------------------------
(***************************************************************************)
(* The account versions in the database: what save_block writes for a      *)
(* block (rows and closed-account masks), the in-memory owner map that     *)
(* routes masks and cleanup keys, the keys a finalized slot hands to the   *)
(* cleanup queue, the drainer (module Cleanup), and what the API's queries *)
(* read from the two tables.                                               *)
(*                                                                         *)
(* Startup is over: the snapshot of slot 0 is loaded and the owner map is  *)
(* seeded from it.  A block is the update of each key: none, a write under *)
(* an indexed program, a write under a program that is not indexed         *)
(* ("other"), or a close.  Live blocks are saved by the main loop, lost    *)
(* ones by the gap filler, concurrently.  Of self-healing (module          *)
(* SelfHealing) this keeps: a lost slot is a gap once a later block        *)
(* arrives, the slots of a gap are repaired in any order, finalization is  *)
(* paused meanwhile and goes in slot order, after the slot was saved.      *)
(***************************************************************************)
EXTENDS Cleanup

VARIABLES update,     \* history: slot -> key -> update, slot 0 the snapshot
          head,       \* history: the newest slot of the chain
          missed,     \* lost slots not repaired yet
          lastSlot,   \* last block received live
          owners,     \* owner map: key -> [owner, slot], or NoEntry
          changed,    \* changed_owners: [slot, key, owner]
          blocks,     \* slot -> cleanup data of its block, or NoBlock
          saver,      \* task -> the save_block it runs
          confirmed,  \* the Confirmed row of the slots table
          finalTip,   \* the Finalized row of the slots table
          apiTip,     \* finalized slot the API learned of
          unsaved     \* history: rows of confirmed blocks whose insert failed

storeVars == <<update, head, missed, lastSlot, owners, changed, blocks, saver,
               confirmed, finalTip, apiTip, unsaved>>

vars == <<mode, cleanupVars, storeVars>>

AllUpdates == Owners \cup {"none", "other", "closed"}

\* A deployment: with the owner map (accounts-owner-map-enabled) or without, its
\* cleanup-interval-slots, whether the stream may lose blocks, whether the inserts
\* of masks or rows and the deletes may fail, and the bounds: slots, updates of a block.
ASSUME StoreAssumption ==
  /\ Owners \cap {"none", "other", "closed"} = {}
  /\ \A m \in Modes :
       /\ {m.map, m.lossy, m.maskFails, m.rowsFail} \subseteq BOOLEAN
       /\ "none" \in m.updates /\ m.updates \subseteq AllUpdates
       /\ m.slots \in 0..MaxSlot

Slots == 1..MaxSlot
Blocks == [Keys -> mode.updates]
NoUpdate == [k \in Keys |-> "none"]
NoEntry == [owner |-> NoOwner, slot |-> 0]
NoBlock == [saved |-> FALSE, open |-> {}, closed |-> {}, pairs |-> {}]

Idle == [busy |-> FALSE, slot |-> 0, open |-> {}, closed |-> {}, todo |-> {}]

Gaps == {g \in missed : g < lastSlot}

KeyOwner == [key : Keys, owner : Owners]

Init ==
  /\ mode \in Modes
  /\ \E first \in [Keys -> mode.updates \cap (Owners \cup {"none"})] :
       /\ update = [s \in 0..MaxSlot |-> IF s = 0 THEN first ELSE NoUpdate]
       /\ CleanupInit({[key |-> k, owner |-> first[k], slot |-> 0, open |-> TRUE] :
                         k \in {j \in Keys : first[j] \in Owners}})
       /\ owners = [k \in Keys |-> IF mode.map /\ first[k] \in Owners
                                     THEN [owner |-> first[k], slot |-> 0]
                                     ELSE NoEntry]
  /\ head = 0 /\ missed = {} /\ lastSlot = 0
  /\ changed = {}
  /\ blocks = [s \in Slots |-> NoBlock]
  /\ saver = [t \in {"main", "fill"} |-> Idle]
  /\ confirmed = 0 /\ finalTip = 0 /\ apiTip = 0 /\ unsaved = {}

----------------------------------------------------------------------------
(* The owner map                                                           *)

Known(k) == owners[k] # NoEntry

\* check_updated_account_owner.
OwnerMoved(k, o, s) == Known(k) /\ owners[k].owner # o /\ owners[k].slot < s

\* upsert_account for the written keys of a block.
Upsert(block, s) ==
  [k \in Keys |->
     IF mode.map /\ block[k] \in Owners /\ (~Known(k) \/ OwnerMoved(k, block[k], s))
       THEN [owner |-> block[k], slot |-> s]
       ELSE owners[k]]

ChangedBy(block, s) ==
  {[slot |-> s, key |-> k, owner |-> owners[k].owner] :
     k \in {j \in Keys : block[j] \in Owners /\ OwnerMoved(j, block[j], s)}}

\* Closed keys of a block: zero lamports, or moved to a program that is not
\* indexed (account_to_be_deleted).
ClosedBy(block, s) ==
  {k \in Keys : block[k] = "closed" \/ (block[k] = "other" /\ OwnerMoved(k, "other", s))}

----------------------------------------------------------------------------
(* save_block                                                              *)

OpenByUnfiltered(block) ==
  {[key |-> k, owner |-> block[k]] : k \in {j \in Keys : block[j] \in Owners \cup {"other"}}}

OpenBy(block) == {[key |-> k, owner |-> block[k]] : k \in {j \in Keys : block[j] \in Owners}}

\* The in-memory part, up to record_block: classify the accounts, update the
\* owner map, capture the routed pairs of the closed keys.  `work' is what is left
\* to write.
AllWork == {"masks", "rows"}

SaveStart(t, s, block, work) ==
  /\ ~saver[t].busy
  /\ LET map == Upsert(block, s)
         closed == ClosedBy(block, s)
         moved == changed \cup ChangedBy(block, s)
         pairs == {[key |-> k, owner |-> map[k].owner] : k \in {c \in closed : map[c] # NoEntry}}
                  \cup {[key |-> c.key, owner |-> c.owner] : c \in {d \in moved : d.slot = s}}
     IN  /\ owners' = map
         /\ changed' = moved
         /\ blocks' = [blocks EXCEPT ![s] = [saved |-> FALSE, open |-> OpenBy(block),
                                             closed |-> closed,
                                             pairs |-> IF mode.map THEN pairs ELSE {}]]
         /\ saver' = [saver EXCEPT ![t] = [busy |-> TRUE, slot |-> s,
                                           open |-> OpenBy(block), closed |-> closed,
                                           todo |-> work]]

\* A live block, chosen freely, reaches the main loop.
LiveBlock(block) ==
  /\ head < mode.slots
  /\ head' = head + 1
  /\ update' = [update EXCEPT ![head'] = block]
  /\ lastSlot' = head'
  /\ SaveStart("main", head', block, AllWork)
  /\ UNCHANGED <<mode, cleanupVars, missed, confirmed, finalTip, apiTip, unsaved>>

\* A block the stream loses; the first block is never one.
LostBlock(block) ==
  /\ mode.lossy
  /\ head < mode.slots - 1 /\ lastSlot # 0
  /\ head' = head + 1
  /\ update' = [update EXCEPT ![head'] = block]
  /\ missed' = missed \cup {head'}
  /\ UNCHANGED <<mode, cleanupVars, lastSlot, owners, changed, blocks, saver, confirmed,
                 finalTip, apiTip, unsaved>>

\* What a snapshot still holds of a slot: a version superseded later may be gone,
\* and writes under programs that are not indexed are filtered out.
InSnapshot(g) ==
  {b \in [Keys -> mode.updates] :
     \A k \in Keys :
       IF update[g][k] = "other" THEN b[k] = "none"
       ELSE \/ b[k] = update[g][k]
            \/ b[k] = "none" /\ \E s \in (g + 1)..head : update[s][k] # "none"}

RepairBlock(g) ==
  /\ g \in Gaps
  /\ \E block \in InSnapshot(g) : SaveStart("fill", g, block, AllWork)
  /\ UNCHANGED <<mode, cleanupVars, update, head, missed, lastSlot, confirmed, finalTip,
                 apiTip, unsaved>>

\* A gap slot the snapshot has no account file for leaves the gaps list.
GapSlotEmpty(g) ==
  /\ g \in Gaps
  /\ ~saver["fill"].busy
  /\ NoUpdate \in InSnapshot(g)
  /\ missed' = missed \ {g}
  /\ UNCHANGED <<mode, cleanupVars, update, head, lastSlot, owners, changed, blocks,
                 saver, confirmed, finalTip, apiTip, unsaved>>

\* Owner a mask is written under without the owner map: the newest row's.
MaskByScan(closed, s) ==
  LET rowsOf(k) == {r \in accounts \cup snapshot : r.key = k}
      newest(k) == {r \in rowsOf(k) : \A q \in rowsOf(k) : q.slot <= r.slot}
  IN  {m \in SUBSET [key : closed, owner : Owners, slot : {s}, open : {FALSE}] :
         \A k \in closed :
           /\ Cardinality({r \in m : r.key = k}) = IF rowsOf(k) = {} THEN 0 ELSE 1
           /\ \A r \in m : r.key = k => \E n \in newest(k) : n.owner = r.owner}

\* save_closed_accounts or insertClosedAccount.sql: the masks are inserted; with
\* the owner map the closed keys leave it and the moved keys are masked too.
SaveMasks(t) ==
  LET s == saver[t].slot
      closed == saver[t].closed
      routed == {[key |-> k, owner |-> owners[k].owner, slot |-> s, open |-> FALSE] :
                   k \in {c \in closed : Known(c)}}
                \cup {[key |-> c.key, owner |-> c.owner, slot |-> s, open |-> FALSE] :
                        c \in {d \in changed : d.slot = s}}
  IN  /\ "masks" \in saver[t].todo
      /\ \/ \E masks \in IF mode.map THEN {routed} ELSE MaskByScan(closed, s) :
              accounts' = accounts \cup masks
         \/ mode.maskFails /\ accounts' = accounts
      /\ owners' = [k \in Keys |-> IF k \in closed THEN NoEntry ELSE owners[k]]
      /\ changed' = {c \in changed : c.slot # s}
      /\ saver' = [saver EXCEPT ![t].todo = @ \ {"masks"}]
      /\ UNCHANGED <<mode, snapshot, queue, highWater, sinceDrain, lastDrain, wake, drainer,
                     taken, update, head, missed, lastSlot, blocks, confirmed,
                     finalTip, apiTip, unsaved>>

RowsAt(s, open) == {[key |-> o.key, owner |-> o.owner, slot |-> s, open |-> TRUE] : o \in open}

\* insert_accounts_chunk for every chunk, concurrently with the masks.  A chunk that
\* fails or times out is logged and not tried again; its rows may be in or not.
SaveRows(t) ==
  /\ "rows" \in saver[t].todo
  /\ \E kept \in IF mode.rowsFail THEN SUBSET saver[t].open ELSE {saver[t].open} :
       /\ accounts' = accounts \cup RowsAt(saver[t].slot, kept)
       /\ unsaved' = unsaved \cup RowsAt(saver[t].slot, saver[t].open \ kept)
  /\ saver' = [saver EXCEPT ![t].todo = @ \ {"rows"}]
  /\ UNCHANGED <<mode, snapshot, queue, highWater, sinceDrain, lastDrain, wake, drainer,
                 taken, update, head, missed, lastSlot, owners, changed, blocks,
                 confirmed, finalTip, apiTip>>

\* insert_slot at Confirmed, once every write has ended, well or not; a repaired slot
\* then leaves the gaps list.
SaveConfirm(t) ==
  LET s == saver[t].slot
  IN  /\ saver[t].busy /\ saver[t].todo = {}
      /\ confirmed' = IF s > confirmed THEN s ELSE confirmed
      /\ blocks' = [blocks EXCEPT ![s].saved = TRUE]
      /\ missed' = missed \ {s}
      /\ saver' = [saver EXCEPT ![t] = Idle]
      /\ UNCHANGED <<mode, cleanupVars, update, head, lastSlot, owners, changed, finalTip,
                     apiTip, unsaved>>

----------------------------------------------------------------------------
(* Finalization and reads                                                  *)

\* keys_for_slot: an open key is cut off at the slot, a closed or moved one
\* past it; with the owner map only the routed closes are queued.
KeysForSlotKeepsMask(s) ==
  LET b == blocks[s]
      item(k, o, c) == [at |-> s, key |-> k, owner |-> o, cutoff |-> c]
  IN  IF mode.map
        THEN {item(p.key, p.owner, s) : p \in b.open \cup b.pairs}
        ELSE {item(p.key, NoOwner, s) : p \in b.open} \cup {item(k, NoOwner, s) : k \in b.closed}

KeysForSlot(s) ==
  LET b == blocks[s]
      item(k, o, c) == [at |-> s, key |-> k, owner |-> o, cutoff |-> c]
  IN  IF mode.map
        THEN {item(p.key, p.owner, s) : p \in b.open}
             \cup {item(p.key, p.owner, s + 1) : p \in b.pairs}
        ELSE {item(p.key, NoOwner, s) : p \in b.open}
             \cup {item(k, NoOwner, s + 1) : k \in b.closed}

\* finalize_slot: the Finalized row first, then the cleanup queue.
FinalizeSlot(s) ==
  /\ Gaps = {}
  /\ blocks[s].saved
  /\ \A r \in Slots : r < s => blocks[r] = NoBlock
  /\ finalTip' = IF s > finalTip THEN s ELSE finalTip
  /\ Enqueue(s, KeysForSlot(s))
  /\ blocks' = [blocks EXCEPT ![s] = NoBlock]
  /\ UNCHANGED <<mode, accounts, snapshot, update, head, missed, lastSlot, owners,
                 changed, saver, confirmed, apiTip, unsaved>>

\* The API's slot synchronizer learns of the Finalized row.
ApiLearns ==
  /\ apiTip # finalTip
  /\ apiTip' = finalTip
  /\ UNCHANGED <<mode, cleanupVars, update, head, missed, lastSlot, owners, changed,
                 blocks, saver, confirmed, finalTip, unsaved>>

\* The newest rows among rs at or below the tip.
Newest(rs, tip) ==
  LET below == {r \in rs : r.slot <= tip}
  IN  {r \in below : \A q \in below : q.slot <= r.slot}

\* The owners getAccountInfo.sql may answer with, "closed" when no account.
AccountRead(k, tip) ==
  LET n == Newest({r \in accounts \cup snapshot : r.key = k}, tip)
  IN  IF n = {} THEN {"closed"}
      ELSE {IF r.open THEN r.owner ELSE "closed" : r \in n}

\* Whether getProgramAccounts.sql may list the key under a program.
ProgramRead(k, o, tip) ==
  LET n == Newest({r \in accounts \cup snapshot : r.key = k /\ r.owner = o}, tip)
  IN  IF n = {} THEN {FALSE} ELSE {r.open : r \in n}

\* The last slot up to the tip whose block touched a key, 0 when none did.
LastTouch(k, tip) ==
  LET touched == {s \in 0..tip : s = 0 \/ update[s][k] # "none"}
  IN  CHOOSE s \in touched : \A r \in touched : r <= s

\* The program a key belongs to on the chain at a slot, "closed" when none that
\* is indexed.
OnChain(k, tip) ==
  LET u == update[LastTouch(k, tip)][k]
  IN  IF u \in Owners THEN u ELSE "closed"

----------------------------------------------------------------------------

DrainStep == DrainerStep /\ UNCHANGED storeVars

Next ==
  \/ \E b \in Blocks : LiveBlock(b)
  \/ \E b \in Blocks : LostBlock(b)
  \/ \E g \in Slots : RepairBlock(g)
  \/ \E g \in Slots : GapSlotEmpty(g)
  \/ \E t \in {"main", "fill"} : SaveMasks(t)
  \/ \E t \in {"main", "fill"} : SaveRows(t)
  \/ \E t \in {"main", "fill"} : SaveConfirm(t)
  \/ \E s \in Slots : FinalizeSlot(s)
  \/ ApiLearns
  \/ DrainStep

Spec == Init /\ [][Next]_vars

\* The drainer is a task of its own; its statements end (they have a timeout).
LiveSpec == Spec /\ WF_vars(DrainStep)

----------------------------------------------------------------------------
(* Properties                                                              *)

\* Type invariant of the state this module adds.
TypeOK ==
  /\ CleanupTypeOK
  /\ update \in [0..MaxSlot -> Blocks]
  /\ head \in 0..MaxSlot /\ lastSlot \in 0..MaxSlot /\ missed \subseteq Slots
  /\ owners \in [Keys -> [owner : Owners \cup {NoOwner}, slot : 0..MaxSlot]]
  /\ changed \subseteq [slot : Slots, key : Keys, owner : Owners]
  /\ blocks \in [Slots -> [saved : BOOLEAN, open : SUBSET KeyOwner,
                           closed : SUBSET Keys, pairs : SUBSET KeyOwner]]
  /\ confirmed \in 0..MaxSlot /\ finalTip \in 0..MaxSlot /\ apiTip \in 0..MaxSlot
  /\ unsaved \subseteq Row

\* Nothing is lost: every block is received, every mask and row is inserted, and an
\* account only changes its program where the owner map tracks it.
Complete ==
  /\ ~mode.lossy /\ ~mode.maskFails /\ ~mode.rowsFail
  /\ mode.map \/ \E o \in Owners : mode.updates \subseteq {"none", "closed", o}

\* While nothing is lost, getProgramAccounts lists a key under exactly the program
\* that owns it on the chain, at the confirmed and at the finalized slot: masks,
\* rows and deletes of a slot become visible and go away in an order in which no
\* reader sees a closed account or an old owner again (persist.rs 6-23,
\* save_block.rs 243-306).
ProgramReadsMatchChain ==
  Complete => \A k \in Keys, o \in Owners, tip \in {confirmed, finalTip} :
     ProgramRead(k, o, tip) = {OnChain(k, tip) = o}

Drained ==
  /\ missed = {} /\ queue = {} /\ drainer = "wait"
  /\ \A t \in {"main", "fill"} : ~saver[t].busy
  /\ \A s \in Slots : blocks[s] = NoBlock

\* The owner map sees every block, or, without it, no account leaves the indexed
\* programs by a move (a move shows no close then).
ClosesRouted == IF mode.map THEN ~mode.lossy ELSE "other" \notin mode.updates

\* Once the queue is drained the tables hold one row per account that exists on the
\* chain and no mask, whatever masks and deletes failed: no key was lost by a failed
\* drain, no cutoff spared a superseded version or hit a current one (cleanup/mod.rs
\* 17-26).  Only an account whose newest version was not inserted is missing: the
\* block is confirmed without it, and its older versions are deleted all the same.
DrainedIsExact ==
  LET tables == accounts \cup snapshot
      chain == {[key |-> k, owner |-> OnChain(k, head), slot |-> LastTouch(k, head), open |-> TRUE] :
                  k \in {j \in Keys : OnChain(j, head) # "closed"}}
  IN  ClosesRouted /\ Drained => tables \subseteq chain /\ chain \ tables \subseteq unsaved

\* Stated by pending.rs 68-70: a close the owner map does not know is of an account
\* that has no rows to delete.  Hence what is left after a drain reads as the chain.
DrainedReadsMatchChain ==
  Drained => \A k \in Keys : AccountRead(k, confirmed) = {OnChain(k, confirmed)}

\* A full window of queued slots is always drained, from however few wakes
\* (drain.rs 50-91: one wake can stand for many enqueues).
BacklogDrains ==
  ~mode.deleteFails /\ Cardinality(QueuedSlots(queue)) >= mode.interval ~> Cardinality(QueuedSlots(queue)) < mode.interval

\* Stated by persist.rs 11-13: the only state that reads wrong is a mask that is
\* gone while an older row is still there.  Hence getAccountInfo, too, reads the
\* chain while every block is received.
AccountReadsMatchChain ==
  \A k \in Keys, tip \in {confirmed, finalTip} : AccountRead(k, tip) = {OnChain(k, tip)}

\* Stated by drain.rs 14-15: the drainer deletes only rows the read paths already
\* hide.  Hence a read at the finalized slot the API knows of stays right.
ApiReadsMatchChain ==
  \A k \in Keys : AccountRead(k, apiTip) = {OnChain(k, apiTip)}

=============================================================================
