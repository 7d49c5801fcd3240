--------------------------- MODULE LargestAccounts ---------------------------
(***************************************************************************)
(* getLargestAccounts and getTokenLargestAccounts end to end: the tracker  *)
(* of module LargestTop fed by save_block of the main loop and of the gap  *)
(* filler and by the files of the snapshots, the records its outcomes      *)
(* leave in the largest_accounts table, the pruner and the API's reads.    *)
(*                                                                         *)
(* Membership in the non-circulating set is part of the chain here: the    *)
(* stake map that computes it is module StakeMap.  Slot 1 is the full      *)
(* snapshot, the incremental one is at an anchor the live stream covers.   *)
(***************************************************************************)
EXTENDS LargestTop

CONSTANTS MaxSlot,  \* bound: newest slot of the chain
          Scenes    \* the situations a behaviour may start in

\* What may happen in a scene; all but failing writes and deletes are deviations
\* (README).
Hazards == {"straddle", "overtake", "write", "delete", "expiry", "mint", "closes"}

ASSUME LargestAssumption ==
  /\ MaxSlot \in Nat
  /\ \A c \in Scenes : /\ c.keys \subseteq Keys /\ c.pinned \subseteq c.keys
                       /\ c.start \in [c.keys -> c.versions]
                       /\ c.first \in 2..c.anchor /\ c.anchor \in 2..c.last /\ c.last <= MaxSlot
                       /\ c.losable \subseteq c.anchor + 1 .. c.last /\ c.width \in Nat
                       /\ c.boot \in c.anchor..c.last /\ c.quiet \subseteq 2..c.last
                       /\ c.hazards \subseteq Hazards
                       /\ \A v \in c.versions : v.lamports \in Nat /\ v.amount \in Nat
                                                /\ v.mint \in Tokens \cup {"none"} /\ v.locked \in BOOLEAN

VARIABLES scene,      \* the situation: accounts, versions, slots, hazards
          chain,      \* history: slot -> key -> account
          written,    \* history: slot -> keys the block wrote
          lost,       \* lost slots not repaired yet
          received,   \* last slot received live
          saved,      \* last slot saved by the main loop
          fence,      \* history: newest slot when a repaired block or the flip was applied
          nc,         \* the stake map: whether it is live, its slot, key -> entry
          tracker,    \* the largest-accounts tracker
          phase,      \* where the snapshot load is
          files,      \* snapshots whose accounts are not merged yet
          task,       \* save_block of the main loop and the gap filler, and the flip
          table       \* the largest_accounts table: mint -> slot -> rows

vars == <<scene, chain, written, lost, received, saved, fence, nc, tracker, phase, files, task, table>>

chainVars == <<scene, chain, written>>

Closed == [lamports |-> 0, mint |-> "none", amount |-> 0, locked |-> FALSE]
Idle == [pc |-> "idle"]
head == Max(DOMAIN chain)

\* Pinned accounts are members whatever their state.
IsMember(k, s) == k \in scene.pinned \/ chain[s][k].locked

LastWrite(k, lo, hi) == Max({0} \cup {s \in lo..hi : k \in written[s]})

Init ==
  /\ scene \in Scenes
  /\ chain = (1 :> (scene.start @@ [k \in Keys |-> Closed]))
  /\ written = (1 :> scene.keys)
  /\ lost = {} /\ received = 0 /\ saved = 0 /\ fence = 0
  /\ nc = [live |-> FALSE, slot |-> 0, entry |-> <<>>]
  /\ tracker = TrackerInit
  /\ phase = "idle" /\ files = {}
  /\ task = [t \in {"main", "fill", "flip"} |-> Idle]
  /\ table = [m \in Mints |-> <<>>]

----------------------------------------------------------------------------
(* save_block                                                              *)

\* The stake map takes the block: the newest slot wins, and members whose
\* lockup the block's clock ended are returned.
ApplyStake(s, block, expired) ==
  LET fresh == {k \in DOMAIN block : k \in DOMAIN nc.entry => nc.entry[k].slot <= s}
      entry == [k \in fresh |-> [slot |-> s, lamports |-> block[k].lamports,
                                 member |-> k \in scene.pinned \/ block[k].locked]]
      gone == [k \in expired \cap DOMAIN nc.entry |-> [nc.entry[k] EXCEPT !.member = FALSE]]
  IN  [nc EXCEPT !.slot = Max({@, s}), !.entry = entry @@ gone @@ @]

\* build_block_pending, with the membership after the block.
PendingOf(map, block, expired) ==
  [k \in DOMAIN block |->
     [version |-> "write", lamports |-> block[k].lamports, mint |-> block[k].mint,
      amount |-> block[k].amount, nonCirculating |-> map.live /\ map.entry[k].member]]
  @@ [k \in expired |->
        [version |-> "expired", lamports |-> map.entry[k].lamports, mint |-> "none", amount |-> 0,
         nonCirculating |-> FALSE]]

SaveStart(t, s, block, expired) ==
  LET ended == {k \in expired : nc.live /\ nc.entry[k].member}
  IN  /\ task[t].pc = "idle"
      /\ nc' = ApplyStake(s, block, expired)
      /\ task' = [task EXCEPT ![t] = [pc |-> "apply", slot |-> s, classified |-> nc.live,
                                      pending |-> PendingOf(nc', block, ended)]]

\* Outcomes of two tasks are persisted in the order they were computed.
InOrder == "overtake" \in scene.hazards \/ \A t \in DOMAIN task : task[t].pc # "persist"

\* commit_block: apply_block under the mutex, the outcome persisted after it.
Commit(t) ==
  /\ task[t].pc = "apply" /\ InOrder
  /\ \E order \in SetToSeqs(DOMAIN task[t].pending) :
       LET out == ApplyBlock(tracker, task[t].slot, task[t].pending, order)
       IN  /\ tracker' = out.tracker
           /\ task' = [task EXCEPT ![t] = [pc |-> "persist", slot |-> task[t].slot,
                                           outcome |-> out.outcome]]
  /\ fence' = IF t = "fill" THEN head ELSE fence
  /\ UNCHANGED <<chainVars, lost, received, saved, nc, phase, files, table>>

\* persist_largest_outcome, and persist_records of the flip, which deletes
\* nothing.  Records that could not be written mark their tops stale.
Persist(t, wrote, deleted) ==
  LET out == task[t].outcome
      recorded == {r.mint : r \in out.records}
      deletes == (IF t = "flip" THEN {} ELSE out.deletes)
                   \cup (IF wrote \/ t = "flip" THEN {} ELSE recorded)
      RowsOf(m) == (CHOOSE r \in out.records : r.mint = m).rows
  IN  /\ task[t].pc = "persist"
      /\ wrote \/ ("write" \in scene.hazards /\ out.records # {})
      /\ deleted \/ ("delete" \in scene.hazards /\ deletes # {})
      /\ table' = [m \in Mints |->
                     IF m \in recorded /\ wrote THEN (out.slot :> RowsOf(m)) @@ table[m]
                     ELSE IF m \in deletes /\ deleted THEN <<>> ELSE table[m]]
      /\ tracker' = IF wrote THEN tracker
                    ELSE [tracker EXCEPT !.tops = [m \in recorded |-> LatchStale(@[m])] @@ @]
      /\ task' = [task EXCEPT ![t] = Idle]
      /\ saved' = IF t = "main" THEN task[t].slot ELSE saved
      /\ phase' = IF t = "flip" THEN "done" ELSE phase
      /\ UNCHANGED <<chainVars, lost, received, fence, nc, files>>

----------------------------------------------------------------------------
(* The main loop                                                           *)

Blocks == {b \in UNION {[D -> scene.versions] : D \in SUBSET scene.keys} :
             Cardinality(DOMAIN b) <= scene.width}

\* During startup an account changes its mint in two blocks, the one that closes
\* it and the one that creates it again.
KeepsMint(block) ==
  \A k \in DOMAIN block :
    block[k].mint = chain[head][k].mint \/ block[k].lamports = 0 \/ chain[head][k].lamports = 0

\* The accounts a lockup of which the Clock may end: members, or accounts that
\* the stake map takes for members because it missed a write.
Lockups ==
  {k \in scene.keys \ scene.pinned : chain[head][k].locked \/ (nc.live /\ nc.entry[k].member)}

Extend(block, expired) ==
  /\ head < IF phase = "done" THEN scene.last ELSE scene.boot
  /\ head + 1 \in scene.quiet => block = <<>>
  /\ phase # "done" => KeepsMint(block) \/ "mint" \in scene.hazards
  /\ expired \subseteq Lockups \ DOMAIN block
  /\ chain' = ((head + 1) :> (block @@ [k \in expired |-> [chain[head][k] EXCEPT !.locked = FALSE]]
                                    @@ chain[head])) @@ chain
  /\ written' = ((head + 1) :> DOMAIN block) @@ written

\* Blocks before the indexer starts, and blocks the stream loses.
Missed(block) ==
  /\ Extend(block, {})
  /\ \/ head + 1 < scene.first /\ UNCHANGED lost
     \/ head + 1 \in scene.losable /\ phase = "done" /\ lost' = lost \cup {head + 1}
  /\ UNCHANGED <<scene, received, saved, fence, nc, tracker, phase, files, task, table>>

\* No lockup ends of an account whose write is lost.
Receive(block, expired) ==
  /\ head + 1 >= scene.first
  /\ "expiry" \in scene.hazards \/ \A s \in lost : expired \cap written[s] = {}
  /\ Extend(block, expired)
  /\ received' = head + 1
  /\ SaveStart("main", head + 1, block, expired)
  /\ phase' = IF phase = "idle" THEN "wait" ELSE phase
  /\ UNCHANGED <<scene, lost, saved, fence, tracker, files, table>>

\* The incremental snapshot of slot z holds the writes of a lost block that no
\* later block up to z has overwritten, but for closes cleaned out of it.
Carried(s, z, cleanedOut) == {k \in written[s] \ cleanedOut : LastWrite(k, s, z) = s}

\* A repaired write is classified by the newest Clock.
AtClock(s, k) == IF LastWrite(k, s, received) = s THEN chain[received][k] ELSE chain[s][k]

Repair(s, z, cleanedOut) ==
  /\ s \in lost /\ lost \subseteq 1..received
  /\ z \in Max(lost)..head
  /\ cleanedOut \subseteq {k \in written[s] : "closes" \in scene.hazards /\ chain[s][k].lamports = 0}
  /\ SaveStart("fill", s, [k \in Carried(s, z, cleanedOut) |-> AtClock(s, k)], {})
  /\ lost' = lost \ {s}
  /\ UNCHANGED <<chainVars, received, saved, fence, tracker, phase, files, table>>

----------------------------------------------------------------------------
(* The snapshot load                                                       *)

StartLoad ==
  /\ phase = "wait" /\ head >= scene.anchor
  /\ phase' = "load" /\ files' = {1, scene.anchor}
  /\ UNCHANGED <<chainVars, lost, received, saved, fence, nc, tracker, task, table>>

\* Accounts of a snapshot: the full one has no closed accounts, the incremental
\* one has the newest write of every account written since.
FileOf(p) ==
  LET newest == [k \in Keys |-> IF p = 1 THEN 1 ELSE LastWrite(k, 2, p)]
  IN  {[key |-> k, account |-> chain[newest[k]][k], stamp |-> Stamp(newest[k], "write")] :
         k \in {j \in Keys : IF p = 1 THEN chain[1][j].lamports > 0 ELSE newest[j] > 0}}

MergeFile(p) ==
  /\ p \in files
  /\ files' = files \ {p}
  /\ tracker' = MergeSeed(tracker, FileOf(p))
  /\ UNCHANGED <<chainVars, lost, received, saved, fence, nc, phase, task, table>>

\* The stake map goes live; it is exact for the newest block it took.
FlipStake ==
  /\ phase = "load" /\ files = {} /\ nc.slot >= scene.anchor
  /\ phase' = "flip"
  /\ nc' = [nc EXCEPT !.live = TRUE,
                      !.entry = [k \in Keys |-> [slot |-> LastWrite(k, 1, nc.slot),
                                                 lamports |-> chain[nc.slot][k].lamports,
                                                 member |-> IsMember(k, nc.slot)]]]
  /\ UNCHANGED <<chainVars, lost, received, saved, fence, tracker, files, task, table>>

MemberBalances ==
  {[key |-> k, slot |-> nc.entry[k].slot, lamports |-> nc.entry[k].lamports] :
     k \in {j \in Keys : nc.entry[j].member}}

\* finish_bootstrap_and_persist.  A block classified before the stake map went
\* live is applied before the flip.
FlipTops ==
  /\ phase = "flip" /\ task["flip"].pc = "idle" /\ InOrder
  /\ task["main"].pc = "apply" => task["main"].classified \/ "straddle" \in scene.hazards
  /\ LET out == FinishBootstrap(tracker, MemberBalances)
     IN  /\ tracker' = out.tracker
         /\ task' = [task EXCEPT !["flip"] = [pc |-> "persist", outcome |-> out.outcome]]
  /\ fence' = Max({fence, nc.slot})
  /\ UNCHANGED <<chainVars, lost, received, saved, nc, phase, files, table>>

----------------------------------------------------------------------------
(* Pruner and API                                                          *)

\* prune_largest_accounts at a finalized slot.
Pruned(rows, f) ==
  LET below == {s \in DOMAIN rows : s <= f}
  IN  IF below = {} THEN rows ELSE Restrict(rows, {s \in DOMAIN rows : s >= Max(below)})

Prune(f) ==
  /\ f \in 1..saved
  /\ table' = [m \in Mints |-> Pruned(table[m], f)]
  /\ table' # table
  /\ UNCHANGED <<chainVars, lost, received, saved, fence, nc, tracker, phase, files, task>>

\* fetch_record: the newest record at or below the slot of the commitment; no
\* record is an error.
NoRecord == {}

FetchRecord(m, slot) ==
  LET below == {s \in DOMAIN table[m] : s <= slot}
  IN  IF below = {} THEN NoRecord ELSE table[m][Max(below)]

Next ==
  \/ \E t \in DOMAIN task :
       \/ Commit(t)
       \/ \E wrote, deleted \in BOOLEAN : Persist(t, wrote, deleted)
  \/ \E block \in Blocks : Missed(block) \/ \E E \in SUBSET scene.keys : Receive(block, E)
  \/ \E s \in lost, z \in DOMAIN chain, cleanedOut \in SUBSET scene.keys : Repair(s, z, cleanedOut)
  \/ StartLoad
  \/ \E p \in files : MergeFile(p)
  \/ FlipStake \/ FlipTops
  \/ \E f \in DOMAIN chain : Prune(f)

Spec == Init /\ [][Next]_vars

----------------------------------------------------------------------------
(* Properties                                                              *)

\* The holders a top ranks, and the amounts it ranks them by.
HoldersAt(m, s) ==
  {[key |-> k, amount |-> IF m \in Sentinels THEN chain[s][k].lamports ELSE chain[s][k].amount] :
     k \in {j \in Keys : /\ chain[s][j].lamports > 0
                         /\ CASE m = "sol" -> TRUE
                              [] m = "circulating" -> ~IsMember(j, s)
                              [] m = "nonCirculating" -> IsMember(j, s)
                              [] m \in Tokens -> chain[s][j].mint = m}}

\* The rows are a top of the holders: ties may go either way.
IsTop(rows, holders) ==
  /\ rows \subseteq holders
  /\ Cardinality(rows) = Min({TopN, Cardinality(holders)})
  /\ \A x \in rows, y \in holders \ rows : y.amount <= x.amount

\* A record served by getLargestAccounts or getTokenLargestAccounts for a slot is
\* the true top of that slot: evictions, repaired blocks, class moves and failed
\* writes only ever leave no record (dropped_floor, latch_stale).  Slots before
\* the newest one when a repaired block or the flip was applied are not
\* covered: their records are not rewritten.
LargestServedExact ==
  task["fill"].pc = "idle" =>
    \A m \in Mints, s \in fence..saved :
      (lost \cap 1..s = {} /\ FetchRecord(m, s) # NoRecord) =>
        IsTop(FetchRecord(m, s), HoldersAt(m, s))

\* No account is in the circulating and the non-circulating top at once once the
\* class sentinels are seeded and the block that moves it is applied
\* (remove_member on a class change, seed_class_sentinels).
OneClass ==
  tracker.status = "Live" /\ task["main"].pc # "apply" =>
    DOMAIN tracker.tops["circulating"].entries \cap DOMAIN tracker.tops["nonCirculating"].entries = {}

\* The reverse index finds the token top every account is in, so a close or a
\* move leaves no entry behind (member_index).
IndexComplete ==
  /\ \A m \in Tokens : \A k \in DOMAIN tracker.tops[m].entries :
       k \in DOMAIN tracker.index /\ tracker.index[k] = m
  /\ \A k \in DOMAIN tracker.index : k \in DOMAIN tracker.tops[tracker.index[k]].entries

=============================================================================
