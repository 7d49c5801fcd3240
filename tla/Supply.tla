------------------------------- MODULE Supply -------------------------------
(***************************************************************************)
(* getSupply end to end: the stake map (module StakeMap) and the supply    *)
(* tracker (module SupplyTracker) fed by save_block, which the main loop   *)
(* runs for live blocks and the gap filler for repaired ones; the snapshot *)
(* load that anchors and seeds both while live blocks already arrive; the  *)
(* sweeper and the deletes of deferred cleanup; the rows the API serves.   *)
(*                                                                         *)
(* The chain is chosen slot by slot.  Slot 1 is the full snapshot, the     *)
(* incremental one is at an anchor the live stream has covered since its   *)
(* first block.  A gap ends the process during startup, so slots are lost  *)
(* only afterwards.                                                        *)
(***************************************************************************)
EXTENDS SupplyTracker

CONSTANTS MaxSlot,         \* bound: newest slot of the chain
          Scenes,          \* the situations a behaviour may start in
          Ring,            \* SUPPLY_RING_SLOTS
          Staleness        \* MAX_SUPPLY_STALENESS_SLOTS

Slots == 1..MaxSlot

ASSUME SupplyAssumption ==
  /\ MaxSlot \in Nat /\ Ring \in Nat /\ Staleness \in Nat
  /\ \A c \in Scenes : /\ c.keys \subseteq Keys /\ c.first \in 2..MaxSlot
                       /\ c.anchor \in c.first..MaxSlot
                       /\ c.last \in c.anchor..MaxSlot
                       /\ c.losable \subseteq c.anchor + 1 .. c.last
                       /\ c.hazards \subseteq {"startup", "live", "read", "straddle", "repeat", "late"}

VARIABLES scene,      \* first live slot, anchor, versions, slots that may be lost
          chain,      \* history: slot -> key -> account
          written,    \* history: slot -> keys the block of the slot wrote
          lost,       \* lost slots not repaired yet
          unseen,     \* history: repaired slot -> keys its repair did not bring
          received,   \* last slot received live
          flip,       \* history: slot of the row written when the tracker flipped
          nc,         \* the stake map
          sup,        \* the supply tracker
          rows,       \* account rows: [table, key, slot, lamports]
          phase,      \* where the snapshot load is
          loads,      \* snapshots whose bank was not read yet
          seeds,      \* snapshot accounts not seeded yet: [key, slot]
          balances,   \* startup balances of pass one
          task,       \* save_block of the main loop and of the gap filler
          unsaved,    \* supply rows whose spawned upsert has not run
          supplyRows, \* the supply table: slot -> row
          memberRow,  \* the member list row
          cleaned     \* slots whose superseded rows deferred cleanup deleted

vars == <<scene, chain, written, unseen, lost, received, flip, nc, sup, rows, phase, loads, seeds,
          balances, task, unsaved, supplyRows, memberRow, cleaned>>

chainVars == <<scene, chain, written, unseen>>
loadVars == <<phase, loads, seeds, balances>>
tableVars == <<unsaved, supplyRows, memberRow, cleaned>>

Idle == [pc |-> "idle"]
head == Max(DOMAIN chain)

ClockOf(s) == [slot |-> s, epoch |-> s \div 2, time |-> s]
Capitalization(s) == MapThenSumSet(LAMBDA k : chain[s][k].lamports, Keys)

\* The newest slot in lo..hi that wrote k, 0 for none.
LastWrite(k, lo, hi) == Max({0} \cup {s \in lo..hi : k \in written[s]})

\* The version of k the indexer knows of those up to a slot: the newest but for
\* the writes no repair brought.
Seen(k, hi) ==
  LET known == {s \in 2..hi : k \in written[s] /\ (s \in DOMAIN unseen => k \notin unseen[s])}
  IN  chain[Max({1} \cup known)][k]

SeenTotal(s) == MapThenSumSet(LAMBDA k : Seen(k, s).lamports, Keys)

Init ==
  /\ scene \in Scenes
  /\ \E first \in [scene.keys -> scene.versions] :
       /\ chain = (1 :> (first @@ [k \in Keys |-> Closed]))
       /\ written = (1 :> scene.keys)
  /\ lost = {} /\ unseen = <<>> /\ received = 0 /\ flip = 0
  /\ nc = StakeMapInit /\ sup = SupplyInit
  /\ rows = {} /\ phase = "idle" /\ loads = {} /\ seeds = {} /\ balances = <<>>
 
  /\ task = [t \in {"main", "fill"} |-> Idle]
  /\ unsaved = {} /\ supplyRows = <<>> /\ memberRow = [slot |-> 0, list |-> {}]
  /\ cleaned = 0

----------------------------------------------------------------------------
(* save_block                                                              *)

\* Steps up to the supply tracker: the stake map goes first.  Masks of closed
\* accounts are written only once the snapshot is loaded.
SaveStart(t, s, block, clock, repaired) ==
  /\ task[t].pc = "idle"
  /\ LET out == ApplyStakeBlock(nc, s, repaired, clock, block)
     IN  /\ nc' = out.map
         /\ task' = [task EXCEPT ![t] = [pc |-> "count", slot |-> s, block |-> block,
                                         repaired |-> repaired, stake |-> out.block,
                                         masks |-> phase = "done"]]

\* The row writes of a block.  A closed account gets a mask over its rows.
RowsOf(block, s, masks) ==
  {[table |-> "accounts", key |-> k, slot |-> s, lamports |-> block[k].lamports] :
     k \in {j \in DOMAIN block :
              \/ block[j].lamports > 0
              \/ masks /\ \E r \in rows : r.key = j /\ r.slot < s}}

\* fetch_prev_balances: the newest row below a slot.
NewestRow(table, k, below) ==
  LET found == {r \in table : r.key = k /\ r.slot < below}
  IN  IF found = {} THEN NoRow
      ELSE LET r == CHOOSE r \in found : \A q \in found : q.slot <= r.slot
           IN  [slot |-> r.slot, lamports |-> r.lamports]

Unbounded == MaxSlot + 1

\* Whether a block's row writes succeeded; a block saved since startup ended has
\* its masks.
WriteResults(t) ==
  IF (IF task[t].masks THEN "live" ELSE "startup") \in scene.hazards THEN BOOLEAN ELSE {TRUE}

Outcome(t, kind, ok, delta, touched) ==
  task' = [task EXCEPT ![t] = [pc |-> IF @.stake.changed THEN "members" ELSE "finish",
                               slot |-> @.slot, kind |-> kind, ok |-> ok, delta |-> delta,
                               touched |-> touched]]

\* apply_block of the supply tracker, under the block-writes lock: probe, miss
\* read and row writes.  A live block's read may see the rows of the block
\* itself, a repaired block's does not.
Count(t, ok) ==
  LET s == task[t].slot
      block == task[t].block
      repaired == task[t].repaired
      new == IF ok THEN RowsOf(block, s, task[t].masks) ELSE {}
      table == IF repaired THEN rows ELSE rows \cup new
      row == [k \in DOMAIN block |-> NewestRow(table, k, IF repaired THEN Unbounded ELSE s)]
      counted == CountBlock(sup, s, repaired, block, task[t].stake, row)
  IN  /\ task[t].pc = "count"
      /\ ok \in WriteResults(t)
      /\ rows' = rows \cup new
      /\ \/ /\ sup.status = "Bootstrapping"
            /\ sup' = RecordTouches(sup, s, block)
            /\ Outcome(t, "Bootstrapping", ok, 0, {})
         \/ /\ Skipped(sup, s, repaired)
            /\ Outcome(t, "Idle", ok, 0, {})
            /\ UNCHANGED sup
         \/ /\ Running(sup) /\ ~Skipped(sup, s, repaired)
            /\ sup' = counted.sup
            /\ Outcome(t, "Delta", ok, counted.delta, counted.touched)
         \/ /\ Running(sup) /\ ~Skipped(sup, s, repaired)
            /\ "read" \in scene.hazards /\ counted.missed # {}
            /\ sup' = MarkStale(sup)
            /\ Outcome(t, "ReadFailed", ok, 0, {})
      /\ UNCHANGED <<chainVars, lost, received, flip, nc, loadVars, tableVars>>

\* persist_block, for a block that changed the membership: the member list is
\* read, and upserted later.
ReadMembers(t) ==
  /\ task[t].pc = "members"
  /\ task' = [task EXCEPT ![t] = [pc |-> "upsert", list |-> Members(nc)] @@ @]
  /\ UNCHANGED <<chainVars, lost, received, flip, nc, sup, rows, loadVars, tableVars>>

UpsertMembers(t, ok) ==
  /\ task[t].pc = "upsert"
  /\ memberRow' = IF ok THEN task[t].list ELSE memberRow
  /\ task' = [task EXCEPT ![t].pc = "finish"]
  /\ UNCHANGED <<chainVars, lost, received, flip, nc, sup, rows, loadVars, unsaved, supplyRows, cleaned>>

\* finish_block: after failed writes the touched accounts are pinned, or the
\* tracker goes Stale when the pin budget has no room.
FinishBlock(t, room) ==
  LET s == task[t].slot
      kind == task[t].kind
      bad == ~task[t].ok
      poison == kind = "Bootstrapping" /\ bad /\ sup.status = "Bootstrapping"
      pinned == IF bad THEN [sup EXCEPT !.cache = PinFailed(@, task[t].touched)] ELSE sup
      committed == CommitBlock(pinned, s, task[t].delta)
  IN  /\ task[t].pc = "finish"
      /\ room \/ (kind = "Delta" /\ bad)
      /\ sup' = CASE kind = "Delta" /\ bad /\ ~room -> MarkStale(sup)
                  [] kind = "Delta" /\ (~bad \/ room) -> committed
                  [] kind # "Delta" -> IF poison THEN [sup EXCEPT !.failed = TRUE] ELSE sup
      /\ unsaved' = IF kind = "Delta" /\ (~bad \/ room) /\ Publishes(sup, s)
                      THEN unsaved \cup {Commit(committed, nc)} ELSE unsaved
      /\ task' = [task EXCEPT ![t] = Idle]
      /\ UNCHANGED <<chainVars, lost, received, flip, nc, rows, loadVars, supplyRows, memberRow,
                     cleaned>>

\* persist_supply_row: upsert by slot and prune the ring.  A spawned upsert that
\* fails stays unsaved.
SaveRow(row) ==
  supplyRows' = (row.slot :> row)
                  @@ Restrict(supplyRows, {s \in DOMAIN supplyRows : s >= row.slot - Ring})

PersistRow(row) ==
  /\ row \in unsaved
  /\ unsaved' = unsaved \ {row}
  /\ SaveRow(row)
  /\ UNCHANGED <<chainVars, lost, received, flip, nc, sup, rows, loadVars, task, memberRow, cleaned>>

----------------------------------------------------------------------------
(* The main loop                                                           *)

\* The next block of the chain: the versions it writes.
Blocks == UNION {[K -> scene.versions] : K \in SUBSET scene.keys}

Extend(block) ==
  /\ head < scene.last
  /\ chain' = ((head + 1) :> (block @@ chain[head])) @@ chain
  /\ written' = ((head + 1) :> DOMAIN block) @@ written

\* Blocks before the indexer starts, and blocks the stream loses.
Missed(block) ==
  /\ Extend(block)
  /\ \/ head + 1 < scene.first /\ UNCHANGED lost
     \/ head + 1 \in scene.losable /\ phase = "done" /\ lost' = lost \cup {head + 1}
  /\ UNCHANGED <<scene, unseen, received, flip, nc, sup, rows, loadVars, task, tableVars>>

\* process_update with a block: check_slot_gap marks a gap the block reveals,
\* then the block is saved.  The first block starts the snapshot load.
Receive(block) ==
  /\ head + 1 >= scene.first
  /\ Extend(block)
  /\ received' = head + 1
  /\ sup' = IF \E g \in lost : g > received THEN MarkGap(sup) ELSE sup
  /\ SaveStart("main", head + 1, block, ClockOf(head + 1), FALSE)
  /\ phase' = IF phase = "idle" THEN "wait" ELSE phase
  /\ UNCHANGED <<scene, unseen, lost, flip, rows, loads, seeds, balances, tableVars>>

\* A block the stream repeats after a reconnect: it goes through save_block once
\* more.  Repeats start at the block after the last one processed, long before
\* the cleanup of a slot.
Repeat(s) ==
  /\ "repeat" \in scene.hazards
  /\ s \in scene.first .. received \ lost
  /\ s > cleaned
  /\ s \notin DOMAIN unseen
  /\ SaveStart("main", s, Restrict(chain[s], written[s]), ClockOf(s), FALSE)
  /\ UNCHANGED <<chainVars, lost, received, flip, sup, rows, loadVars, tableVars>>

\* A lost block that comes after all, while other gap slots are repaired: it
\* leaves the gaps list and is saved as a live block.  The trackers take it for a
\* repeat: unless it writes none of the keys, it is a deviation (V5).
LateBlock(s) ==
  /\ s \in lost /\ s < received
  /\ "late" \in scene.hazards \/ written[s] = {}
  /\ lost \ {s} # {} \/ task["fill"].pc # "idle"
  /\ lost' = lost \ {s}
  /\ SaveStart("main", s, Restrict(chain[s], written[s]), ClockOf(s), FALSE)
  /\ UNCHANGED <<chainVars, received, flip, sup, rows, loadVars, tableVars>>

----------------------------------------------------------------------------
(* The gap filler                                                          *)

\* The incremental snapshot of slot z holds, of a lost block, the writes that
\* no later block up to z has overwritten, and those of its closes that were not
\* cleaned out of it.
Carried(s, z, cleanedOut) == {k \in written[s] \ cleanedOut : LastWrite(k, s, z) = s}

ClosedIn(s) == {k \in written[s] : chain[s][k].lamports = 0}

Repair(s, z, cleanedOut) ==
  /\ s \in lost /\ lost \subseteq 1..received
  /\ z \in Max(lost)..head
  /\ cleanedOut \subseteq ClosedIn(s)
  /\ SaveStart("fill", s, Restrict(chain[s], Carried(s, z, cleanedOut)),
               IF z = s THEN ClockOf(s) ELSE NoClock, TRUE)
  /\ lost' = lost \ {s}
  /\ unseen' = (s :> written[s] \ Carried(s, z, cleanedOut)) @@ unseen
  /\ UNCHANGED <<scene, chain, written, received, flip, sup, rows, loadVars, tableVars>>

\* Every repaired block is saved and the gaps list is empty.
FillDone ==
  /\ lost = {} /\ task["fill"].pc = "idle"
  /\ sup.status = "GapFilling"
  /\ sup' = FinishGap(sup)
  /\ UNCHANGED <<chainVars, lost, received, flip, nc, rows, loadVars, task, tableVars>>

----------------------------------------------------------------------------
(* The snapshot load                                                       *)

\* The snapshots the cluster offers once the chain reached the anchor.
StartLoad ==
  /\ phase = "wait" /\ head >= scene.anchor
  /\ phase' = "load" /\ loads' = {1, scene.anchor}
  /\ UNCHANGED <<chainVars, lost, received, flip, nc, sup, rows, seeds, balances, task,
                 tableVars>>

\* Accounts of a snapshot: the full one has no closed accounts, the incremental
\* one has the newest write of every account written since.
SnapshotAccounts(p) ==
  IF p = 1
    THEN {[key |-> k, slot |-> 1] : k \in {j \in Keys : chain[1][j].lamports > 0}}
    ELSE {[key |-> k, slot |-> LastWrite(k, 2, p)] : k \in {j \in Keys : LastWrite(j, 2, p) > 0}}

\* The bank of a snapshot: seed_anchor, and the row it upserts; its account
\* files follow.  The Clock sysvar comes with them.
SeedAnchor(p) ==
  /\ p \in loads
  /\ loads' = loads \ {p}
  /\ sup' = SetStartupTotal(sup, p, Capitalization(p))
  /\ SaveRow([slot |-> p, total |-> Capitalization(p), nonCirculating |-> -1])
  /\ nc' = SeedClock(nc, ClockOf(p))
  /\ seeds' = seeds \cup SnapshotAccounts(p)
  /\ UNCHANGED <<chainVars, lost, received, flip, rows, phase, balances, task, unsaved,
                 memberRow, cleaned>>

\* One account of a file: the stake map is seeded and the row inserted.
Seed(d) ==
  /\ d \in seeds
  /\ seeds' = seeds \ {d}
  /\ nc' = SeedAccount(nc, d.key, chain[d.slot][d.key], d.slot)
  /\ rows' = rows \cup {[table |-> "snapshot", key |-> d.key, slot |-> d.slot,
                         lamports |-> chain[d.slot][d.key].lamports]}
  /\ UNCHANGED <<chainVars, lost, received, flip, sup, phase, loads, balances, task,
                 tableVars>>

\* The load outlasts the lag of the main loop: when it ends, the blocks up to
\* the anchor are applied.  A block at or below the anchor that is applied after
\* the flip is dropped as a replay, with what it says about zeroPrev.
CaughtUp ==
  /\ received >= scene.anchor
  /\ task["main"].pc = "count" => task["main"].slot > scene.anchor

\* Dedup and closed-account deletes, then the stake map flips and its member
\* list is written.
FlipStakeMap ==
  /\ phase = "load" /\ loads = {} /\ seeds = {} /\ CaughtUp
  /\ LET snap == {r \in rows : r.table = "snapshot"}
         newest == {r \in snap : \A q \in snap : q.key = r.key => q.slot <= r.slot}
     IN  rows' = (rows \ snap) \cup {r \in newest : r.lamports > 0}
  /\ CanFlip(nc)
  /\ nc' = Flip(nc)
  /\ memberRow' = Members(nc')
  /\ phase' = "resolve"
  /\ UNCHANGED <<chainVars, lost, received, flip, sup, loads, seeds, balances, task,
                 unsaved, supplyRows, cleaned>>

\* fetch_startup_balances for some keys.
StartupBalances(K) ==
  [k \in K |-> Max({0} \cup {r.lamports : r \in {q \in rows : q.table = "snapshot" /\ q.key = k
                                                               /\ q.slot <= sup.startup}})]

\* finish_bootstrap, pass one, without the lock.
ResolveOne ==
  /\ phase = "resolve"
  /\ IF CanResolve(sup)
       THEN /\ balances' = StartupBalances(DOMAIN sup.touched)
            /\ phase' = "resolve2"
       ELSE phase' = "done" /\ UNCHANGED balances
  /\ UNCHANGED <<chainVars, lost, received, flip, nc, sup, rows, loads, seeds, task, tableVars>>

\* Pass two takes the lock, reads the late touches, folds the window and flips.
ResolveTwo ==
  /\ phase = "resolve2"
  /\ "straddle" \in scene.hazards \/ task["main"].pc # "count"
  /\ phase' = "done"
  /\ IF CanResolve(sup)
       THEN LET all == balances @@ StartupBalances(DOMAIN sup.touched \ DOMAIN balances)
            IN  /\ sup' = FinishBootstrap(sup, all)
                /\ SaveRow(Commit(FinishBootstrap(sup, all), nc))
                /\ flip' = FinishBootstrap(sup, all).slot
       ELSE UNCHANGED <<sup, supplyRows, flip>>
  /\ UNCHANGED <<chainVars, lost, received, nc, rows, loads, seeds, balances, task,
                 unsaved, memberRow, cleaned>>

----------------------------------------------------------------------------
(* Background tasks                                                        *)

\* The sweeper, off the block path.  The cache holds the accounts of far more
\* slots than cleanup lags behind, so what it drops is cleaned up; the sweeper
\* skips an unhealthy node, which one with a gap is.
Sweep(cutoff) ==
  /\ sup.status = "Live" /\ lost = {}
  /\ cutoff <= cleaned + 1
  /\ sup' = [sup EXCEPT !.cache = SweepCache(@, cutoff)]
  /\ sup' # sup
  /\ UNCHANGED <<chainVars, lost, received, flip, nc, rows, loadVars, task, tableVars>>

\* The deletes for the finalized slots up to f, which stay below a gap: rows a
\* newer row supersedes, and every row of an account a saved block closed since.
CleanRows(f) ==
  /\ phase = "done" /\ lost = {}
  /\ f \in cleaned + 1 .. received
  /\ \A t \in {"main", "fill"} : task[t].pc = "idle"
  /\ rows' = {r \in rows : \/ r.slot > f
                            \/ /\ r.slot = NewestRow(rows, r.key, f + 1).slot
                               /\ Seen(r.key, f).lamports > 0}
  /\ cleaned' = f
  /\ UNCHANGED <<chainVars, lost, received, flip, nc, sup, loadVars, task, unsaved,
                 supplyRows, memberRow>>

----------------------------------------------------------------------------
(* The API                                                                 *)

Unhealthy == [slot |-> -1]

\* get_supply on a healthy node, at a commitment and the finalized slot the API
\* knows.
GetSupply(commitment, finalized) ==
  LET rowSlots == {s \in DOMAIN supplyRows : commitment = "finalized" => s <= finalized}
      row == supplyRows[Max(rowSlots)]
  IN  IF \/ memberRow.slot = 0 \/ rowSlots = {}
         \/ row.nonCirculating = -1 \/ finalized - row.slot > Staleness
        THEN Unhealthy ELSE row

----------------------------------------------------------------------------
Next ==
  \/ \E t \in {"main", "fill"} :
       \/ \E ok \in BOOLEAN : Count(t, ok)
       \/ ReadMembers(t)
       \/ \E ok \in BOOLEAN : UpsertMembers(t, ok)
       \/ \E room \in BOOLEAN : FinishBlock(t, room)
  \/ \E row \in unsaved : PersistRow(row)
  \/ \E block \in Blocks : Missed(block) \/ Receive(block)
  \/ \E s \in Slots : Repeat(s) \/ LateBlock(s)
  \/ \E s \in lost, z \in Slots, cleanedOut \in SUBSET scene.keys : Repair(s, z, cleanedOut)
  \/ FillDone
  \/ StartLoad
  \/ \E p \in loads : SeedAnchor(p)
  \/ \E d \in seeds : Seed(d)
  \/ FlipStakeMap \/ ResolveOne \/ ResolveTwo
  \/ \E c \in Slots : Sweep(c) \/ CleanRows(c)

Spec == Init /\ [][Next]_vars

----------------------------------------------------------------------------
(* Properties                                                              *)

Quiet == task["main"].pc = "idle" /\ task["fill"].pc = "idle" /\ lost = {}

\* The lamports Agave counts as non-circulating at a slot.
NonCirculatingAt(s) ==
  {k \in Keys : Evaluate(EntryOf(k, chain[s][k], s), ClockOf(s))}

NonCirculatingTotal(s) ==
  MapThenSumSet(LAMBDA k : chain[s][k].lamports, NonCirculatingAt(s))

\* Between two blocks, with every lost block repaired, a live total is the
\* capitalization of the slot it stands at, and nothing else than the residual
\* that supply/mod.rs 95-96 names is in it: an account closed in a gap, whose
\* close the snapshot did not carry, counts with its last balance until it is
\* written again.  The deltas of live, repeated, repaired and startup-window
\* blocks, their cached, read and pinned previous balances and the stake map's
\* own delta count every other lamport once (apply_block, finish_bootstrap and
\* finish_gap of supply/tracker.rs).
SupplyExact ==
  Quiet /\ sup.status = "Live" => sup.total = SeenTotal(sup.slot)

\* What get_supply serves is the capitalization, up to the residual named at
\* SupplyExact, and the non-circulating total of the slot in its context, whatever was persisted late, skipped during a gap or
\* pruned from the ring; the row the flip itself commits pairs two trackers
\* that flip one after the other, and is exempt for its non-circulating part.
SupplyServedExact ==
  \A c \in {"finalized", "confirmed"}, f \in 0..head :
    LET row == GetSupply(c, f)
    IN  row # Unhealthy =>
          /\ row.total = SeenTotal(row.slot)
          /\ row.slot # flip => row.nonCirculating = NonCirculatingTotal(row.slot)

\* The live stake map agrees with the chain at the slot it stands at: the stake
\* accounts it owns and their lamports, the members under that slot's Clock
\* and their total, after seeds, repeated blocks, expiries by epoch and by time,
\* and repaired blocks (apply_block, expire and place of non_circulating/tracker.rs).
StakeMapExact ==
  Quiet /\ nc.status = "Live" =>
    /\ \A k \in Keys : Owned(nc, k) <=> chain[nc.slot][k].owner = "stake"
    /\ \A k \in Keys : Owned(nc, k) => nc.accounts[k].lamports = chain[nc.slot][k].lamports
    /\ nc.members = NonCirculatingAt(nc.slot) \cup Pinned
    /\ nc.total = NonCirculatingTotal(nc.slot)

\* Without lost blocks, the persisted member list is the one of the slot it
\* claims: persist_block reads list and slot under one lock, and upserts them
\* after other blocks may have been applied.
MemberRowExact ==
  memberRow.slot > flip /\ scene.losable = {} =>
    memberRow.list = NonCirculatingAt(memberRow.slot) \cup Pinned

\* No account has two previous balances: a key the stake map answers for is not
\* in the balance cache, through every owner change (write_back removes the
\* accounts that became stake accounts).
OneSource == Quiet /\ nc.status = "Live" => \A k \in DOMAIN sup.cache : ~Owned(nc, k)
=============================================================================
