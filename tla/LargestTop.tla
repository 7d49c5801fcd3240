----------------------------- MODULE LargestTop -----------------------------
(***************************************************************************)
(* The in-memory state of the largest-accounts tracker: a bounded top per  *)
(* mint with the floor of what was dropped from it, the seed reservoir of  *)
(* the snapshot and the operations on them (largest_accounts/tracker.rs).  *)
(* Operators take and return the tracker; "touched" is the set of tops the *)
(* current call changed.                                                   *)
(***************************************************************************)
EXTENDS Integers, Sequences, FiniteSets, FiniteSetsExt, Functions, SequencesExt, TLC

CONSTANTS Keys,    \* accounts, numbers, so that ties break as pubkeys do
          Tokens,  \* tracked mints
          TopN,    \* PERSISTED_TOP_N
          K        \* accounts-per-mint

Sentinels == {"sol", "circulating", "nonCirculating"}
Mints == Sentinels \cup Tokens

ASSUME TopAssumption == /\ Keys \subseteq Nat /\ Sentinels \cap Tokens = {}
                        /\ TopN \in Nat \ {0} /\ K \in Nat /\ K >= TopN

\* (slot, write version): a synthetic update, a write, the final state of a slot.
Stamp(slot, version) == 3 * slot + (CASE version = "expired" -> 0
                                      [] version = "write" -> 1
                                      [] version = "max" -> 2)

EmptyTop == [entries |-> <<>>, floor |-> 0, stale |-> FALSE, last |-> {}]

TrackerInit ==
  [status |-> "Bootstrapping", max |-> 0, tops |-> [m \in Mints |-> EmptyTop],
   index |-> <<>>, tombstones |-> <<>>, reservoir |-> [m \in Mints |-> {}], touched |-> {}]

Less(x, y) == x.amount < y.amount \/ (x.amount = y.amount /\ x.key < y.key)

Holders(top) == {[key |-> k, amount |-> top.entries[k].amount] : k \in DOMAIN top.entries}

\* min_entry, which cached_min always equals.
MinHolder(top) == CHOOSE x \in Holders(top) : \A y \in Holders(top) : ~Less(y, x)

\* The n largest of a set of holders.
Largest(n, holders) == {x \in holders : Cardinality({y \in holders : Less(x, y)}) < n}

Without(f, k) == Restrict(f, DOMAIN f \ {k})

Raise(top, amount) == [top EXCEPT !.floor = Max({@, amount})]

\* Mutant: what was dropped counts only when the top has room.
SoundIgnoresFloor(top) == Cardinality(DOMAIN top.entries) < TopN => top.floor = 0

\* compute_top: sound unless an account dropped from the top may belong to it.
Sound(top) ==
  LET rows == Largest(TopN, Holders(top))
  IN  /\ Cardinality(rows) < TopN => top.floor = 0
      /\ \A x \in rows : x.amount >= top.floor

LatchStale(top) == [top EXCEPT !.stale = TRUE, !.last = IF top.stale THEN @ ELSE {}]

RecordTombstone(tr, k, stamp) ==
  [tr EXCEPT !.tombstones =
     (k :> (IF k \in DOMAIN @ THEN Max({@[k], stamp}) ELSE stamp)) @@ @]

\* Mutant: the reverse index keeps accounts that left their top.
UnindexForgets(tr, m, k) == tr.index

\* The reverse index has no sentinels.
Unindex(tr, m, k) == IF m \in Sentinels THEN tr.index ELSE Without(tr.index, k)
Index(tr, m, k) == IF m \in Sentinels THEN tr.index ELSE (k :> m) @@ tr.index

\* Mutant: only the tops the reverse index knows are cleared.
RemoveMemberOfToken(tr, m, k, stamp) ==
  IF k \in DOMAIN tr.index /\ tr.index[k] = m
    THEN [tr EXCEPT !.tops[m].entries = Without(@, k), !.index = Without(@, k),
                    !.touched = @ \cup {m}]
    ELSE tr

RemoveMember(tr, m, k, stamp) ==
  IF k \in DOMAIN tr.tops[m].entries /\ stamp > tr.tops[m].entries[k].stamp
    THEN [tr EXCEPT !.tops[m].entries = Without(@, k),
                    !.index = Unindex(tr, m, k),
                    !.touched = @ \cup {m}]
    ELSE tr

\* One balance into one top.  Outside bootstrap a full top drops its minimum or
\* the newcomer, and a newcomer of an old block is always dropped: what may have
\* replaced it since is unknown.
ApplyUpdate(tr, m, k, amount, stamp, bootstrapping, oldBlock) ==
  LET top == tr.tops[m]
      member == k \in DOMAIN top.entries
      entry == [amount |-> amount, stamp |-> stamp]
      full == ~bootstrapping /\ Cardinality(DOMAIN top.entries) >= K
      drop == IF amount > top.floor
                THEN [tr EXCEPT !.tops[m] = Raise(@, amount), !.touched = @ \cup {m}]
                ELSE tr
      low == MinHolder(top)
      room == IF full
                THEN [tr EXCEPT !.tops[m] = [Raise(@, low.amount) EXCEPT !.entries = Without(@, low.key)],
                                !.index = Unindex(tr, m, low.key)]
                ELSE tr
  IN  CASE bootstrapping /\ k \in DOMAIN tr.tombstones /\ tr.tombstones[k] >= stamp -> tr
        [] OTHER ->
             IF member
               THEN IF stamp > top.entries[k].stamp
                      THEN [tr EXCEPT !.tops[m].entries[k] = entry, !.touched = @ \cup {m}]
                      ELSE tr
             ELSE IF oldBlock \/ (full /\ amount <= low.amount) THEN drop
             ELSE [room EXCEPT !.tops[m].entries = (k :> entry) @@ @,
                               !.index = Index(room, m, k),
                               !.touched = @ \cup {m}]

Trim(tr, m) ==
  LET top == tr.tops[m]
      keep == {x.key : x \in Largest(K, Holders(top))}
      victims == {x \in Holders(top) : x.key \notin keep}
  IN  [tr EXCEPT !.tops[m].entries = Restrict(@, keep),
                 !.tops[m].floor = Max({@} \cup {x.amount : x \in victims}),
                 !.index = IF m \in Sentinels THEN @
                           ELSE Restrict(@, DOMAIN @ \ {x.key : x \in victims})]

\* emit: the tracker after the call, and what became of the top.
Emit(tr, m) ==
  LET top == tr.tops[m]
      rows == Largest(TopN, Holders(top))
  IN  IF ~Sound(top)
        THEN [top |-> LatchStale(top), result |-> IF top.stale THEN "same" ELSE "stale", rows |-> {}]
        ELSE [top |-> [top EXCEPT !.stale = FALSE, !.last = rows],
              result |-> IF rows = top.last THEN "same" ELSE IF rows = {} THEN "cleared" ELSE "record",
              rows |-> rows]

\* The tops touched by a call emitted: the tracker and its BlockOutcome.
EmitAll(tr, tops) ==
  LET out == [m \in tops |-> Emit(tr, m)]
  IN  [tracker |-> [tr EXCEPT !.tops = [m \in tops |-> out[m].top] @@ @, !.touched = {}],
       outcome |-> [slot |-> tr.max,
                    records |-> {[mint |-> m, rows |-> out[m].rows] :
                                   m \in {n \in tops : out[n].result = "record"}},
                    deletes |-> {m \in tops : out[m].result \in {"stale", "cleared"}}]]

----------------------------------------------------------------------------
(* Snapshot seed                                                           *)

\* shrink: the newest state per key, then the K largest of those.
Shrink(entries) ==
  LET newest == {x \in entries : \A y \in entries : y.key = x.key => y.stamp <= x.stamp}
  IN  Largest(K, newest)

\* observe_snapshot_account for the accounts of a file, a set of
\* [key, account, stamp]: what it says of one mint.
Observed(file, m) ==
  {[key |-> d.key, stamp |-> d.stamp,
    amount |-> IF m = "sol" THEN d.account.lamports ELSE d.account.amount] :
     d \in {e \in file : e.account.lamports > 0 /\ (m = "sol" \/ e.account.mint = m)}}

\* merge_seed: closes remove what live blocks put in and leave tombstones.
MergeSeed(tr, file) ==
  LET closes == {d \in file : d.account.lamports = 0}
      Close(d, t) ==
        LET t1 == RecordTombstone(t, d.key, d.stamp)
            mints == Sentinels \cup {m \in Tokens : d.key \in DOMAIN t.index /\ t.index[d.key] = m}
        IN  FoldSet(LAMBDA m, u : RemoveMember(u, m, d.key, d.stamp), t1, mints)
      closed == FoldSet(Close, tr, closes)
  IN  IF tr.status # "Bootstrapping" THEN tr
      ELSE [closed EXCEPT !.max = Max({@} \cup {d.stamp \div 3 : d \in file}),
                          !.reservoir = [m \in Mints |->
                             IF m \in {"circulating", "nonCirculating"} THEN @[m]
                             ELSE Shrink(@[m] \cup Observed(file, m))],
                          !.touched = {}]

\* seed_class_sentinels with the balances of the non-circulating members.
SeedClassSentinels(tr, balances) ==
  LET Member(b, t) ==
        LET t1 == RemoveMember(t, "circulating", b.key, Stamp(b.slot, "max"))
        IN  IF b.lamports = 0 THEN t1
            ELSE ApplyUpdate(t1, "nonCirculating", b.key, b.lamports, Stamp(b.slot, "max"), FALSE, FALSE)
      t2 == FoldSet(Member, tr, balances)
      sol == t2.tops["sol"]
      others == DOMAIN sol.entries \ {b.key : b \in balances}
      Candidate(k, t) == ApplyUpdate(t, "circulating", k, sol.entries[k].amount,
                                     sol.entries[k].stamp, FALSE, FALSE)
  IN  FoldSet(Candidate, [t2 EXCEPT !.tops["circulating"].floor = sol.floor], others)

\* finish_bootstrap: reservoir, class sentinels, trim, Live; every top is emitted.
FinishBootstrap(tr, balances) ==
  LET Seed(m, t) == FoldSet(LAMBDA x, u : ApplyUpdate(u, m, x.key, x.amount, x.stamp, TRUE, FALSE),
                            t, t.reservoir[m])
      seeded == FoldSet(Seed, tr, Mints)
      classed == SeedClassSentinels(seeded, balances)
      trimmed == FoldSet(LAMBDA m, t : Trim(t, m), classed, Mints)
  IN  EmitAll([trimmed EXCEPT !.status = "Live", !.tombstones = <<>>,
                              !.reservoir = [m \in Mints |-> {}]],
              Mints)

----------------------------------------------------------------------------
(* Blocks                                                                  *)

\* apply_block for one account of a block at a slot.
ApplyAccount(tr, slot, k, update, bootstrapping, oldBlock) ==
  LET stamp == Stamp(slot, update.version)
      moved == IF k \in DOMAIN tr.index /\ tr.index[k] # update.mint
                 THEN RemoveMember(tr, tr.index[k], k, stamp) ELSE tr
      Put(t, m, amount) == ApplyUpdate(t, m, k, amount, stamp, bootstrapping, oldBlock)
      class == IF update.nonCirculating THEN "nonCirculating" ELSE "circulating"
      other == IF update.nonCirculating THEN "circulating" ELSE "nonCirculating"
      token == IF update.mint \in Tokens THEN Put(moved, update.mint, update.amount) ELSE moved
      buried == IF bootstrapping THEN RecordTombstone(moved, k, stamp) ELSE moved
  IN  IF update.lamports = 0
        THEN FoldSet(LAMBDA m, t : RemoveMember(t, m, k, stamp), buried, Sentinels)
        ELSE Put(RemoveMember(Put(token, "sol", update.lamports), other, k, stamp),
                 class, update.lamports)

\* apply_block, for one order of the hash map's keys.  Records are stamped with
\* the newest slot applied.
ApplyBlock(tr, slot, pending, order) ==
  LET bootstrapping == tr.status = "Bootstrapping"
      old == ~bootstrapping /\ slot <= tr.max
      applied == FoldLeft(LAMBDA t, k : ApplyAccount(t, slot, k, pending[k], bootstrapping, old),
                          [tr EXCEPT !.max = Max({@, slot})], order)
  IN  EmitAll(applied, IF bootstrapping THEN {} ELSE applied.touched)
=============================================================================
