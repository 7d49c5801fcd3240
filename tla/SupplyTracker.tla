---------------------------- MODULE SupplyTracker ----------------------------
(***************************************************************************)
(* The supply tracker: the running total, its status machine, the window   *)
(* of touches recorded during startup, the closes seen while a gap is      *)
(* filled, and the bounded cache of previous balances.  Each operation     *)
(* holds the state mutex throughout and is an operator on the state.       *)
(*                                                                         *)
(* The cache and the pin budget also serve accounts outside Keys: which    *)
(* cutoff a sweep computes, and whether the budget is used up, is left to  *)
(* the caller (cutoff, room).                                              *)
(***************************************************************************)
EXTENDS StakeMap

SupplyInit ==
  [status |-> "Bootstrapping", failed |-> FALSE, total |-> 0, slot |-> 0, startup |-> 0, clock |-> 0,
   touched |-> <<>>, zeroPrev |-> {}, gapCloses |-> <<>>, cache |-> <<>>]

Running(sup) == sup.status \in {"Live", "GapFilling"}

----------------------------------------------------------------------------
(* HotAccounts                                                             *)

\* Mutant: an account that became a stake account stays in the cache.
WriteBackKeepsStake(cache, k, lamports, slot, owner) ==
  (k :> [lamports |-> lamports, slot |-> slot, pinned |-> FALSE]) @@ cache

WriteBack(cache, k, lamports, slot, owner) ==
  IF owner = "stake" THEN Without(cache, k)
  ELSE IF k \in DOMAIN cache
    THEN IF slot >= cache[k].slot
           THEN [cache EXCEPT ![k].lamports = lamports, ![k].slot = slot]
           ELSE cache
    ELSE (k :> [lamports |-> lamports, slot |-> slot, pinned |-> FALSE]) @@ cache

\* probe: the delta of a hit and the cache it leaves; a miss changes nothing.
Hits(cache, k, zeroPrev) == zeroPrev \/ k \in DOMAIN cache

HitDelta(cache, k, a, slot, zeroPrev) ==
  IF zeroPrev THEN a.lamports
  ELSE IF cache[k].slot < slot THEN a.lamports - cache[k].lamports ELSE 0

Probed(cache, k, a, slot, zeroPrev) ==
  IF zeroPrev \/ (k \in DOMAIN cache /\ cache[k].slot < slot)
    THEN WriteBack(cache, k, a.lamports, slot, a.owner)
    ELSE cache

\* apply_miss: row is the newest row read, or NoRow.
NoRow == [slot |-> -1, lamports |-> 0]

MissDelta(a, slot, row) == IF row.slot < slot THEN a.lamports - row.lamports ELSE 0

ApplyMiss(cache, k, a, slot, row) ==
  IF row.slot < slot
    THEN WriteBack(cache, k, a.lamports, slot, a.owner)
    ELSE WriteBack(cache, k, row.lamports, row.slot, a.owner)

\* sweep: everything unpinned below the cutoff goes.
SweepCache(cache, cutoff) ==
  Restrict(cache, {k \in DOMAIN cache : cache[k].pinned \/ cache[k].slot >= cutoff})

\* pin_failed, with room left in the budget.
PinFailed(cache, touched) ==
  [k \in DOMAIN cache |-> IF k \in touched THEN [cache[k] EXCEPT !.pinned = TRUE] ELSE cache[k]]

----------------------------------------------------------------------------
(* Startup                                                                 *)

SetStartupTotal(sup, slot, capitalization) ==
  IF sup.status = "Bootstrapping" /\ slot > sup.startup
    THEN [sup EXCEPT !.startup = slot, !.total = capitalization]
    ELSE sup

CanResolve(sup) == sup.status = "Bootstrapping" /\ sup.startup > 0 /\ ~sup.failed

\* Touches above the anchor: the ones that need a startup balance.
WindowKeys(sup) == {k \in DOMAIN sup.touched : sup.touched[k].slot > sup.startup}

\* finish_bootstrap, given a balance for every key of the window.  The newest touch
\* is the one of the Clock sysvar.
FinishBootstrap(sup, balances) ==
  LET window == WindowKeys(sup)
  IN  [sup EXCEPT
         !.total = @ + MapThenSumSet(LAMBDA k : sup.touched[k].lamports - balances[k], window),
         !.slot = Max({@, sup.startup, sup.clock}),
         !.zeroPrev = {k \in DOMAIN sup.touched : sup.touched[k].lamports = 0},
         !.touched = <<>>,
         !.status = "Live"]

\* The bootstrap arm of probe_block: every touch is recorded, and every block
\* touches the Clock sysvar, whose balance does not change.
RecordTouches(sup, slot, block) ==
  LET newer == {k \in DOMAIN block : k \notin DOMAIN sup.touched \/ sup.touched[k].slot <= slot}
  IN  [sup EXCEPT !.clock = Max({@, slot}),
                  !.touched = [k \in newer |-> [slot |-> slot, lamports |-> block[k].lamports]] @@ @]

----------------------------------------------------------------------------
(* Gaps and failures                                                       *)

MarkGap(sup) == IF sup.status = "Live" THEN [sup EXCEPT !.status = "GapFilling"] ELSE sup

FinishGap(sup) ==
  IF sup.status = "GapFilling" THEN [sup EXCEPT !.status = "Live", !.gapCloses = <<>>] ELSE sup

MarkStale(sup) == IF Running(sup) THEN [sup EXCEPT !.status = "Stale"] ELSE sup

----------------------------------------------------------------------------
(* A block                                                                 *)

\* Mutant: a repeated block is counted again.
SkippedButRepeats(sup, slot, repaired) == sup.status = "Stale"

\* The replay and Stale returns of probe_block.
Skipped(sup, slot, repaired) ==
  sup.status = "Stale" \/ (Running(sup) /\ ~repaired /\ slot <= sup.slot)

\* Closes a live block brings while a gap is being filled.
GapClosed(sup, slot, repaired, block) ==
  LET closes == IF ~repaired /\ sup.status = "GapFilling"
                  THEN {k \in DOMAIN block : block[k].lamports = 0} ELSE {}
  IN  [k \in closes |-> IF k \in DOMAIN sup.gapCloses THEN Max({slot, sup.gapCloses[k]}) ELSE slot]
        @@ sup.gapCloses

\* The keys of a block the tracker counts: not the ones the stake map handled,
\* nor, in a repaired block, the ones a later live block closed.
Counted(sup, slot, repaired, block, handled) ==
  {k \in DOMAIN block \ handled :
     ~(repaired /\ k \notin sup.zeroPrev
         /\ k \in DOMAIN sup.gapCloses /\ sup.gapCloses[k] >= slot)}

\* probe_block and the miss read, for a block that is not skipped: previous
\* balances from the cache, or from row for a miss.
CountBlock(sup, slot, repaired, block, stake, row) ==
  LET noted == [sup EXCEPT !.gapCloses = GapClosed(sup, slot, repaired, block)]
      counted == Counted(noted, slot, repaired, block, stake.handled)
      zero(k) == k \in sup.zeroPrev
      missed == {k \in counted : ~Hits(sup.cache, k, zero(k))}
      after(k) == IF k \in missed THEN ApplyMiss(sup.cache, k, block[k], slot, row[k])
                  ELSE Probed(sup.cache, k, block[k], slot, zero(k))
  IN  [sup |-> [noted EXCEPT
                  !.zeroPrev = @ \ (DOMAIN block \ stake.handled),
                  !.cache = [k \in {j \in Keys : IF j \in counted THEN j \in DOMAIN after(j)
                                                                  ELSE j \in DOMAIN sup.cache} |->
                               IF k \in counted THEN after(k)[k] ELSE sup.cache[k]]],
       delta |-> stake.delta
                   + MapThenSumSet(LAMBDA k :
                       IF k \in missed THEN MissDelta(block[k], slot, row[k])
                       ELSE HitDelta(sup.cache, k, block[k], slot, zero(k)), counted),
       touched |-> counted,
       missed |-> missed]

\* commit_block: the state it leaves, and whether it publishes a row.
CommitBlock(sup, slot, delta) ==
  [sup EXCEPT !.slot = Max({@, slot}),
              !.total = IF slot > sup.startup /\ Running(sup) THEN @ + delta ELSE @]

\* Mutant: rows are published while a gap is filled.
PublishesDuringGap(sup, slot) == slot > sup.startup /\ Running(sup)

Publishes(sup, slot) == slot > sup.startup /\ sup.status = "Live"

Commit(sup, nc) == [slot |-> sup.slot, total |-> sup.total, nonCirculating |-> Total(nc)]
=============================================================================
