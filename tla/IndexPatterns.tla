---------------------------- MODULE IndexPatterns ----------------------------
(***************************************************************************)
(* The index_patterns table of the query tracker: the statements of the    *)
(* store, as operators on one row or on the table, and the score that      *)
(* ranks patterns for creation (descending) and eviction (ascending).      *)
(*                                                                         *)
(* Ages are flags the passing of time raises: aged (created longer ago     *)
(* than index-min-age-grace), idle (no demand for index-min-idle), unused  *)
(* (no scans for as long), waited (rejected longer ago than the retry      *)
(* delay).  Costs are small numbers of microseconds; ratios are cross      *)
(* multiplied.  The example request, the variety sketch and the EXPLAIN    *)
(* verdict are diagnostics no decision reads.                              *)
(***************************************************************************)
EXTENDS Integers, SequencesExt

CONSTANTS Patterns,      \* the index identities the workload uses
          Threshold,     \* index-generation-threshold
          Ratio,         \* index-regression-ratio, in percent
          Compensation,  \* without-index-compensation-factor
          Delta          \* discrepancy-delta, in percent

ASSUME PatternsFinite == IsFiniteSet(Patterns)

ASSUME PatternsAssumption ==
  Patterns \subseteq Nat /\ {Threshold, Ratio, Compensation, Delta} \subseteq Nat

Tables == {"accounts", "snapshot_accounts"}
Flags == {"aged", "idle", "unused", "waited"}
Statuses == {"none", "candidate", "created", "evicted", "rejected"}

Bucket == [us : Nat, n : Nat]
Empty == [us |-> 0, n |-> 0]
Plus(b, c) == [us |-> b.us + c.us, n |-> b.n + c.n]
Minus(b, c) == [us |-> b.us - c.us, n |-> b.n - c.n]

\* Average of b scaled by f above that of c scaled by g; an empty bucket has average 0.
Above(b, f, c, g) == b.us * f * Max({c.n, 1}) > c.us * g * Max({b.n, 1})

Windowed == {"demand", "failed", "scan"}

\* demand_count and total_cost_us are the sums over the two buckets.
NewRow ==
  [status |-> "none", with |-> Empty, without |-> Empty, failed |-> 0, atCreate |-> 0,
   scan |-> 0, rate |-> [f \in Windowed |-> {}], prev |-> [f \in Windowed |-> 0],
   verdict |-> "ok", condemned |-> Empty, atReject |-> Empty, flags |-> {}]

Total(r) == Plus(r.with, r.without)
Demand(r) == Total(r).n

----------------------------------------------------------------------------
(* Ranking.  Weighted is modelled with a latency weight of zero.           *)

Running(r) == [demand |-> Demand(r), failed |-> r.failed, scan |-> r.scan]

\* The count of the last window (NULL, the empty set, before the first roll), or
\* the running total.
Recent(r) == [f \in Windowed |-> Max(IF r.rate[f] = {} THEN {Running(r)[f]} ELSE r.rate[f])]

\* Averages are taken in 840ths, exact for the counts that occur.
Average(r) == (840 * Total(r).us) \div Max({Demand(r), 1})

Score(r, mode) ==
  CASE mode = "frequency"    -> Demand(r)
    [] mode = "cost"         -> Total(r).us
    [] mode = "cost_per_hit" -> Average(r)
    [] mode = "weighted"     -> Average(r) * (2 + 2 * Recent(r).demand + Recent(r).scan + 2 * Recent(r).failed)

\* Mutant: a total that went down gives a negative rate.
RollScoresUnclamped(r) ==
  IF r.status = "none" THEN r
  ELSE [r EXCEPT !.rate = [f \in Windowed |-> {Running(r)[f] - r.prev[f]}], !.prev = Running(r)]

RollScores(r) ==
  IF r.status = "none" THEN r
  ELSE [r EXCEPT !.rate = [f \in Windowed |-> {Max({Running(r)[f] - r.prev[f], 0})}],
                 !.prev = Running(r)]

----------------------------------------------------------------------------
(* Ingest and creation                                                     *)

\* obs: [us, n, failed].  The cost goes to the bucket of the row's status now.
RecordDemand(r, obs) ==
  LET seen == [us |-> obs.us, n |-> obs.n]
      live == r.status = "created" IN
  [r EXCEPT !.with = IF live THEN Plus(@, seen) ELSE @,
            !.without = IF live THEN @ ELSE Plus(@, seen),
            !.failed = @ + obs.failed,
            !.flags = @ \ {"idle"},
            !.status = IF @ \in {"none", "evicted"} THEN "candidate" ELSE @]

Candidates(rows) == {p \in Patterns : rows[p].status = "candidate" /\ Demand(rows[p]) >= Threshold}

\* What ORDER BY score DESC LIMIT may return of a set: nothing left out is better.
BestOf(S, rows, mode, limit) ==
  {f \in SUBSET S : /\ Cardinality(f) = Min({limit, Cardinality(S)})
                    /\ \A p \in f, q \in S \ f : Score(rows[q], mode) <= Score(rows[p], mode)}

\* The sets top_candidates_scored may fetch.
TopCandidates(rows, mode, limit) == BestOf(Candidates(rows), rows, mode, limit)

MarkCreated(r) ==
  [r EXCEPT !.status = "created", !.flags = @ \ {"aged", "unused", "waited"},
            !.scan = 0, !.atCreate = Demand(r), !.prev.scan = 0,
            !.rate.scan = {}]

----------------------------------------------------------------------------
(* Supply and eviction                                                     *)

Verdict(demand, supply) ==
  IF demand < Max({Threshold, 1}) THEN "ok"
  ELSE IF 100 * supply < demand * (100 - Delta) THEN "starved"
  ELSE IF 100 * supply > demand * (100 + Delta) THEN "over_scanned" ELSE "ok"

\* update_supply and set_discrepancy of one created row; scans counts both sides.
UpdateSupply(r, scans) ==
  [r EXCEPT !.flags = IF scans # r.scan THEN @ \ {"unused"} ELSE @,
            !.scan = scans,
            !.verdict = Verdict(Max({Demand(r) - r.atCreate, 0}), scans \div 2)]

EvictionGate(r, useSupply) ==
  r.status = "created" /\ {"aged", "idle"} \subseteq r.flags /\ (useSupply => "unused" \in r.flags)

Droppable(rows, useSupply) == {p \in Patterns : EvictionGate(rows[p], useSupply)}

\* The lists of the members of a set, each once, in an order: one if the order is total.
InOrder(S, Before(_, _)) ==
  {l \in Injection(1..Cardinality(S), S) : \A i, j \in DOMAIN l : i < j => Before(l[i], l[j])}

\* Drop order: ascending score, then pattern id.
DropsBefore(rows, mode, p, q) ==
  LET s == Score(rows[p], mode) t == Score(rows[q], mode) IN s < t \/ (s = t /\ p < q)

EvictionCandidates(rows, mode, useSupply) ==
  InOrder(Droppable(rows, useSupply), LAMBDA p, q : DropsBefore(rows, mode, p, q))

\* Mutant: an evicted pattern stays created.
MarkEvictedKeepsStatus(r) == [r EXCEPT !.flags = @ \ {"waited"}]

MarkEvicted(r) == [r EXCEPT !.status = "evicted", !.flags = @ \ {"waited"}]

----------------------------------------------------------------------------
(* Latency regression guard                                                *)

Regressed(r) ==
  /\ r.status = "created" /\ r.with.n > 0 /\ "aged" \in r.flags
  /\ Above(r.with, 100, r.without, Compensation * Ratio)

MarkRejected(r) ==
  [r EXCEPT !.status = "rejected", !.condemned = r.with, !.atReject = r.without,
            !.flags = @ \ {"waited"}]

Recovered(r) ==
  LET fresh == Minus(r.without, r.atReject) IN
  /\ r.status = "rejected" /\ "waited" \in r.flags /\ fresh.n > 0
  /\ Above(fresh, 100 * Compensation, r.condemned, Ratio)

PromoteRecovered(r) ==
  IF Recovered(r) THEN [r EXCEPT !.status = "candidate", !.condemned = Empty, !.atReject = Empty]
                  ELSE r
=============================================================================
