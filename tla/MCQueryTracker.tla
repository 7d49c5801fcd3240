--------------------------- MODULE MCQueryTracker ---------------------------
EXTENDS QueryTracker

Budget(b) == b @@ [x \in Budgets |-> 0]
Costs(with, without) == [p \in Patterns |-> [with |-> with, without |-> without]]

Base == [mode |-> "frequency", uses |-> {1, 2}, allowed |-> Patterns, broken |-> {}, creates |-> TRUE, evicts |-> TRUE,
         cap |-> 2, target |-> 1, limit |-> 2, buffered |-> 2, batch |-> 1, guard |-> "evict",
         drain |-> FALSE, supply |-> FALSE, planner |-> FALSE, fails |-> FALSE, cost |-> Costs({1}, {2}),
         budget |-> Budget(<<>>)]

Scene(c, b) == [c EXCEPT !.budget = Budget(b)]
Single == [Base EXCEPT !.uses = {1}]
Room == [Base EXCEPT !.cap = 4, !.target = 4, !.evicts = FALSE]

Ingesting == Scene([Room EXCEPT !.allowed = {1}], [queries |-> 2, timeouts |-> 1, restarts |-> 1])
Crowded == Scene([Base EXCEPT !.creates = FALSE, !.guard = "warn", !.fails = TRUE, !.buffered = 1, !.batch = 2],
                 [queries |-> 2, timeouts |-> 1, stores |-> 1])
Trimming == Scene([Base EXCEPT !.guard = "off", !.mode = "cost", !.supply = TRUE], [queries |-> 2, busy |-> 1])
Regressing == Scene([Single EXCEPT !.cost = Costs({3}, {1})], [queries |-> 2, busy |-> 1, health |-> 1])
Recovering == Scene([Single EXCEPT !.cost = Costs({3}, {1, 4}), !.mode = "cost_per_hit"], [queries |-> 3])
\* One index at most, and a fill target that rounds to none.
Capped == Scene([Base EXCEPT !.cap = 1, !.target = 0, !.guard = "off"], [queries |-> 2, builds |-> 1, drops |-> 1])
Restarting == [Capped EXCEPT !.budget = Budget([queries |-> 2, restarts |-> 1])]
Reviving == [Capped EXCEPT !.uses = {1}, !.budget = Budget([queries |-> 3])]
Weighing == Scene([Single EXCEPT !.mode = "weighted", !.planner = TRUE, !.cost = Costs({3}, {1})],
                  [queries |-> 2, drops |-> 1])
Draining == Scene([Base EXCEPT !.drain = TRUE], [queries |-> 2, stores |-> 1])
\* Refused and unbuildable patterns beside one that can be built.
Waiting == Scene([Room EXCEPT !.uses = {1, 2, 3}, !.allowed = {1, 2}, !.broken = {2}, !.limit = 1, !.batch = 3, !.buffered = 3],
                 [queries |-> 3, builds |-> 1])

MCScenes ==
  {Ingesting, Crowded, Trimming, Regressing, Recovering, Capped, Restarting, Reviving, Weighing,
   Draining, Waiting}

\* What the header of eviction.rs says of the trim; demand may return after its list was
\* read (Reviving).
OnlyIdleTrimmed ==
  [][eviction.pc = "trim" /\ eviction'.pc = "accounts" => "idle" \in rows[Head(eviction.list)].flags]_vars

\* WantedIsBuilt without Starved (Waiting).
NothingStarves == <>[](Roomy => scene.allowed \cap Candidates(rows) = {})
=============================================================================
