---------------------------- MODULE QueryTracker ----------------------------
(***************************************************************************)
(* The query tracker end to end: the API's client that buffers the demand  *)
(* of getProgramAccounts requests and flushes it in batches, the server    *)
(* that folds each batch into the index_patterns table, the creation loop, *)
(* the eviction pass (regression guard, supply refresh, trim) and the      *)
(* score roll, each of which reads and writes the database step by step    *)
(* while the others run.                                                   *)
(*                                                                         *)
(* The budget bounds what the environment does: requests, readings of a    *)
(* busy indexer, failed statements, timeouts, restarts, health changes.    *)
(***************************************************************************)
EXTENDS IndexPatterns

CONSTANTS Scenes   \* the situations a behaviour may start in

Budgets == {"queries", "busy", "builds", "drops", "stores", "timeouts", "restarts", "health"}

ASSUME TrackerAssumption ==
  \A c \in Scenes :
    /\ c.mode \in {"frequency", "cost", "cost_per_hit", "weighted"}
    /\ c.allowed \subseteq Patterns /\ c.uses \subseteq Patterns /\ c.broken \subseteq Patterns
    /\ c.creates \in BOOLEAN /\ c.evicts \in BOOLEAN
    /\ {c.cap, c.limit, c.buffered, c.batch} \subseteq Nat \ {0} /\ c.target \in Nat /\ c.target <= c.cap
    /\ c.guard \in {"off", "warn", "evict"} /\ c.drain \in BOOLEAN /\ c.planner \in BOOLEAN /\ c.fails \in BOOLEAN
    /\ c.supply \in BOOLEAN
    /\ c.budget \in [Budgets -> Nat]
    /\ \A p \in Patterns : c.cost[p].with \subseteq Nat /\ c.cost[p].without \subseteq Nat

VARIABLES scene,     \* the configuration and the workload
          budget,    \* what the environment may still do
          served,    \* history: requests the client accepted
          buffer,    \* the client's buffer: pattern -> observation
          flush,     \* the flush task: unsent entries, the chunk in flight, what failed
          jobs,      \* /track requests being applied: [obs, open]
          rows,      \* index_patterns
          indexes,   \* table -> patterns whose index exists on it
          scans,     \* idx_scan: table -> pattern -> scans of its index
          creation,  \* the creation loop
          eviction,  \* the eviction pass
          health,    \* service_health.healthy
          indexer    \* history: the health the indexer wrote last

vars == <<scene, budget, served, buffer, flush, jobs, rows, indexes, scans, creation, eviction,
          health, indexer>>
clientVars == <<served, buffer, flush>>
dbVars == <<rows, indexes, scans>>

Idle == [pc |-> "sleep"]
Resting == [pc |-> "sleep", entries |-> <<>>, chunk |-> <<>>, requeue |-> <<>>]
CAP_TABLE == "snapshot_accounts"

Init ==
  /\ scene \in Scenes
  /\ budget = scene.budget
  /\ served = [p \in Patterns |-> 0] /\ buffer = <<>> /\ flush = Resting /\ jobs = {}
  /\ rows = [p \in Patterns |-> NewRow]
  /\ indexes = [t \in Tables |-> {}] /\ scans = [t \in Tables |-> [p \in Patterns |-> 0]]
  /\ creation = Idle /\ eviction = Idle /\ health = TRUE /\ indexer = TRUE

Spend(b) == budget[b] > 0 /\ budget' = [budget EXCEPT ![b] = @ - 1]
Pair(p) == \A t \in Tables : p \in indexes[t]
Count == Cardinality(indexes[CAP_TABLE])

----------------------------------------------------------------------------
(* The API client                                                          *)

NoObs == [us |-> 0, n |-> 0, failed |-> 0]
Merge(a, b) == [f \in DOMAIN NoObs |-> a[f] + b[f]]

\* A function over patterns, NoObs where it has no entry.
At(f, p) == IF p \in DOMAIN f THEN f[p] ELSE NoObs

MergeAll(f, g) == [p \in DOMAIN f \cup DOMAIN g |-> Merge(At(f, p), At(g, p))]

\* A request is served, and buffer_query folds it in unless a full buffer lacks the pattern;
\* its cost depends on the index and on what the table holds by then.
BufferQuery(p, failed) ==
  /\ Spend("queries") /\ p \in scene.uses /\ (failed => scene.fails)
  /\ scans' = [t \in Tables |-> IF scene.planner /\ p \in indexes[t] THEN [scans[t] EXCEPT ![p] = @ + 1] ELSE scans[t]]
  /\ IF p \notin DOMAIN buffer /\ Cardinality(DOMAIN buffer) >= scene.buffered
       THEN UNCHANGED <<buffer, served>>
       ELSE /\ \E us \in IF Pair(p) THEN scene.cost[p].with ELSE scene.cost[p].without :
                 buffer' = MergeAll(buffer, [q \in {p} |->
                             [us |-> us, n |-> 1, failed |-> IF failed THEN 1 ELSE 0]])
            /\ served' = [served EXCEPT ![p] = @ + 1]
  /\ UNCHANGED <<scene, flush, jobs, rows, indexes, creation, eviction, health, indexer>>

\* The flush interval elapsed: the buffer is drained.
StartFlush ==
  /\ flush.pc = "sleep" /\ buffer # <<>>
  /\ flush' = [Resting EXCEPT !.pc = "send", !.entries = buffer]
  /\ buffer' = <<>>
  /\ UNCHANGED <<scene, budget, served, jobs, dbVars, creation, eviction, health, indexer>>

\* The next chunk is posted; drain of a hash map has no order.
SendBatch ==
  /\ flush.pc = "send" /\ flush.entries # <<>>
  /\ \E c \in SUBSET DOMAIN flush.entries :
       /\ Cardinality(c) = Min({scene.batch, Cardinality(DOMAIN flush.entries)})
       /\ flush' = [flush EXCEPT !.pc = "wait", !.chunk = Restrict(flush.entries, c),
                                 !.entries = Restrict(flush.entries, DOMAIN flush.entries \ c)]
       /\ jobs' = jobs \cup {[obs |-> Restrict(flush.entries, c), open |-> TRUE]}
  /\ UNCHANGED <<scene, budget, served, buffer, dbVars, creation, eviction, health, indexer>>

SendSucceeded == flush' = [flush EXCEPT !.pc = "send", !.chunk = <<>>]

\* Mutant: a chunk that failed is dropped.
SendFailedDrops == flush' = [flush EXCEPT !.pc = "send", !.chunk = <<>>]

SendFailed ==
  flush' = [flush EXCEPT !.pc = "send", !.chunk = <<>>, !.requeue = MergeAll(flush.requeue, flush.chunk)]

\* Mutant: the failed chunks stay with the flush task.
RequeueForgets ==
  /\ flush.pc = "send" /\ flush.entries = <<>> /\ flush.requeue = <<>>
  /\ flush' = Resting
  /\ UNCHANGED <<scene, budget, served, buffer, jobs, dbVars, creation, eviction, health, indexer>>

\* Every chunk was posted: what failed goes back into the buffer, whatever its size.
RequeueEntries ==
  /\ flush.pc = "send" /\ flush.entries = <<>>
  /\ buffer' = MergeAll(buffer, flush.requeue)
  /\ flush' = Resting
  /\ UNCHANGED <<scene, budget, served, jobs, dbVars, creation, eviction, health, indexer>>

\* The client's timeout: the request may never have arrived, or its handler runs on.
SendTimeout(j) ==
  /\ Spend("timeouts") /\ j.open
  /\ SendFailed
  /\ \E arrived \in BOOLEAN :
       jobs' = (jobs \ {j}) \cup (IF arrived THEN {[j EXCEPT !.open = FALSE]} ELSE {})
  /\ UNCHANGED <<scene, served, buffer, dbVars, creation, eviction, health, indexer>>

----------------------------------------------------------------------------
(* POST /track                                                             *)

ApplyObservation(j, p) ==
  /\ p \in DOMAIN j.obs
  /\ rows' = [rows EXCEPT ![p] = RecordDemand(@, j.obs[p])]
  /\ jobs' = (jobs \ {j}) \cup {[j EXCEPT !.obs = Restrict(@, DOMAIN @ \ {p})]}
  /\ UNCHANGED <<scene, budget, clientVars, indexes, scans, creation, eviction, health, indexer>>

BatchApplied(j) ==
  /\ j.obs = <<>> /\ jobs' = jobs \ {j}
  /\ IF j.open THEN SendSucceeded ELSE UNCHANGED flush
  /\ UNCHANGED <<scene, budget, served, buffer, dbVars, creation, eviction, health, indexer>>

\* A statement fails and aborts the batch: 500, what was applied stays.
BatchFailed(j) ==
  /\ Spend("stores") /\ j.obs # <<>> /\ jobs' = jobs \ {j}
  /\ IF j.open THEN SendFailed ELSE UNCHANGED flush
  /\ UNCHANGED <<scene, served, buffer, dbVars, creation, eviction, health, indexer>>

----------------------------------------------------------------------------
(* The creation loop                                                       *)

createUnchanged == <<scene, clientVars, jobs, scans, eviction, health, indexer>>

\* is_under_pressure: above a threshold, or a gauge that cannot be read.
UnderPressure == Spend("busy")
NoPressure == UNCHANGED budget

\* Recover rejected patterns, then the backpressure check.
CreationTick ==
  /\ scene.creates /\ creation.pc = "sleep"
  /\ IF scene.guard = "off" THEN UNCHANGED rows
                            ELSE rows' = [p \in Patterns |-> PromoteRecovered(rows[p])]
  /\ \/ NoPressure /\ creation' = [pc |-> "count"]
     \/ UnderPressure /\ UNCHANGED creation
  /\ UNCHANGED <<createUnchanged, indexes>>

\* Mutant: one index above the cap.
CountIndexesAboveCap ==
  /\ creation.pc = "count"
  /\ creation' = IF Count > scene.cap THEN Idle ELSE [pc |-> "choose", current |-> Count]
  /\ UNCHANGED <<createUnchanged, budget, rows, indexes>>

\* The hard cap, from the count of the physical indexes.
CountIndexes ==
  /\ creation.pc = "count"
  /\ creation' = IF Count >= scene.cap THEN Idle ELSE [pc |-> "choose", current |-> Count]
  /\ UNCHANGED <<createUnchanged, budget, rows, indexes>>

\* Mutant: only the best fetched candidate is looked at, allowed or not.
ChosenBeforeScoping(fetched) ==
  {p \in fetched \cap scene.allowed : \A q \in fetched : Score(rows[q], scene.mode) <= Score(rows[p], scene.mode)}

\* The best of the fetched candidates that program scoping allows; ties are free.
Chosen(fetched) ==
  LET ok == fetched \cap scene.allowed IN
  {p \in ok : \A q \in ok : Score(rows[q], scene.mode) <= Score(rows[p], scene.mode)}

ChooseCandidate ==
  /\ creation.pc = "choose"
  /\ \E fetched \in TopCandidates(rows, scene.mode, scene.limit) :
       IF Chosen(fetched) = {} THEN creation' = Idle
       ELSE \E p \in Chosen(fetched) :
              creation' = [pc |-> "guard", current |-> creation.current, p |-> p,
                           score |-> Score(rows[p], scene.mode)]
  /\ UNCHANGED <<createUnchanged, budget, rows, indexes>>

\* Below the target, nothing to displace, or better than the index it displaces.
ValueGuardAllows ==
  LET over == creation.current - scene.target IN
  \/ ~scene.evicts \/ over < 0
  \/ \E drops \in EvictionCandidates(rows, scene.mode, scene.supply) :
       over >= Len(drops) \/ creation.score > Score(rows[drops[over + 1]], scene.mode)

ValueGuard ==
  /\ creation.pc = "guard"
  /\ creation' = IF ValueGuardAllows THEN [pc |-> "accounts", p |-> creation.p] ELSE Idle
  /\ UNCHANGED <<createUnchanged, budget, rows, indexes>>

\* CREATE INDEX IF NOT EXISTS on one table of the pair; a failure ends the attempt and
\* leaves the pattern a candidate.  For a broken pattern every attempt fails at one of the builds.
CreateOne(t, next) ==
  /\ creation.pc = t
  /\ \/ /\ creation.p \in scene.broken => t # CAP_TABLE
        /\ indexes' = [indexes EXCEPT ![t] = @ \cup {creation.p}]
        /\ creation' = [creation EXCEPT !.pc = next] /\ UNCHANGED budget
     \/ /\ Spend("builds") \/ (creation.p \in scene.broken /\ UNCHANGED budget)
        /\ creation' = Idle /\ UNCHANGED indexes
  /\ UNCHANGED <<createUnchanged, rows>>

CreatePairDone ==
  /\ creation.pc = "mark"
  /\ \/ rows' = [rows EXCEPT ![creation.p] = MarkCreated(@)] /\ UNCHANGED budget
     \/ Spend("stores") /\ UNCHANGED rows
  /\ creation' = Idle
  /\ UNCHANGED <<createUnchanged, indexes>>

\* Any read of the loop fails: it sleeps until the next tick.
CreationReadFails ==
  /\ creation.pc \in {"count", "choose", "guard"} /\ Spend("stores")
  /\ creation' = Idle
  /\ UNCHANGED <<createUnchanged, rows, indexes>>

Creation ==
  \/ CreationTick \/ CountIndexes \/ ChooseCandidate \/ ValueGuard
  \/ CreateOne("accounts", CAP_TABLE) \/ CreateOne(CAP_TABLE, "mark")
  \/ CreatePairDone \/ CreationReadFails

----------------------------------------------------------------------------
(* The eviction pass                                                       *)

evictUnchanged == <<scene, clientVars, jobs, scans, creation, indexer>>

\* The regression guard's list; a guard that is off or only warns drops nothing.
EvictionTick ==
  /\ scene.evicts /\ eviction.pc = "sleep"
  /\ \E list \in IF scene.guard = "evict" THEN InOrder({p \in Patterns : Regressed(rows[p])}, <)
                                           ELSE {<<>>} :
       eviction' = [pc |-> "regress", list |-> list]
  /\ UNCHANGED <<evictUnchanged, budget, rows, indexes, health>>

\* The bounded wait before each drop: the indexer recovers, or the rest is left for the next pass.
WaitOutBackpressure(drop, giveUp) ==
  /\ \/ eviction' = drop /\ NoPressure
     \/ eviction' = giveUp /\ UnderPressure
  /\ UNCHANGED <<evictUnchanged, rows, indexes, health>>

RegressionWait ==
  /\ eviction.pc = "regress" /\ eviction.list # <<>>
  /\ WaitOutBackpressure([pc |-> "accounts", then |-> "regress", list |-> eviction.list],
                         [pc |-> "supply"])

RegressionDone ==
  /\ eviction.pc = "regress" /\ eviction.list = <<>>
  /\ eviction' = [pc |-> "supply"]
  /\ UNCHANGED <<evictUnchanged, budget, rows, indexes, health>>

\* Back to the loop the drop came from, with the rest of its list.
NextDrop(count) ==
  eviction' = IF eviction.then = "regress" THEN [pc |-> "regress", list |-> Tail(eviction.list)]
              ELSE [pc |-> "trim", list |-> Tail(eviction.list), count |-> count]

Remaining == IF eviction.then = "trim" THEN eviction.count ELSE 0

\* DROP INDEX IF EXISTS with its retries; a failure leaves the pair for the next pass.
DropOne(t, next) ==
  /\ eviction.pc = t
  /\ \/ /\ indexes' = [indexes EXCEPT ![t] = @ \ {Head(eviction.list)}]
        /\ scans' = [scans EXCEPT ![t][Head(eviction.list)] = 0]
        /\ eviction' = [eviction EXCEPT !.pc = next] /\ UNCHANGED budget
     \/ Spend("drops") /\ NextDrop(Remaining) /\ UNCHANGED <<indexes, scans>>
  /\ UNCHANGED <<scene, clientVars, jobs, rows, creation, indexer, health>>

\* The pair is gone: the pattern is rejected by the guard, evicted by the trim.
MarkDropped ==
  LET p == Head(eviction.list) IN
  /\ eviction.pc = "mark"
  /\ \/ /\ rows' = [rows EXCEPT ![p] = IF eviction.then = "regress" THEN MarkRejected(@) ELSE MarkEvicted(@)]
        /\ UNCHANGED budget
     \/ Spend("stores") /\ UNCHANGED rows
  /\ NextDrop(Remaining - 1)
  /\ UNCHANGED <<evictUnchanged, indexes, health>>

\* track_counts is on: supply and discrepancy of every created pattern.
RefreshSupply ==
  /\ eviction.pc = "supply"
  /\ rows' = [p \in Patterns |-> IF rows[p].status = "created" THEN UpdateSupply(rows[p], scans["accounts"][p] + scans[CAP_TABLE][p])
                                                               ELSE rows[p]]
  /\ eviction' = [pc |-> "count"]
  /\ UNCHANGED <<evictUnchanged, budget, indexes, health>>

\* Above the target: the trim list, least useful first.
StartTrim ==
  /\ eviction.pc = "count"
  /\ \E list \in EvictionCandidates(rows, scene.mode, scene.supply) :
       eviction' = IF Count <= scene.target \/ list = <<>> THEN Idle
                   ELSE [pc |-> IF scene.drain THEN "drain" ELSE "trim", list |-> list, count |-> Count]
  /\ UNCHANGED <<evictUnchanged, budget, rows, indexes, health>>

\* A read of the pass fails, or track_counts is off.
PassAborts ==
  /\ eviction.pc \in {"supply", "count"} /\ Spend("stores")
  /\ eviction' = Idle
  /\ UNCHANGED <<evictUnchanged, rows, indexes, health>>

\* The node is drained for the duration of the trim and restored after it.
WriteHealth(pc, next, value) ==
  /\ eviction.pc = pc /\ eviction' = next
  /\ \/ health' = value /\ UNCHANGED budget
     \/ Spend("stores") /\ UNCHANGED health
  /\ UNCHANGED <<evictUnchanged, rows, indexes>>

MarkUnhealthy == eviction.pc = "drain" /\ WriteHealth("drain", [eviction EXCEPT !.pc = "trim"], FALSE)
RestoreHealthy == WriteHealth("restore", Idle, TRUE)

AfterTrim == IF scene.drain THEN [pc |-> "restore"] ELSE Idle

TrimDone ==
  /\ eviction.pc = "trim" /\ (eviction.list = <<>> \/ eviction.count <= scene.target)
  /\ eviction' = AfterTrim
  /\ UNCHANGED <<evictUnchanged, budget, rows, indexes, health>>

\* Mutant: one index below the target.
TrimWaitAtTarget ==
  /\ eviction.pc = "trim" /\ eviction.list # <<>> /\ eviction.count >= scene.target
  /\ WaitOutBackpressure([pc |-> "accounts", then |-> "trim", list |-> eviction.list,
                          count |-> eviction.count], AfterTrim)

TrimWait ==
  /\ eviction.pc = "trim" /\ eviction.list # <<>> /\ eviction.count > scene.target
  /\ WaitOutBackpressure([pc |-> "accounts", then |-> "trim", list |-> eviction.list,
                          count |-> eviction.count], AfterTrim)

Eviction ==
  \/ EvictionTick \/ RegressionWait \/ RegressionDone
  \/ DropOne("accounts", CAP_TABLE) \/ DropOne(CAP_TABLE, "mark") \/ MarkDropped
  \/ RefreshSupply \/ StartTrim \/ PassAborts
  \/ MarkUnhealthy \/ TrimDone \/ TrimWait \/ RestoreHealthy

----------------------------------------------------------------------------
(* The environment                                                         *)

\* score_roll, with the weighted mode only.
RollAll ==
  /\ scene.mode = "weighted"
  /\ rows' = [p \in Patterns |-> RollScores(rows[p])] /\ rows' # rows
  /\ UNCHANGED <<scene, budget, clientVars, jobs, indexes, scans, creation, eviction, health, indexer>>

\* Time passes for one row: a flag only some statement reads.
Elapse(p, f) ==
  /\ f \notin rows[p].flags
  /\ rows[p].status = IF f = "waited" THEN "rejected" ELSE "created"
  /\ f = "unused" => scene.supply
  /\ rows' = [rows EXCEPT ![p].flags = @ \cup {f}]
  /\ UNCHANGED <<scene, budget, clientVars, jobs, indexes, scans, creation, eviction, health, indexer>>

\* The indexer writes its own transitions into the same row.
IndexerHealth ==
  /\ Spend("health")
  /\ indexer' = ~indexer /\ health' = ~indexer
  /\ UNCHANGED <<scene, clientVars, jobs, dbVars, creation, eviction>>

\* The tracker restarts: its tasks start over, an open request fails.
Restart ==
  /\ Spend("restarts")
  /\ creation' = Idle /\ eviction' = Idle /\ jobs' = {}
  /\ IF flush.pc = "wait" THEN SendFailed ELSE UNCHANGED flush
  /\ UNCHANGED <<scene, served, buffer, dbVars, health, indexer>>

Client == StartFlush \/ SendBatch \/ RequeueEntries
Ingest == \E j \in jobs : BatchApplied(j) \/ \E p \in Patterns : ApplyObservation(j, p)

Environment ==
  \/ \E p \in Patterns : \/ \E failed \in BOOLEAN : BufferQuery(p, failed)
                         \/ \E f \in Flags : Elapse(p, f)
  \/ \E j \in jobs : SendTimeout(j) \/ BatchFailed(j)
  \/ RollAll \/ IndexerHealth \/ Restart

Next == Client \/ Ingest \/ Creation \/ Eviction \/ Environment

\* The flush task, the handlers and the two loops keep running.
Spec == Init /\ [][Next]_vars /\ WF_vars(Client) /\ WF_vars(Ingest) /\ WF_vars(Creation) /\ WF_vars(Eviction)

----------------------------------------------------------------------------
(* Properties                                                              *)

\* Type invariant.  The last line needs the clamp of roll_scores: a half-dropped
\* pair lowers the supply of a row that is still created.
TypeOK ==
  /\ scene \in Scenes /\ budget \in [Budgets -> Nat] /\ served \in [Patterns -> Nat]
  /\ \A p \in Patterns : rows[p].status \in Statuses /\ {rows[p].with, rows[p].without} \subseteq Bucket
  /\ indexes \in [Tables -> SUBSET Patterns] /\ scans \in [Tables -> [Patterns -> Nat]]
  /\ health \in BOOLEAN /\ indexer \in BOOLEAN
  /\ \A p \in Patterns : rows[p].rate \in [Windowed -> SUBSET Nat]

\* The physical indexes never exceed max-auto-indexes (creation.rs, "hard cap"):
\* the count the creation loop reads stays valid until its index exists although
\* drops of the trim, failed builds, failed drops and restarts come in between,
\* which leave half of a pair or a pair not yet marked.
CapHeld == Count <= scene.cap

\* Demand with the client or in the request that is still being applied: the flush
\* task posts one at a time.
Pending(p) ==
  LET posted == {j \in jobs : j.open} IN
  At(buffer, p).n + At(flush.entries, p).n + At(flush.requeue, p).n
    + IF posted = {} THEN 0 ELSE At((CHOOSE j \in posted : TRUE).obs, p).n

\* Demand the client accepted is recorded or still on its way: timeouts, aborted
\* batches and restarts of the tracker lose none of it (requeue_entries).  It may
\* be counted twice, when the request of a timed-out chunk had arrived.
DemandKept == \A p \in Patterns : Demand(rows[p]) + Pending(p) >= served[p]

Faultless == scene.broken = {} /\ \A b \in {"builds", "drops", "stores", "restarts"} : budget[b] = scene.budget[b]
Building(p) == creation.pc \in Tables \cup {"mark"} /\ creation.p = p
Dropping(p) == eviction.pc \in Tables \cup {"mark"} /\ Head(eviction.list) = p

\* While no statement failed, a pattern is "created" exactly when both indexes of
\* its pair exist, although creation, the regression guard, the trim and demand
\* that revives an evicted pattern change status and indexes in separate
\* statements (create_pair, drop_pair, record_demand).
PairMatchesStatus ==
  Faultless => \A p \in Patterns :
    Building(p) \/ Dropping(p)
    \/ IF rows[p].status = "created" THEN Pair(p) ELSE \A t \in Tables : p \notin indexes[t]

\* The trim never drops an index that leaves fewer than the target, although it
\* counts down from a number read before the drops (run_pass).
TrimStopsAtTarget ==
  [][eviction.pc = CAP_TABLE /\ eviction.then = "trim" => Cardinality(indexes'[CAP_TABLE]) >= scene.target]_vars

\* Everything the client accepted is recorded in the end, once the tracker
\* answers (flush task, requeue_entries).
DemandArrives == <>[](\A p \in Patterns : Demand(rows[p]) >= served[p])

Roomy == scene.creates /\ scene.cap > Cardinality(Patterns) /\ scene.target = scene.cap

\* The candidates of a set that rank before p or beside it.
Ahead(S, p) == {q \in S \cap Candidates(rows) : Score(rows[q], scene.mode) >= Score(rows[p], scene.mode)}

\* What may keep p waiting for ever: refused programs fill the fetch, which is cut before
\* they are filtered out, or a pattern that cannot be built is tried first every time.
Starved(p) ==
  \/ Cardinality(Ahead(Patterns \ scene.allowed, p)) >= scene.limit
  \/ Ahead(scene.allowed \cap scene.broken, p) # {}

\* With room for every pattern, each allowed candidate at the threshold is built in the
\* end, whatever is built before it and although builds fail a number of times and the
\* tracker restarts, unless one of the two things Starved names holds it up (creation
\* loop, CANDIDATE_FETCH_LIMIT, create_pair).
WantedIsBuilt ==
  <>[](Roomy => \A p \in scene.allowed \cap Candidates(rows) : Starved(p))
=============================================================================
