----------------------------- MODULE ApiServing -----------------------------
(***************************************************************************)
(* The API's account reads, from the HTTP request to the last body frame:  *)
(* a request fixes its slot, looks its query up in the cache, runs one SQL *)
(* statement, encodes the rows batch by batch with the mints they need,    *)
(* streams the body and hands what it sent to a background job that        *)
(* installs it as the new cache entry.  Requests, jobs and the indexer's   *)
(* publications interleave freely.                                         *)
(*                                                                         *)
(* The bytes of an encoded account are <<slot of its version, version of   *)
(* what else it was computed from, newest blockhash>>: exactly what a      *)
(* client can tell apart.                                                  *)
(***************************************************************************)
EXTENDS GpaCache, RpcMethods

CONSTANTS Clients,       \* connections, or the entries of a JSON-RPC batch
          Keys,          \* account keys of the one program, in key order
          OfMutable,     \* the token accounts whose mint's parsed fields can change
          MaxSlot, MaxRequests,
          Permits,       \* batch-handling-max-concurrency
          Scenes         \* the deployments and request mixes explored

ASSUME ServingAssumption ==
  /\ Keys \subseteq Nat \ {0} /\ OfMutable \subseteq Keys
  /\ {MaxSlot, MaxRequests, Permits} \subseteq Nat \ {0}
  /\ \A s \in Scenes : \A q \in s.queries : WellFormedQuestion(q)

Slots == 1..MaxSlot
Unset == [is |-> "unset"]
Comma == 0

VARIABLES scene, chain,   \* chosen once: the run's configuration and the chain's writes
          published,      \* the slots table: commitment -> slot, written by the indexer
          healthy,        \* the health column of the slots table
          hashed,         \* the newest slot in recent_blockhashes
          known, knownHealthy,   \* SlotSyncronizerData: the API's polled copy
          features,       \* slot the cached feature set was built at, 0 when none is
          cache,          \* GpaCache
          request,        \* client -> the request in flight
          jobs,           \* FinalizeJobs on the blocking pool
          reply,          \* client -> what the client sees of its last request
          asked           \* requests so far, at most MaxRequests

vars == <<scene, chain, published, healthy, hashed, known, knownHealthy, features, cache,
          request, jobs, reply, asked>>
indexer == <<published, healthy, hashed>>
sync == <<known, knownHealthy>>
fixed == <<scene, chain>>
caches == <<cache, features>>

-----------------------------------------------------------------------------
(* The chain: chain.write[s][k] is what slot s does to k; chain.mint[s] is   *)
(* the version of the mutable mint at s, 0 while it does not exist;          *)
(* chain.features[s] the version of the feature set.                         *)

Touched(c, k, slot) == {s \in 1..slot : c.write[s][k] # "none"}

Newest(slots) == IF slots = {} THEN 0 ELSE Max(slots)

\* A jsonParsed program read leaves out an account that does not parse or whose
\* mint is missing; the point reads fall back to bytes.
Parses(c, q, k, value, slot) ==
  (q.json /\ q.kind = "gpa") => value # "bad" /\ (k \in OfMutable => c.mint[slot] # 0)

\* at: the slot of the mint, or of the feature set; tip: the newest blockhash known.
Encoded(c, q, k, version, at, tip) ==
  <<version,
    IF q.kind = "simulate" THEN c.features[at]
    ELSE IF q.json /\ k \in OfMutable THEN c.mint[at] ELSE 0,
    IF q.kind = "simulate" THEN tip ELSE 0>>

\* The answer: the accounts of q that exist at the slot and match its filter.
StateAt(c, q, slot) ==
  LET Exists(k) == LET v == Newest(Touched(c, k, slot))
                   IN  /\ v # 0 /\ c.write[v][k] # "closed"
                       /\ q.selected
                       /\ q.filter # "none" => c.write[v][k] = "in"
                       /\ Parses(c, q, k, c.write[v][k], slot)
  IN  [k \in {j \in q.keys : Exists(j)} |->
         Encoded(c, q, k, Newest(Touched(c, k, slot)), slot, slot)]

\* A body cut short or not a list is no answer: the client cannot parse it.
Seen(r) == IF r.is \in {"truncated", "malformed"} THEN [is |-> "failed"] ELSE r

Reads == INSTANCE SnapshotReads WITH Questions <- UNION {s.queries : s \in Scenes},
                                     reply <- [c \in Clients |-> Seen(reply[c])]

-----------------------------------------------------------------------------
(* The request path.                                                         *)

NoRequest == [pc |-> "idle"]

UsesCache(q) == q.kind = "gpa" /\ q.filter # "valueCmp"

\* NormalizedQuery: everything that changes the response, the requested commitment included.
Normalized(q) == [keys |-> q.keys, filter |-> q.filter, json |-> q.json, asked |-> q.asked]

SetRequest(c, r) == request' = [request EXCEPT ![c] = r]

Finish(c, result) ==
  /\ SetRequest(c, NoRequest)
  /\ reply' = [reply EXCEPT ![c] = result]

Running(c) == request[c].pc \notin {"idle", "queued"}

\* A {mint} filter reads its mint first.
First(q) == IF q.mintFirst THEN "mint" ELSE "pick"

\* A request arrives: alone, or as an entry of a batch that waits for a permit.
Arrive(c, q) ==
  /\ request[c].pc = "idle" /\ asked < MaxRequests
  /\ asked' = asked + 1
  /\ SetRequest(c, [pc |-> IF scene.batched THEN "queued" ELSE First(q), q |-> q, mintAt |-> 0])
  /\ reply' = [reply EXCEPT ![c] = Reads!Waiting(q, known[q.commitment])]
  /\ UNCHANGED <<fixed, indexer, sync, caches, jobs>>

AcquirePermit(c) ==
  /\ request[c].pc = "queued"
  /\ Cardinality({d \in Clients : Running(d)}) < Permits
  /\ SetRequest(c, [request[c] EXCEPT !.pc = First(request[c].q)])
  /\ UNCHANGED <<fixed, asked, indexer, sync, caches, jobs, reply>>

\* latest_slot_and_block_time: the polled copy, or the slots table without it.
View(q) == IF scene.sync THEN [slot |-> known[q.commitment], healthy |-> knownHealthy]
           ELSE [slot |-> published[q.commitment], healthy |-> healthy]

LookedUp(q) ==
  IF UsesCache(q) /\ Normalized(q) \in DOMAIN cache.queries
  THEN cache.queries[Normalized(q)] ELSE Unset

WithSql(c, slot, entry) ==
  [pc |-> "fetch", q |-> request[c].q, mintAt |-> request[c].mintAt, slot |-> slot,
   entry |-> entry]

\* read_mint: the mint of a {mint} filter, read at a slot of its own.
ReadMint(c) ==
  LET q == request[c].q
  IN  /\ request[c].pc = "mint"
      /\ IF CommitmentRefused(q) \/ ~View(q).healthy \/ chain.mint[View(q).slot] = 0
         THEN Finish(c, Reads!Failed)
         ELSE /\ SetRequest(c, [request[c] EXCEPT !.pc = "pick", !.mintAt = View(q).slot])
              /\ reply' = reply
      /\ UNCHANGED <<fixed, asked, indexer, sync, caches, jobs>>

Reject(c) ==
  LET q == request[c].q
  IN  /\ request[c].pc = "pick" /\ q.kind \notin InOneStatement
      /\ Refused(q) \/ ~View(q).healthy \/ View(q).slot < q.minSlot
      /\ Finish(c, Reads!Failed)
      /\ UNCHANGED <<fixed, asked, indexer, sync, caches, jobs>>

\* get_program_accounts up to load_sql, and the point reads up to their SQL.  The
\* slot is read under one lock and the entry under another (scene.raced).
PickSlot(c) ==
  LET q == request[c].q
  IN  /\ request[c].pc = "pick" /\ q.kind \notin InOneStatement
      /\ ~Refused(q) /\ View(q).healthy /\ View(q).slot >= q.minSlot
      /\ SetRequest(c, IF scene.raced THEN [WithSql(c, View(q).slot, Unset) EXCEPT !.pc = "load"]
                       ELSE WithSql(c, View(q).slot, LookedUp(q)))
      /\ UNCHANGED <<fixed, asked, indexer, sync, caches, jobs, reply>>

LoadSql(c) ==
  /\ request[c].pc = "load"
  /\ SetRequest(c, WithSql(c, request[c].slot, LookedUp(request[c].q)))
  /\ UNCHANGED <<fixed, asked, indexer, sync, caches, jobs, reply>>

\* The rows of one program: each version is filtered on its own, then the newest
\* one that passed is taken and dropped when it has no lamports.  A mask has no
\* data, so it passes no data filter.  A row no newer than the entry comes empty.
Matches(q, value) == q.filter = "data" => value = "in"

Row(q, k, slot) == Newest({s \in Touched(chain, k, slot) : Matches(q, chain.write[s][k])})

Listed(q, slot) ==
  {k \in q.keys : Row(q, k, slot) # 0 /\ chain.write[Row(q, k, slot)][k] # "closed"}

\* What a read that is not streamed answers.
Values(q, slot, at, tip) ==
  [k \in {j \in Listed(q, slot) : q.selected} |->
     Encoded(chain, q, k, Row(q, k, slot), at, tip)]

Rows(q, slot, cacheSlot) ==
  {[key |-> k, version |-> Row(q, k, slot), fresh |-> Row(q, k, slot) > cacheSlot] :
     k \in Listed(q, slot)}

CacheSlot(entry) == IF entry = Unset THEN 0 ELSE entry.slot

\* The kinds answered by one statement: neither a balance nor a slot waits for a
\* healthy node.
PickInSql(c) ==
  LET q    == request[c].q
      slot == published[q.commitment]
  IN  /\ request[c].pc = "pick" /\ q.kind \in InOneStatement
      /\ IF \/ CommitmentRefused(q) \/ slot < q.minSlot
            \/ q.kind = "health" /\ ~healthy
            \/ \E k \in q.keys : OwnerExcluded(q, Row(q, k, slot) # 0)
         THEN Finish(c, Reads!Failed)
         ELSE Finish(c, Reads!Answered(q, slot, Values(q, slot, slot, slot)))
      /\ UNCHANGED <<fixed, asked, indexer, sync, caches, jobs>>

\* processed::read_accounts and what the method makes of its rows.
ReadAccounts(c) ==
  LET r == request[c]
      Exists(k)  == k \in Listed(r.q, r.slot)
      Sound(k)   == Exists(k) => chain.write[Row(r.q, k, r.slot)][k] # "bad"
      HasMint(k) == k \in OfMutable => chain.mint[r.slot] # 0
  IN  /\ r.pc = "fetch" /\ r.q.kind \in PointReads
      /\ IF \E k \in r.q.keys : \/ OwnerExcluded(r.q, Exists(k))
                                \/ NotAToken(r.q, Exists(k), Sound(k))
                                \/ MintNotFound(r.q, HasMint(k))
         THEN Finish(c, Reads!Failed)
         ELSE Finish(c, Reads!Answered(r.q, r.slot, Values(r.q, r.slot, r.slot, r.slot)))
      /\ UNCHANGED <<fixed, asked, indexer, sync, caches, jobs>>

-----------------------------------------------------------------------------
(* simulateTransaction: several statements at one slot, each may fail.       *)

Simulating(c, pc) == request[c].pc = pc /\ request[c].q.kind = "simulate"

\* latest_blockhash, blockhash_is_recent: the rows of recent_blockhashes up to the slot.
LatestBlockhash(c) ==
  LET r == request[c]
  IN  /\ Simulating(c, "fetch")
      /\ SetRequest(c, [pc |-> "features", q |-> r.q, slot |-> r.slot, features |-> 0,
                        tip |-> IF hashed < r.slot THEN hashed ELSE r.slot])
      /\ UNCHANGED <<fixed, asked, indexer, sync, caches, jobs, reply>>

\* active_feature_set: the cached one; without one it is built at the slot and cached,
\* whatever another request cached meanwhile.
ActiveFeatureSet(c) ==
  /\ Simulating(c, "features")
  /\ SetRequest(c, IF features = 0 THEN [request[c] EXCEPT !.pc = "build"]
                   ELSE [request[c] EXCEPT !.pc = "accounts", !.features = features])
  /\ UNCHANGED <<fixed, asked, indexer, sync, caches, jobs, reply>>

BuildFeatureSet(c) ==
  /\ Simulating(c, "build")
  /\ features' = request[c].slot
  /\ SetRequest(c, [request[c] EXCEPT !.pc = "accounts", !.features = features'])
  /\ UNCHANGED <<fixed, asked, indexer, sync, cache, jobs, reply>>

\* FEATURE_SET_TTL has passed.
ExpireFeatures ==
  /\ features # 0 /\ features' = 0
  /\ UNCHANGED <<fixed, asked, indexer, sync, cache, request, jobs, reply>>

\* fetch_accounts of the transaction's accounts, then the execution on them.
Simulate(c) ==
  LET r == request[c]
  IN  /\ Simulating(c, "accounts")
      /\ Finish(c, Reads!Answered(r.q, r.slot, Values(r.q, r.slot, r.features, r.tip)))
      /\ UNCHANGED <<fixed, asked, indexer, sync, caches, jobs>>

-----------------------------------------------------------------------------
(* getProgramAccounts and the methods served as one.                         *)

FetchRows(c) ==
  LET r == request[c]
  IN  /\ r.pc = "fetch" /\ r.q.kind \in ProgramReads
      /\ SetRequest(c, [pc |-> "first", q |-> r.q, mintAt |-> r.mintAt, slot |-> r.slot,
                        entry |-> r.entry, rows |-> Rows(r.q, r.slot, CacheSlot(r.entry)),
                        sent |-> <<>>, body |-> <<>>, hits |-> 0, volatile |-> FALSE])
      /\ UNCHANGED <<fixed, asked, indexer, sync, caches, jobs, reply>>

\* A database error or timeout: an error response before the first batch, later
\* the body is aborted, which the client sees as a transport error.  In a batch
\* both become an internal-error entry.
StreamFails(c) ==
  /\ scene.faults /\ request[c].pc \in {"fetch", "build", "accounts", "first", "more"}
  /\ Finish(c, Reads!Failed)
  /\ UNCHANGED <<fixed, asked, indexer, sync, caches, jobs>>

-----------------------------------------------------------------------------
(* Encoding and streaming.                                                   *)

\* The rows come in the order of their keys; the first batchSize of those left.
BatchOf(rows) ==
  IF scene.batchSize = 0 THEN rows
  ELSE {row \in rows : Cardinality({o \in rows : o.key < row.key}) < scene.batchSize}

Missing(r, row) == ~row.fresh /\ row.key \notin DOMAIN r.entry.accounts

\* set_slot, with_mint: mints are read at the slot of the accounts, but one the
\* caller read before is kept.
MintSlot(r) == IF r.mintAt # 0 THEN r.mintAt ELSE r.slot

\* valueCmp is applied to the rows; should_drop leaves out what did not parse.
Kept(r, row) ==
  /\ r.q.filter = "valueCmp" => chain.write[row.version][row.key] = "in"
  /\ row.fresh => Parses(chain, r.q, row.key, chain.write[row.version][row.key], MintSlot(r))

\* MintResolver: a fresh account of a mutable or missing mint, or one left out.
MarksVolatile(r, row) ==
  /\ r.q.json /\ row.fresh
  /\ \/ row.key \in OfMutable
     \/ ~Parses(chain, r.q, row.key, chain.write[row.version][row.key], MintSlot(r))

BytesOf(r, row) == IF row.fresh THEN Encoded(chain, r.q, row.key, row.version, MintSlot(r), r.slot)
                   ELSE r.entry.accounts[row.key]

\* The first batch is joined with commas, every later account is put after one.
Joined(first, keys) ==
  FlattenSeq([i \in DOMAIN keys |-> IF first /\ i = 1 THEN <<keys[i]>> ELSE <<Comma, keys[i]>>])

SendBatch(c) ==
  LET r     == request[c]
      batch == BatchOf(r.rows)
      kept  == {row \in batch : Kept(r, row)}
      keys  == {row.key : row \in kept}
      Bytes(k) == BytesOf(r, CHOOSE row \in kept : row.key = k)
  IN  /\ r.pc \in {"first", "more"} /\ r.rows # {}
      /\ \A row \in batch : ~Missing(r, row)
      /\ SetRequest(c, [r EXCEPT !.pc = "more", !.rows = @ \ batch,
                          !.sent = [k \in DOMAIN @ \cup keys |->
                                      IF k \in keys THEN Bytes(k) ELSE @[k]],
                          !.body = @ \o Joined(r.pc = "first", SetToSortSeq(keys, <)),
                          !.hits = @ + Cardinality({row \in kept : ~row.fresh}),
                          !.volatile = @ \/ \E row \in batch : MarksVolatile(r, row)])
      /\ UNCHANGED <<fixed, asked, indexer, sync, caches, jobs, reply>>

\* A row the entry should hold and does not: the entry is evicted, the request fails.
CacheMiss(c) ==
  LET r == request[c]
  IN  /\ r.pc \in {"first", "more"}
      /\ \E row \in BatchOf(r.rows) : Missing(r, row)
      /\ cache' = RemoveQuery(cache, Normalized(r.q))
      /\ Finish(c, Reads!Failed)
      /\ UNCHANGED <<fixed, asked, indexer, sync, features, jobs>>

\* The body as a list: accounts separated by single commas.
WellFormed(body) ==
  /\ body # <<>> => Len(body) % 2 = 1
  /\ \A i \in DOMAIN body : (body[i] = Comma) <=> (i % 2 = 0)

\* Mutant: a response with parsed fields of a mutable mint is cached.
CacheableVolatile(r) == UsesCache(r.q) /\ Cardinality(DOMAIN r.sent) >= MinBytesPerQuery

\* finalize_query: only a response of the cacheable size that nothing but its
\* accounts can change becomes a job.
Cacheable(r) ==
  /\ UsesCache(r.q) /\ ~r.volatile
  /\ Cardinality(DOMAIN r.sent) >= MinBytesPerQuery

JobOf(r) ==
  [query |-> Normalized(r.q),
   entry |-> [accounts |-> r.sent, slot |-> r.slot, size |-> Cardinality(DOMAIN r.sent),
              hits |-> r.hits]]

\* The stream ends.  A batch entry whose collected body does not parse becomes an error.
EndBody(c) ==
  LET r == request[c]
  IN  /\ r.pc \in {"first", "more"} /\ r.rows = {}
      /\ jobs' = IF Cacheable(r) THEN jobs \cup {JobOf(r)} ELSE jobs
      /\ Finish(c, IF scene.batched /\ ~WellFormed(r.body) THEN Reads!Failed
                   ELSE [Reads!Answered(r.q, r.slot, r.sent) EXCEPT
                           !.is = IF WellFormed(r.body) THEN "answer" ELSE "malformed"])
      /\ UNCHANGED <<fixed, asked, indexer, sync, caches>>

\* TrackedBody: past the deadline the body simply ends, whatever was sent so far.
Deadline(c) ==
  LET r == request[c]
  IN  /\ scene.deadline /\ ~scene.batched /\ r.pc = "more"
      /\ Finish(c, [Reads!Answered(r.q, r.slot, r.sent) EXCEPT !.is = "truncated"])
      /\ UNCHANGED <<fixed, asked, indexer, sync, caches, jobs>>

RunJob(job) ==
  /\ jobs' = jobs \ {job}
  /\ cache' = Finalize(cache, job)
  /\ UNCHANGED <<fixed, asked, indexer, sync, features, request, reply>>

-----------------------------------------------------------------------------
(* The rest of the node, as the API sees it.                                 *)

\* save_block: the Confirmed row, then the block's row in recent_blockhashes, which
\* only simulations read.
Simulates == \E q \in scene.queries : q.kind = "simulate"

PublishBlock ==
  /\ published.confirmed < MaxSlot /\ hashed = published.confirmed
  /\ published' = [published EXCEPT !.confirmed = @ + 1]
  /\ hashed' = IF Simulates THEN hashed ELSE hashed + 1
  /\ UNCHANGED <<fixed, asked, healthy, sync, caches, request, jobs, reply>>

InsertRecentBlockhash ==
  /\ hashed < published.confirmed
  /\ hashed' = published.confirmed
  /\ UNCHANGED <<fixed, asked, published, healthy, sync, caches, request, jobs, reply>>

\* A slot is finalized after its block was saved.
PublishFinalized ==
  /\ scene.finality /\ published.finalized < hashed
  /\ published' = [published EXCEPT !.finalized = @ + 1]
  /\ UNCHANGED <<fixed, asked, healthy, hashed, sync, caches, request, jobs, reply>>

ChangeHealth ==
  /\ scene.faults
  /\ healthy' = ~healthy
  /\ UNCHANGED <<fixed, asked, published, hashed, sync, caches, request, jobs, reply>>

Poll ==
  /\ scene.sync
  /\ known' = published /\ knownHealthy' = healthy
  /\ UNCHANGED <<fixed, asked, indexer, caches, request, jobs, reply>>

Init ==
  /\ scene \in Scenes
  /\ chain \in scene.chains
  /\ published = [m \in Commitments |-> 1] /\ healthy = TRUE /\ hashed = 1
  /\ known = published /\ knownHealthy = TRUE
  /\ cache = EmptyCache /\ features = 0 /\ jobs = {} /\ asked = 0
  /\ request = [c \in Clients |-> NoRequest]
  /\ reply = [c \in Clients |-> Reads!Idle]

Next ==
  \/ PublishBlock \/ InsertRecentBlockhash \/ PublishFinalized \/ ChangeHealth \/ Poll
  \/ ExpireFeatures
  \/ \E c \in Clients :
       \/ \E q \in scene.queries : Arrive(c, q)
       \/ AcquirePermit(c) \/ ReadMint(c) \/ Reject(c) \/ PickSlot(c) \/ LoadSql(c)
       \/ PickInSql(c) \/ ReadAccounts(c)
       \/ LatestBlockhash(c) \/ ActiveFeatureSet(c) \/ BuildFeatureSet(c)
       \/ Simulate(c)
       \/ FetchRows(c) \/ StreamFails(c) \/ SendBatch(c) \/ CacheMiss(c)
       \/ EndBody(c) \/ Deadline(c)
  \/ \E job \in jobs : RunJob(job)

Spec == Init /\ [][Next]_vars

-----------------------------------------------------------------------------
\* Cache counters, buckets and limit agree with the entries held, after every
\* job, eviction and self-healing removal (cache/mod.rs 133-190, 752-915).
CacheAccounted == Accounted(cache)

\* Every complete response is the state of the chain at the slot it names, and that
\* slot was served while the request ran: whether its bytes came from rows, from
\* an entry another request installed, or from both; whatever jobs, evictions and
\* mint changes happened in between (get_program_accounts.rs, cache/mod.rs).
ServesSnapshots == Reads!Spec

\* The newest version of an account decides what a read says of it: "takes the
\* newest version per pubkey, then drops the ones with no lamports" (persist.rs
\* 11-13 on the statements of api/src/db).
AnswersExact ==
  \A c \in Clients : reply[c].is = "answer" =>
    reply[c].value = StateAt(chain, reply[c].question, reply[c].slot)

\* A row the statement reports as cached is in the entry the request read: "If the
\* account was returned as cached from DB, should be in cache" (cache/mod.rs 727).
CachedRowsPresent ==
  \A c \in Clients : request[c].pc \in {"first", "more"} =>
     \A row \in request[c].rows : ~Missing(request[c], row)

\* A body that ends without a transport error is a well-formed list (streaming.rs 11-13).
BodiesWellFormed == \A c \in Clients : reply[c].is # "malformed"

\* A response cut short never looks complete to the client (streaming.rs 130-131).
CutBodiesAbort == \A c \in Clients : reply[c].is # "truncated"

=============================================================================
