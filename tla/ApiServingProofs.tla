-------------------------- MODULE ApiServingProofs --------------------------
(***************************************************************************)
(* Proof that the API implements SnapshotReads: every complete answer is   *)
(* the state of the chain at the slot it names, and that slot was served   *)
(* while the request ran, whatever rows, cache entries, batches, jobs,     *)
(* evictions, cached feature sets and publications it went through.        *)
(*                                                                         *)
(* A body cut short or not a list is an error for the client (Seen).       *)
(*                                                                         *)
(* It holds where five deviations of the code cannot show (Exact); each    *)
(* has scenes in MCApiServing that reproduce it.                           *)
(***************************************************************************)
EXTENDS ApiServing, WellFoundedInduction, TLAPS

USE DEF vars, indexer, sync, fixed, caches

\* The slot of a commitment a request takes (latest_slot_and_block_time).
ViewSlot(m) == IF scene.sync THEN known[m] ELSE published[m]

\* Scenes and chains on which the reads are exact.  A data filter is applied to every
\* version before the newest is taken, so an account does not leave it
\* (getProgramAccounts.sql); a {mint} filter's mint is read at an earlier slot, so it
\* does not change once it exists (get_token_accounts_by_owner.rs 66); a feature set is
\* cached across slots and a confirmed slot is visible before its blockhash, so the set
\* is constant and simulations are finalized (simulate_transaction.rs 310, save_block.rs
\* 296); an entry installed between the choice of the slot and the lookup is newer than
\* the slot, so under that race a cached account is written once and may then close
\* (cache/mod.rs 651).
Exact(s, c) ==
  \A q \in s.queries :
    /\ q.filter = "data" => \A k \in q.keys, t, u \in Slots :
         t < u /\ c.write[t][k] = "in" => c.write[u][k] \in {"in", "none"}
    /\ q.mintFirst => \A t, u \in Slots : t <= u /\ c.mint[t] # 0 => c.mint[u] = c.mint[t]
    /\ q.kind = "simulate" =>
         q.commitment = "finalized" /\ \A t, u \in Slots : c.features[t] = c.features[u]
    /\ s.raced /\ UsesCache(q) => \A k \in q.keys, t, u \in Slots :
         t < u /\ c.write[t][k] # "none" => c.write[u][k] \in {"none", "closed"}

\* What the run chose at its start.
Chosen == scene \in Scenes /\ chain \in scene.chains /\ Exact(scene, chain)

\* The slots: the API's copy follows the table, and the newest blockhash lies between the
\* finalized and the confirmed slot (save_block).
SlotsInv ==
  /\ published \in [Commitments -> Slots] /\ known \in [Commitments -> Slots]
  /\ \A m \in Commitments : known[m] <= published[m]
  /\ hashed \in Slots /\ published["finalized"] <= hashed /\ hashed <= published["confirmed"]
  /\ features \in {0} \cup Slots

\* An entry holds every account its query lists at its slot, as bytes nothing but the
\* account's newest version can change.
EntryIs(n, entry) ==
  /\ entry.slot \in Slots
  /\ entry.accounts = [k \in Listed(n, entry.slot) |-> <<Row(n, k, entry.slot), 0, 0>>]
  /\ n.json => \A k \in Listed(n, entry.slot) :
       k \notin OfMutable /\ chain.write[Row(n, k, entry.slot)][k] # "bad"

\* An entry was read at a slot the requests with its commitment have reached.
Served(n, entry) ==
  /\ EntryIs(n, entry)
  /\ Resolved(n.asked) \in Commitments /\ entry.slot <= ViewSlot(Resolved(n.asked))

\* The entries installed and those on their way in a job are right.
CacheInv ==
  /\ \A n \in DOMAIN cache.queries : Served(n, cache.queries[n])
  /\ \A j \in jobs : Served(j.query, j.entry)

\* A mint read before the accounts existed at its slot, no later than theirs.
MintKnown(q, at, slot) ==
  at = 0 \/ (q.mintFirst /\ at \in Slots /\ at <= slot /\ chain.mint[at] # 0)

\* A client with a request in flight waits for its answer, since a slot not ahead of the view.
Waits(c) ==
  request[c].pc # "idle" =>
    /\ request[c].q \in scene.queries
    /\ reply[c] = Reads!Waiting(request[c].q, reply[c].since)
    /\ reply[c].since \in Slots /\ reply[c].since <= ViewSlot(request[c].q.commitment)

\* Before a slot is chosen: no mint yet, or the one of a {mint} filter.
Starts(c) ==
  LET r == request[c]
  IN  /\ r.pc = "idle" => reply[c].is # "waiting"
      /\ r.pc \in {"queued", "mint"} => r.mintAt = 0 /\ {"pc", "q", "mintAt"} \subseteq DOMAIN r
      /\ r.pc = "mint" => r.q.mintFirst
      /\ r.pc = "pick" => MintKnown(r.q, r.mintAt, ViewSlot(r.q.commitment))

\* The slot a request chose: what the API knew at the question, up to what it serves now.
HasSlot(c) ==
  LET r == request[c]
  IN  r.pc \notin {"idle", "queued", "mint", "pick"} =>
        /\ r.slot \in Slots
        /\ reply[c].since <= r.slot /\ r.slot <= ViewSlot(r.q.commitment)
        /\ r.q.kind = "gpa" => r.q.selected

\* The entry a request looked up is one of its query, no newer than its slot unless the
\* lookup raced with a job.
Fits(r) ==
  /\ MintKnown(r.q, r.mintAt, r.slot)
  /\ r.entry # Unset =>
       /\ UsesCache(r.q) /\ EntryIs(Normalized(r.q), r.entry)
       /\ r.entry.slot <= r.slot \/ scene.raced

\* Lookups race only where the two locks are apart.
HasEntry(c) ==
  /\ request[c].pc = "load" => scene.raced
  /\ request[c].pc \in {"load", "fetch", "first", "more"} => Fits(request[c])

\* A simulation runs on the blockhash of its slot and on a feature set of some slot.
SimulatesAt(c) ==
  LET r == request[c]
  IN  r.pc \in {"features", "build", "accounts"} =>
        /\ {"pc", "q", "slot", "features", "tip"} \subseteq DOMAIN r
        /\ r.q.kind = "simulate" /\ r.tip = r.slot
        /\ r.pc = "accounts" => r.features \in Slots

\* The rows already encoded.
Done(r) == Rows(r.q, r.slot, CacheSlot(r.entry)) \ r.rows

\* What was sent is, key by key, the account's newest version with the mint of the
\* request's slot, whether its bytes came from the row or from the entry; as long as the
\* response may be cached nothing volatile was sent.
Sending(r) ==
  /\ r.q.kind = "gpa"
  /\ r.rows \subseteq Rows(r.q, r.slot, CacheSlot(r.entry))
  /\ r.sent = [k \in {row.key : row \in {w \in Done(r) : Kept(r, w)}} |->
                 Encoded(chain, r.q, k, Row(r.q, k, r.slot), r.slot, r.slot)]
  /\ \A row \in Done(r) : row.fresh \/ row.key \in DOMAIN r.entry.accounts
  /\ r.volatile \in BOOLEAN /\ (~r.volatile => \A row \in Done(r) : ~MarksVolatile(r, row))

\* The state of a request that streams its body.
Sends(c) ==
  request[c].pc \in {"first", "more"} =>
    /\ {"pc", "q", "mintAt", "slot", "entry", "rows", "sent", "body", "hits", "volatile"}
         \subseteq DOMAIN request[c]
    /\ Sending(request[c])

\* One client's request and what it waits for.
ClientInv(c) == Waits(c) /\ Starts(c) /\ HasSlot(c) /\ HasEntry(c) /\ SimulatesAt(c) /\ Sends(c)

\* The inductive invariant.
ServingInv ==
  /\ Chosen /\ SlotsInv /\ CacheInv
  /\ request = [c \in Clients |-> request[c]] /\ reply = [c \in Clients |-> reply[c]]
  /\ \A c \in Clients : ClientInv(c)

-----------------------------------------------------------------------------

\* Newest is the greatest of a set of slots, 0 of none.
LEMMA NewestIs ==
  ASSUME NEW b \in Nat, NEW S \in SUBSET (1..b)
  PROVE  /\ S = {} => Newest(S) = 0
         /\ S # {} => Newest(S) \in S
         /\ \A s \in S : s <= Newest(S)
<1>1. CASE S = {}
  BY <1>1 DEF Newest
<1>2. CASE S # {}
  <2> DEFINE U == {n \in Nat : \A p \in S : p <= n}
  <2>1. b \in U
    OBVIOUS
  <2>2. PICK n \in U : \A y \in U : ~(<<y, n>> \in OpToRel(<, Nat))
    <3>1. U \subseteq Nat /\ U # {}
      BY <2>1
    <3> HIDE DEF U
    <3> QED
      BY <3>1, WFMin, NatLessThanWellFounded
  <2>3. \A y \in U : ~(y < n)
    BY <2>2 DEF OpToRel
  <2>4. n \in S
    <3> SUFFICES ASSUME n \notin S PROVE FALSE
      OBVIOUS
    <3>1. \A p \in S : p \in Nat /\ p < n
      OBVIOUS
    <3>2. n \in Nat /\ n > 0
      <4>1. PICK p \in S : p \in Nat /\ p < n
        BY <1>2, <3>1
      <4>2. n \in Nat
        OBVIOUS
      <4> QED
        BY <4>1, <4>2
    <3>3. n - 1 \in U
      BY <3>1, <3>2
    <3> QED
      BY <2>3, <3>2, <3>3
  <2>5. \E m \in S : \A p \in S : m >= p
    BY <2>4
  <2>6. Max(S) \in S /\ \A p \in S : Max(S) >= p
    BY <2>5 DEF Max
  <2> QED
    BY <1>2, <2>6 DEF Newest
<1> QED
  BY <1>1, <1>2

\* Slots are numbers; the versions of an account up to a slot are slots up to it.
LEMMA TouchedIs ==
  ASSUME NEW c, NEW k, NEW slot \in Slots
  PROVE  /\ MaxSlot \in Nat /\ slot \in Nat
         /\ Touched(c, k, slot) \in SUBSET (1..slot) /\ Touched(c, k, slot) \subseteq Slots
         /\ \A t \in 1..slot : t \in Slots
<1>1. MaxSlot \in Nat
  BY ServingAssumption
<1> QED
  BY <1>1 DEF Slots, Touched

\* The row of an account: the newest version up to the slot that passes the filter.
LEMMA RowIs ==
  ASSUME NEW n, NEW k, NEW slot \in Slots
  PROVE  /\ Row(n, k, slot) \in {0} \cup Touched(chain, k, slot) /\ Row(n, k, slot) \in Nat
         /\ Row(n, k, slot) # 0 => Matches(n, chain.write[Row(n, k, slot)][k])
         /\ \A s \in Touched(chain, k, slot) : Matches(n, chain.write[s][k]) => s <= Row(n, k, slot)
<1> DEFINE S == {s \in Touched(chain, k, slot) : Matches(n, chain.write[s][k])}
<1>1. S \in SUBSET (1..slot) /\ slot \in Nat
  BY TouchedIs
<1>2. Row(n, k, slot) = Newest(S)
  BY DEF Row
<1>3. /\ S = {} => Newest(S) = 0
      /\ S # {} => Newest(S) \in S
      /\ \A s \in S : s <= Newest(S)
  <2> HIDE DEF S
  <2> QED
    BY <1>1, NewestIs
<1>4. Row(n, k, slot) \in {0} \cup S
  BY <1>2, <1>3
<1>5. \A s \in S : s \in Touched(chain, k, slot) /\ s \in Nat /\ s # 0 /\ Matches(n, chain.write[s][k])
  BY <1>1
<1>6. \A s \in S : s <= Row(n, k, slot)
  BY <1>2, <1>3
<1>7. Row(n, k, slot) # 0 => Row(n, k, slot) \in S
  BY <1>4
<1> HIDE DEF S
<1>8. /\ Row(n, k, slot) \in {0} \cup Touched(chain, k, slot) /\ Row(n, k, slot) \in Nat
      /\ Row(n, k, slot) # 0 => Matches(n, chain.write[Row(n, k, slot)][k])
  BY <1>5, <1>7
<1> QED
  BY <1>6, <1>8 DEF S

\* A question of a scene is one the methods can ask (resolve_commitment).
LEMMA QuestionIs ==
  ASSUME Chosen, NEW q \in scene.queries
  PROVE  /\ q.commitment = Resolved(q.asked) /\ q.commitment \in Commitments
         /\ q.filter \in {"none", "data", "valueCmp"} /\ (q.filter # "none" => q.kind = "gpa")
BY ServingAssumption DEF Chosen, WellFormedQuestion, Resolved, Commitments, ProgramReads

\* Where accounts do not leave the filter, filtering each version before taking the
\* newest lists the same accounts, in the same versions, as filtering the newest.
LEMMA RowIsNewest ==
  ASSUME Chosen, NEW q \in scene.queries, NEW k \in q.keys, NEW slot \in Slots,
         NEW v, v = Newest(Touched(chain, k, slot))
  PROVE  /\ k \in Listed(q, slot) => Row(q, k, slot) = v
         /\ (v # 0 /\ chain.write[v][k] # "closed" /\ (q.filter # "none" => chain.write[v][k] = "in"))
             <=> (k \in Listed(q, slot)
                  /\ (q.filter # "none" => chain.write[Row(q, k, slot)][k] = "in"))
<1> DEFINE T == Touched(chain, k, slot)
           r == Row(q, k, slot)
<1>1. /\ T \in SUBSET (1..slot) /\ T \subseteq Slots /\ slot \in Nat /\ Slots \subseteq Nat /\ 0 \notin Slots
      /\ \A t \in T : chain.write[t][k] # "none"
      /\ \A t \in 1..slot : t \in Slots /\ (chain.write[t][k] # "none" => t \in T)
  BY TouchedIs DEF Touched, Slots
<1>2. /\ (T = {} => v = 0) /\ (T # {} => v \in T) /\ \A t \in T : t <= v
      /\ v \in Nat /\ \A t \in T : t \in Nat
  <2>1. v = Newest(T) /\ T \in SUBSET (1..slot) /\ slot \in Nat
    BY <1>1
  <2> HIDE DEF T
  <2>2. (T = {} => v = 0) /\ (T # {} => v \in T) /\ \A t \in T : t <= v
    BY <2>1, NewestIs
  <2>3. \A t \in T : t \in Nat
    BY <2>1
  <2> QED
    BY <2>2, <2>3
<1>3. /\ r \in {0} \cup T /\ r \in Nat /\ (r # 0 => Matches(q, chain.write[r][k]))
      /\ \A t \in T : Matches(q, chain.write[t][k]) => t <= r
  BY RowIs
<1>4. k \in Listed(q, slot) <=> r # 0 /\ chain.write[r][k] # "closed"
  BY DEF Listed
<1> HIDE DEF T, r
<1>5. CASE q.filter # "data"
  <2>1. r = v
    <3>1. \A t \in T : t <= r
      BY <1>3, <1>5 DEF Matches
    <3>2. v # 0 => v \in T /\ v <= r
      BY <1>2, <3>1
    <3>3. r # 0 => r \in T /\ r <= v
      BY <1>2, <1>3
    <3> QED
      BY <1>2, <1>3, <3>2, <3>3
  <2> QED
    BY <1>4, <2>1 DEF r
<1>6. CASE q.filter = "data"
  <2>1. (r # 0 => chain.write[r][k] = "in") /\ \A t \in T : chain.write[t][k] = "in" => t <= r
    BY <1>3, <1>6 DEF Matches
  <2>2. r # 0 => r = v
    <3> SUFFICES ASSUME r # 0, r # v PROVE FALSE
      OBVIOUS
    <3>1. r \in T /\ v \in T /\ r < v /\ chain.write[r][k] = "in" /\ r \in Slots /\ v \in Slots
      <4>1. r \in T /\ v \in T /\ r <= v /\ r \in Nat /\ v \in Nat
        BY <1>2, <1>3
      <4> QED
        BY <1>1, <2>1, <4>1
    <3>2. chain.write[v][k] \in {"in", "none"}
      BY <1>6, <3>1 DEF Chosen, Exact
    <3>3. chain.write[v][k] = "in"
      BY <1>1, <3>1, <3>2
    <3> QED
      <4>1. v <= r /\ r \in Nat /\ v \in Nat
        BY <1>2, <1>3, <2>1, <3>1, <3>3
      <4> QED
        BY <3>1, <4>1
  <2>3. r = 0 /\ v # 0 => chain.write[v][k] # "in"
    <3>1. v # 0 => v \in T
      BY <1>2
    <3>2. v \in T /\ chain.write[v][k] = "in" => v <= r
      BY <2>1
    <3> QED
      BY <1>2, <3>1, <3>2
  <2> QED
    BY <1>4, <1>6, <2>1, <2>2, <2>3 DEF r
<1> QED
  BY <1>5, <1>6

\* The chain's state at a slot in terms of the rows the statement returns.
LEMMA StateIs ==
  ASSUME Chosen, NEW q \in scene.queries, NEW slot \in Slots
  PROVE  StateAt(chain, q, slot) =
           [k \in {j \in Listed(q, slot) :
                     /\ q.selected
                     /\ q.filter # "none" => chain.write[Row(q, j, slot)][j] = "in"
                     /\ Parses(chain, q, j, chain.write[Row(q, j, slot)][j], slot)} |->
              Encoded(chain, q, k, Row(q, k, slot), slot, slot)]
<1> DEFINE New(k) == Newest(Touched(chain, k, slot))
           Exists(k) == /\ New(k) # 0 /\ chain.write[New(k)][k] # "closed"
                        /\ q.selected
                        /\ q.filter # "none" => chain.write[New(k)][k] = "in"
                        /\ Parses(chain, q, k, chain.write[New(k)][k], slot)
           There(j) == /\ q.selected
                       /\ q.filter # "none" => chain.write[Row(q, j, slot)][j] = "in"
                       /\ Parses(chain, q, j, chain.write[Row(q, j, slot)][j], slot)
<1>1. StateAt(chain, q, slot) =
        [k \in {j \in q.keys : Exists(j)} |-> Encoded(chain, q, k, New(k), slot, slot)]
  BY DEF StateAt
<1>2. Listed(q, slot) \subseteq q.keys
  BY DEF Listed
<1>3. ASSUME NEW k \in q.keys
      PROVE  /\ Exists(k) <=> k \in Listed(q, slot) /\ There(k)
             /\ Exists(k) => New(k) = Row(q, k, slot)
  <2>1. /\ k \in Listed(q, slot) => Row(q, k, slot) = New(k)
        /\ (New(k) # 0 /\ chain.write[New(k)][k] # "closed" /\ (q.filter # "none" => chain.write[New(k)][k] = "in"))
             <=> (k \in Listed(q, slot)
                  /\ (q.filter # "none" => chain.write[Row(q, k, slot)][k] = "in"))
    BY RowIsNewest
  <2> QED
    BY <2>1
<1> HIDE DEF Exists, There, New
<1>4. {j \in q.keys : Exists(j)} = {j \in Listed(q, slot) : There(j)}
  BY <1>2, <1>3
<1>5. [k \in {j \in q.keys : Exists(j)} |-> Encoded(chain, q, k, New(k), slot, slot)]
       = [k \in {j \in Listed(q, slot) : There(j)} |-> Encoded(chain, q, k, Row(q, k, slot), slot, slot)]
  BY <1>3, <1>4
<1> QED
  BY <1>1, <1>5 DEF There

-----------------------------------------------------------------------------

\* A normalized query selects the same rows as its question (NormalizedQuery).
LEMMA NormalizedIs ==
  ASSUME NEW q, NEW slot
  PROVE  /\ Listed(Normalized(q), slot) = Listed(q, slot)
         /\ \A k : Row(Normalized(q), k, slot) = Row(q, k, slot)
         /\ Normalized(q).json = q.json /\ Normalized(q).asked = q.asked
BY DEF Listed, Row, Matches, Normalized

\* A row the statement reports as cached has the same version in the entry: nothing was
\* written to it between the entry's slot and the request's.
LEMMA CachedRowIs ==
  ASSUME Chosen, NEW q \in scene.queries, UsesCache(q), NEW entry, EntryIs(Normalized(q), entry),
         NEW slot \in Slots, entry.slot <= slot \/ scene.raced,
         NEW k \in Listed(q, slot), Row(q, k, slot) <= entry.slot, k \in DOMAIN entry.accounts
  PROVE  /\ entry.accounts[k] = <<Row(q, k, slot), 0, 0>>
         /\ q.json => k \notin OfMutable /\ chain.write[Row(q, k, slot)][k] # "bad"
<1> DEFINE r == Row(q, k, slot)
           e == Row(q, k, entry.slot)
<1>1. /\ entry.slot \in Slots /\ k \in Listed(q, entry.slot) /\ k \in q.keys
      /\ entry.accounts[k] = <<e, 0, 0>>
      /\ q.json => k \notin OfMutable /\ chain.write[e][k] # "bad"
  BY NormalizedIs DEF EntryIs, Listed
<1>2. /\ r # 0 /\ r \in Touched(chain, k, slot) /\ Matches(q, chain.write[r][k])
      /\ \A s \in Touched(chain, k, slot) : Matches(q, chain.write[s][k]) => s <= r
  BY RowIs DEF Listed
<1>3. /\ e # 0 /\ e \in Touched(chain, k, entry.slot) /\ Matches(q, chain.write[e][k])
      /\ \A s \in Touched(chain, k, entry.slot) : Matches(q, chain.write[s][k]) => s <= e
      /\ chain.write[e][k] # "closed"
  BY <1>1, RowIs DEF Listed
<1>4. /\ r \in Nat /\ e \in Nat /\ slot \in Nat /\ entry.slot \in Nat /\ r <= slot /\ e <= entry.slot
      /\ r \in Slots /\ e \in Slots /\ chain.write[r][k] # "none"
      /\ chain.write[e][k] # "none"
  BY <1>1, <1>2, <1>3, TouchedIs DEF Touched
<1>5. r <= e
  <2>1. r \in Touched(chain, k, entry.slot)
    BY <1>2, <1>4 DEF Touched
  <2> QED
    BY <1>2, <1>3, <2>1
<1>6. CASE entry.slot <= slot
  <2>1. e \in Touched(chain, k, slot)
    BY <1>3, <1>4, <1>6 DEF Touched
  <2>2. e <= r
    BY <1>2, <1>3, <2>1
  <2> QED
    BY <1>1, <1>4, <1>5, <2>2
<1>7. CASE scene.raced
  <2>1. r < e => chain.write[e][k] \in {"none", "closed"}
    BY <1>1, <1>4, <1>7 DEF Chosen, Exact
  <2>2. r = e
    BY <1>3, <1>4, <1>5, <2>1
  <2> QED
    BY <1>1, <2>2
<1> QED
  BY <1>6, <1>7

\* Installing a job's entry evicts and replaces; whatever is cached afterwards was
\* cached before, or is the job's entry (FinalizeJob::run).
LEMMA FinalizeIs ==
  ASSUME NEW held, NEW job, NEW n \in DOMAIN Finalize(held, job).queries
  PROVE  \/ n \in DOMAIN held.queries /\ Finalize(held, job).queries[n] = held.queries[n]
         \/ n = job.query /\ Finalize(held, job).queries[n] = job.entry
<1> DEFINE room == CleanupOldQueries(held, job.entry.size)
<1>1. ASSUME NEW m \in DOMAIN room.cache.queries
      PROVE  m \in DOMAIN held.queries /\ room.cache.queries[m] = held.queries[m]
  <2>1. ASSUME NEW walk, NEW x \in DOMAIN Evicted(held, walk).queries
        PROVE  x \in DOMAIN held.queries /\ Evicted(held, walk).queries[x] = held.queries[x]
    BY <2>1 DEF Evicted, Restrict
  <2>2. PICK walk : room.cache = held \/ room.cache = Evicted(held, walk)
    BY DEF CleanupOldQueries
  <2> HIDE DEF room
  <2> QED
    BY <2>1, <2>2
<1>2. CASE Finalize(held, job) = held
  BY <1>2
<1>3. CASE Finalize(held, job) = room.cache
  <2> HIDE DEF room
  <2> QED
    BY <1>1, <1>3
<1>4. CASE Finalize(held, job) = InsertEntry(room.cache, job.query, job.entry)
  <2> HIDE DEF room
  <2> QED
    BY <1>1, <1>4 DEF InsertEntry
<1> QED
  BY <1>2, <1>3, <1>4 DEF Finalize

\* Evicting a query leaves the other entries alone (remove_query).
LEMMA RemoveIs ==
  ASSUME NEW held, NEW query, NEW n \in DOMAIN RemoveQuery(held, query).queries
  PROVE  n \in DOMAIN held.queries /\ RemoveQuery(held, query).queries[n] = held.queries[n]
BY DEF RemoveQuery, Restrict

-----------------------------------------------------------------------------

\* The mint an answer is encoded with is the one at the slot of its accounts.
LEMMA MintIs ==
  ASSUME Chosen, NEW q \in scene.queries, NEW slot \in Slots, NEW at, MintKnown(q, at, slot)
  PROVE  chain.mint[IF at # 0 THEN at ELSE slot] = chain.mint[slot]
BY DEF MintKnown, Chosen, Exact

\* A row names a listed account and its version.
LEMMA RowsAre ==
  ASSUME NEW q, NEW slot, NEW s, NEW row \in Rows(q, slot, s)
  PROVE  /\ row.key \in Listed(q, slot) /\ row.version = Row(q, row.key, slot)
         /\ row.fresh = (row.version > s)
         /\ row = [key |-> row.key, version |-> Row(q, row.key, slot),
                   fresh |-> Row(q, row.key, slot) > s]
BY DEF Rows

\* What becomes of one row: its bytes are those of the account at the request's slot,
\* and it is kept exactly when the account belongs to the answer; if it marks nothing
\* volatile it is kept, and its bytes depend on the account alone.
LEMMA RowSent ==
  ASSUME Chosen, NEW r, r.q \in scene.queries, r.q.kind = "gpa", r.slot \in Slots, Fits(r),
         NEW row \in Rows(r.q, r.slot, CacheSlot(r.entry)),
         row.fresh \/ row.key \in DOMAIN r.entry.accounts,
         NEW k, k = row.key, NEW v, v = Row(r.q, k, r.slot)
  PROVE  /\ k \in Listed(r.q, r.slot)
         /\ BytesOf(r, row) = Encoded(chain, r.q, k, v, r.slot, r.slot)
         /\ Kept(r, row) <=> /\ r.q.filter # "none" => chain.write[v][k] = "in"
                             /\ Parses(chain, r.q, k, chain.write[v][k], r.slot)
         /\ UsesCache(r.q) /\ ~MarksVolatile(r, row) =>
              /\ Kept(r, row) /\ Encoded(chain, r.q, k, v, r.slot, r.slot) = <<v, 0, 0>>
              /\ r.q.json => k \notin OfMutable /\ chain.write[v][k] # "bad"
<1>1. /\ k \in Listed(r.q, r.slot) /\ row.version = v /\ row.fresh = (v > CacheSlot(r.entry))
  BY RowsAre
<1>2. /\ v # 0 /\ v \in Nat /\ Matches(r.q, chain.write[v][k]) /\ v \in Slots
  BY <1>1, RowIs, TouchedIs DEF Listed
<1>3. chain.mint[MintSlot(r)] = chain.mint[r.slot]
  BY MintIs DEF MintSlot, Fits
<1>4. CASE row.fresh
  <2>1. BytesOf(r, row) = Encoded(chain, r.q, k, v, r.slot, r.slot)
    BY <1>1, <1>3, <1>4 DEF BytesOf, Encoded
  <2>2. Parses(chain, r.q, k, chain.write[v][k], MintSlot(r))
         <=> Parses(chain, r.q, k, chain.write[v][k], r.slot)
    BY <1>3 DEF Parses
  <2>3. Kept(r, row) <=> /\ r.q.filter # "none" => chain.write[v][k] = "in"
                         /\ Parses(chain, r.q, k, chain.write[v][k], r.slot)
    BY <1>1, <1>2, <1>4, <2>2, QuestionIs DEF Kept, Matches
  <2>4. UsesCache(r.q) /\ ~MarksVolatile(r, row) =>
              /\ Kept(r, row) /\ Encoded(chain, r.q, k, v, r.slot, r.slot) = <<v, 0, 0>>
              /\ r.q.json => k \notin OfMutable /\ chain.write[v][k] # "bad"
    BY <1>1, <1>4 DEF UsesCache, MarksVolatile, Kept, Encoded, Parses
  <2> QED
    BY <1>1, <2>1, <2>3, <2>4
<1>5. CASE ~row.fresh
  <2>1. /\ r.entry # Unset /\ UsesCache(r.q) /\ EntryIs(Normalized(r.q), r.entry)
        /\ r.entry.slot <= r.slot \/ scene.raced
        /\ v <= r.entry.slot /\ k \in DOMAIN r.entry.accounts
    <3>0. ~(v > CacheSlot(r.entry))
      BY <1>1, <1>5
    <3>1. r.entry # Unset
      BY <1>2, <3>0 DEF CacheSlot
    <3>2. UsesCache(r.q) /\ EntryIs(Normalized(r.q), r.entry) /\ (r.entry.slot <= r.slot \/ scene.raced)
      BY <3>1 DEF Fits
    <3>3. r.entry.slot \in Nat
      BY <3>2, TouchedIs DEF EntryIs
    <3> QED
      BY <1>1, <1>2, <1>5, <3>0, <3>1, <3>2, <3>3 DEF CacheSlot
  <2>2. /\ r.entry.accounts[k] = <<v, 0, 0>>
        /\ r.q.json => k \notin OfMutable /\ chain.write[v][k] # "bad"
    BY <1>1, <2>1, CachedRowIs
  <2>3. BytesOf(r, row) = <<v, 0, 0>> /\ Encoded(chain, r.q, k, v, r.slot, r.slot) = <<v, 0, 0>>
    BY <1>5, <2>2 DEF BytesOf, Encoded
  <2>4. Kept(r, row)
    BY <1>5, <2>1 DEF Kept, UsesCache
  <2>5. /\ r.q.filter # "none" => chain.write[v][k] = "in"
        /\ Parses(chain, r.q, k, chain.write[v][k], r.slot)
    BY <1>2, <2>1, <2>2, QuestionIs DEF UsesCache, Matches, Parses
  <2> QED
    BY <1>1, <2>2, <2>3, <2>4, <2>5
<1> QED
  BY <1>1, <1>4, <1>5

-----------------------------------------------------------------------------

\* What is said of entries and requests speaks of the scene and the chain only.
LEMMA Rigid ==
  ASSUME UNCHANGED <<scene, chain>>
  PROVE  /\ \A n, e : EntryIs(n, e)' <=> EntryIs(n, e)
         /\ \A q, at, slot : MintKnown(q, at, slot)' <=> MintKnown(q, at, slot)
         /\ \A r : Fits(r)' <=> Fits(r)
         /\ \A r : Sending(r)' <=> Sending(r)
<1>1. \A n, e : EntryIs(n, e)' <=> EntryIs(n, e)
  BY DEF EntryIs, Listed, Row
<1>2. \A q, at, slot : MintKnown(q, at, slot)' <=> MintKnown(q, at, slot)
  BY DEF MintKnown
<1>3. \A r : Fits(r)' <=> Fits(r)
  BY <1>1, <1>2 DEF Fits
<1>4. \A r : Sending(r)' <=> Sending(r)
  BY DEF Sending, Done, Rows, Listed, Row, Kept, MarksVolatile
<1> QED
  BY <1>1, <1>2, <1>3, <1>4

\* The view of a commitment moves forward only.
Grows ==
  /\ UNCHANGED <<scene, chain>>
  /\ \A m \in Commitments : /\ ViewSlot(m) \in Slots /\ ViewSlot(m)' \in Slots
                            /\ ViewSlot(m) <= ViewSlot(m)'

\* Slots are ordered.
LEMMA NatsGrow == \A a, b, c \in Slots : a <= b /\ b <= c => a <= c
BY ServingAssumption DEF Slots

\* An entry stays right as the view moves forward.
LEMMA ServedKeeps ==
  ASSUME Grows, NEW n, NEW e, Served(n, e)
  PROVE  Served(n, e)'
<1>1. EntryIs(n, e)' /\ e.slot \in Slots
  <2>1. EntryIs(n, e)
    BY DEF Served
  <2>2. EntryIs(n, e)'
    BY <2>1, Rigid DEF Grows
  <2> QED
    BY <2>1, <2>2 DEF EntryIs
<1>2. Resolved(n.asked) \in Commitments /\ e.slot <= ViewSlot(Resolved(n.asked))'
  BY <1>1, NatsGrow DEF Served, Grows
<1> QED
  BY <1>1, <1>2 DEF Served

\* So does a request that takes no step.
LEMMA ClientKeeps ==
  ASSUME Chosen, Grows, NEW c, ClientInv(c), request'[c] = request[c], reply'[c] = reply[c]
  PROVE  ClientInv(c)'
<1>1. UNCHANGED <<scene, chain>>
  BY DEF Grows
<1>2. request[c].pc # "idle" => request[c].q \in scene.queries /\ request[c].q.commitment \in Commitments
  BY QuestionIs DEF ClientInv, Waits
<1>3. Waits(c)'
  BY <1>1, <1>2, NatsGrow DEF ClientInv, Waits, Grows
<1>4. Starts(c)'
  <2>1. request[c].pc = "pick" => MintKnown(request[c].q, request[c].mintAt, ViewSlot(request[c].q.commitment)')
    BY <1>2, NatsGrow DEF ClientInv, Starts, MintKnown, Grows
  <2> QED
    BY <1>1, <2>1, Rigid DEF ClientInv, Starts
<1>5. HasSlot(c)'
  BY <1>1, <1>2, NatsGrow DEF ClientInv, HasSlot, Grows
<1>6. HasEntry(c)'
  BY <1>1, Rigid DEF ClientInv, HasEntry
<1>7. SimulatesAt(c)'
  BY <1>1 DEF ClientInv, SimulatesAt
<1>8. Sends(c)'
  BY <1>1, Rigid DEF ClientInv, Sends
<1> QED
  BY <1>3, <1>4, <1>5, <1>6, <1>7, <1>8 DEF ClientInv

\* The view of a commitment lies between the API's copy and the table.
LEMMA ViewIs ==
  ASSUME SlotsInv, NEW m \in Commitments
  PROVE  /\ ViewSlot(m) \in Slots /\ known[m] <= ViewSlot(m) /\ ViewSlot(m) <= published[m]
         /\ published[m] \in Slots /\ known[m] \in Slots
<1>1. \A a \in Slots : a <= a
  BY ServingAssumption DEF Slots
<1> QED
  BY <1>1 DEF SlotsInv, ViewSlot

\* A step of the API leaves the view alone.
LEMMA Still ==
  ASSUME ServingInv, UNCHANGED <<scene, chain, published, known>>
  PROVE  Grows
<1>1. \A m \in Commitments : ViewSlot(m) \in Slots /\ ViewSlot(m)' = ViewSlot(m)
  BY ViewIs DEF ServingInv, ViewSlot
<1>2. \A a \in Slots : a <= a
  BY ServingAssumption DEF Slots
<1> QED
  BY <1>1, <1>2 DEF Grows

\* The indexer and the synchronizer move slots forward and leave requests and the cache
\* alone (save_block, slot_syncronizer.rs).
LEMMA NodeGrows ==
  ASSUME SlotsInv,
         PublishBlock \/ InsertRecentBlockhash \/ PublishFinalized \/ ChangeHealth \/ Poll \/ ExpireFeatures
  PROVE  /\ SlotsInv' /\ Grows /\ UNCHANGED <<request, reply, jobs, cache>>
         /\ \A m \in Commitments : known[m] <= known'[m] /\ published[m] <= published'[m]
<1> USE DEF Commitments
<1>0. MaxSlot \in Nat /\ Slots = 1..MaxSlot
  BY ServingAssumption DEF Slots
<1>1. /\ UNCHANGED <<scene, chain, request, reply, jobs, cache>>
  BY DEF PublishBlock, InsertRecentBlockhash, PublishFinalized, ChangeHealth, Poll, ExpireFeatures
<1>2. /\ SlotsInv'
      /\ \A m \in Commitments : known[m] <= known'[m] /\ published[m] <= published'[m]
  <2>1. CASE PublishBlock
    BY <1>0, <2>1 DEF PublishBlock, SlotsInv
  <2>2. CASE InsertRecentBlockhash
    BY <1>0, <2>2 DEF InsertRecentBlockhash, SlotsInv
  <2>3. CASE PublishFinalized
    BY <1>0, <2>3 DEF PublishFinalized, SlotsInv
  <2>4. CASE ChangeHealth
    BY <1>0, <2>4 DEF ChangeHealth, SlotsInv
  <2>5. CASE Poll
    BY <1>0, <2>5 DEF Poll, SlotsInv
  <2>6. CASE ExpireFeatures
    BY <1>0, <2>6 DEF ExpireFeatures, SlotsInv
  <2> QED
    BY <2>1, <2>2, <2>3, <2>4, <2>5, <2>6
<1>3. Grows
  <2>1. \A m \in Commitments : ViewSlot(m) \in Slots /\ ViewSlot(m)' \in Slots
    BY <1>2, ViewIs DEF SlotsInv, ViewSlot
  <2>2. \A m \in Commitments : ViewSlot(m) <= ViewSlot(m)'
    BY <1>1, <1>2 DEF ViewSlot
  <2> QED
    BY <1>1, <2>1, <2>2 DEF Grows
<1> QED
  BY <1>1, <1>2, <1>3

-----------------------------------------------------------------------------

\* A client's request becomes r, and what it sees p.
StepsTo(c, r, p) ==
  /\ request' = [request EXCEPT ![c] = r]
  /\ reply' = [reply EXCEPT ![c] = p]

\* A step of one client leaves the other clients' part of the invariant alone.
LEMMA Frame ==
  ASSUME ServingInv, NEW c \in Clients, NEW r, NEW p, StepsTo(c, r, p),
         UNCHANGED <<scene, chain, published, known, hashed>>, features' \in {0} \cup Slots,
         CacheInv',
         request'[c] = r /\ reply'[c] = p => ClientInv(c)'
  PROVE  ServingInv'
<1>1. /\ request'[c] = r /\ reply'[c] = p
      /\ \A d \in Clients \ {c} : request'[d] = request[d] /\ reply'[d] = reply[d]
      /\ request' = [d \in Clients |-> request'[d]] /\ reply' = [d \in Clients |-> reply'[d]]
  BY DEF ServingInv, StepsTo
<1>2. Chosen' /\ SlotsInv' /\ Chosen
  BY DEF ServingInv, Chosen, SlotsInv, Exact
<1>3. Grows
  BY Still
<1>4. ASSUME NEW d \in Clients PROVE ClientInv(d)'
  BY <1>1, <1>2, <1>3, ClientKeeps DEF ServingInv
<1> QED
  BY <1>1, <1>2, <1>4 DEF ServingInv

\* As long as neither the view nor the cache moves, the entries stay right.
LEMMA SameCache ==
  ASSUME ServingInv, UNCHANGED <<scene, chain, published, known, cache, jobs>>
  PROVE  CacheInv'
<1>1. Grows
  BY Still
<1> QED
  BY <1>1, ServedKeeps DEF ServingInv, CacheInv

\* A step of the abstract specification, or a stutter.
ReadStep == [Reads!Next]_(Reads!vars)

\* A step inside a request, before its answer, is a stutter of the specification.
LEMMA Works ==
  ASSUME ServingInv, NEW c \in Clients, NEW r, SetRequest(c, r),
         UNCHANGED <<scene, chain, published, known, hashed, reply, cache, jobs>>,
         features' \in {0} \cup Slots,
         request'[c] = r /\ reply'[c] = reply[c] => ClientInv(c)'
  PROVE  ServingInv' /\ ReadStep
<1>1. StepsTo(c, r, reply[c])
  BY DEF ServingInv, StepsTo, SetRequest
<1>2. ServingInv'
  BY <1>1, Frame, SameCache
<1>3. UNCHANGED Reads!vars
  BY DEF Reads!vars
<1> QED
  BY <1>2, <1>3 DEF ReadStep

\* The end of a request is Answer when the value is the chain's state at a slot it may
\* name, Fail otherwise.
LEMMA Finishes ==
  ASSUME ServingInv, NEW c \in Clients, request[c].pc # "idle", NEW result, result.is # "waiting",
         Finish(c, result), CacheInv',
         UNCHANGED <<scene, chain, published, known, hashed>>, features' \in {0} \cup Slots,
         \/ Seen(result) = Reads!Failed
         \/ \E slot \in Slots :
              /\ reply[c].since <= slot /\ slot <= published[request[c].q.commitment]
              /\ Seen(result) = Reads!Answered(request[c].q, slot, StateAt(chain, request[c].q, slot))
  PROVE  ServingInv' /\ ReadStep
<1>1. StepsTo(c, NoRequest, result)
  BY DEF StepsTo, SetRequest, Finish
<1>2. ServingInv'
  <2>1. request'[c] = NoRequest /\ reply'[c] = result => ClientInv(c)'
    BY DEF ClientInv, Waits, Starts, HasSlot, HasEntry, SimulatesAt, Sends, NoRequest
  <2> QED
    BY <1>1, <2>1, Frame
<1> DEFINE seen == [d \in Clients |-> Seen(reply[d])]
<1>3. seen' = [seen EXCEPT ![c] = Seen(result)]
  BY <1>1 DEF ServingInv, StepsTo, Seen
<1>4. /\ reply[c] = Reads!Waiting(request[c].q, reply[c].since)
      /\ reply[c].since \in Slots /\ request[c].q \in scene.queries
      /\ request[c].q.commitment \in Commitments
  BY QuestionIs DEF ServingInv, ClientInv, Waits
<1>5. seen[c] = reply[c] /\ reply[c].is = "waiting" /\ reply[c].question = request[c].q
  BY <1>4 DEF Seen, Reads!Waiting
<1>6. CASE Seen(result) = Reads!Failed
  <2>1. Reads!Fail(c)
    BY <1>3, <1>5, <1>6 DEF Reads!Fail
  <2> QED
    BY <1>2, <2>1 DEF ReadStep, Reads!Next
<1>7. CASE \E slot \in Slots :
              /\ reply[c].since <= slot /\ slot <= published[request[c].q.commitment]
              /\ Seen(result) = Reads!Answered(request[c].q, slot, StateAt(chain, request[c].q, slot))
  <2>1. PICK slot \in Slots :
              /\ reply[c].since <= slot /\ slot <= published[request[c].q.commitment]
              /\ Seen(result) = Reads!Answered(request[c].q, slot, StateAt(chain, request[c].q, slot))
    BY <1>7
  <2>2. slot \in reply[c].since..published[request[c].q.commitment]
    BY <1>4, <2>1, ServingAssumption DEF ServingInv, SlotsInv, Slots
  <2>3. seen' = [seen EXCEPT ![c] = Reads!Answered(seen[c].question, slot,
                                                    StateAt(chain, seen[c].question, slot))]
    BY <1>3, <1>5, <2>1
  <2>4. /\ slot \in seen[c].since..published[seen[c].question.commitment]
        /\ seen[c].is = "waiting"
    BY <1>5, <2>2
  <2>5. Reads!Answer(c)
    BY <2>3, <2>4 DEF Reads!Answer
  <2> QED
    BY <1>2, <2>5 DEF ReadStep, Reads!Next
<1> QED
  BY <1>6, <1>7
-----------------------------------------------------------------------------

\* What the invariant says of a request in flight.
LEMMA AskedIs ==
  ASSUME ServingInv, NEW c \in Clients, request[c].pc # "idle", NEW q, q = request[c].q
  PROVE  /\ Chosen /\ q \in scene.queries
         /\ q.commitment = Resolved(q.asked) /\ q.commitment \in Commitments
         /\ reply[c] = Reads!Waiting(q, reply[c].since) /\ reply[c].since \in Slots
         /\ ViewSlot(q.commitment) \in Slots /\ reply[c].since <= ViewSlot(q.commitment)
         /\ published[q.commitment] \in Slots /\ ViewSlot(q.commitment) <= published[q.commitment]
         /\ features \in {0} \cup Slots /\ ClientInv(c)
<1>1. Chosen /\ ClientInv(c) /\ SlotsInv
  BY DEF ServingInv
<1>2. q \in scene.queries
  BY <1>1 DEF ClientInv, Waits
<1> QED
  BY <1>1, <1>2, QuestionIs, ViewIs DEF ClientInv, Waits, SlotsInv

\* A request arrives and learns what the API knows: Ask.
LEMMA ArriveServes ==
  ASSUME ServingInv, NEW c \in Clients, NEW q \in scene.queries, Arrive(c, q)
  PROVE  ServingInv' /\ ReadStep
<1> DEFINE r == [pc |-> IF scene.batched THEN "queued" ELSE First(q), q |-> q, mintAt |-> 0]
           p == Reads!Waiting(q, known[q.commitment])
           seen == [d \in Clients |-> Seen(reply[d])]
<1>1. StepsTo(c, r, p) /\ UNCHANGED <<scene, chain, published, known, hashed, features, cache, jobs>>
  BY DEF Arrive, SetRequest, StepsTo
<1>2. /\ request[c].pc = "idle" /\ reply[c].is # "waiting" /\ features \in {0} \cup Slots
      /\ q.commitment \in Commitments
      /\ known[q.commitment] \in Slots /\ known[q.commitment] <= ViewSlot(q.commitment)
  BY QuestionIs, ViewIs DEF Arrive, ServingInv, ClientInv, Starts, SlotsInv
<1>3. request'[c] = r /\ reply'[c] = p => ClientInv(c)'
  <2> SUFFICES ASSUME request'[c] = r, reply'[c] = p PROVE ClientInv(c)'
    OBVIOUS
  <2>1. ViewSlot(q.commitment)' = ViewSlot(q.commitment)
    BY <1>1 DEF ViewSlot
  <2>2. Waits(c)'
    BY <1>1, <1>2, <2>1 DEF Waits, Reads!Waiting
  <2>3. r.pc \in {"queued", "mint", "pick"} /\ MintKnown(r.q, r.mintAt, ViewSlot(r.q.commitment))'
      /\ (r.pc = "mint" => r.q.mintFirst)
    BY DEF First, MintKnown
  <2>4. Starts(c)'
    BY <2>3 DEF Starts
  <2> QED
    BY <2>2, <2>3, <2>4 DEF ClientInv, HasSlot, HasEntry, SimulatesAt, Sends
<1>4. ServingInv'
  <2> HIDE DEF r, p
  <2> QED
    BY <1>1, <1>2, <1>3, Frame, SameCache
<1>5. Reads!Ask(c, q)
  <2>1. seen' = [seen EXCEPT ![c] = p]
    BY <1>1 DEF ServingInv, StepsTo, Seen, Reads!Waiting
  <2>2. seen[c].is # "waiting"
    BY <1>2 DEF Seen
  <2> QED
    BY <1>1, <2>1, <2>2 DEF Reads!Ask
<1> QED
  BY <1>4, <1>5 DEF ReadStep, Reads!Next, ServingInv, Chosen

\* An error ends a request: Fail.
LEMMA FailsServes ==
  ASSUME ServingInv, NEW c \in Clients, request[c].pc # "idle", Finish(c, Reads!Failed), CacheInv',
         UNCHANGED <<scene, chain, published, known, hashed, features>>
  PROVE  ServingInv' /\ ReadStep
<1>1. Reads!Failed.is # "waiting" /\ Seen(Reads!Failed) = Reads!Failed
  BY DEF Reads!Failed, Seen
<1>2. features' \in {0} \cup Slots
  BY AskedIs
<1> QED
  BY <1>1, <1>2, Finishes

\* A batch entry gets its permit.
LEMMA AcquirePermitServes ==
  ASSUME ServingInv, NEW c \in Clients, AcquirePermit(c)
  PROVE  ServingInv' /\ ReadStep
<1> DEFINE r == [request[c] EXCEPT !.pc = First(request[c].q)]
<1>1. /\ SetRequest(c, r) /\ request[c].pc = "queued"
      /\ UNCHANGED <<scene, chain, published, known, hashed, reply, features, cache, jobs>>
  BY DEF AcquirePermit
<1>2. /\ request[c].mintAt = 0 /\ {"pc", "q", "mintAt"} \subseteq DOMAIN request[c]
      /\ Waits(c) /\ features \in {0} \cup Slots
  BY <1>1, AskedIs DEF ClientInv, Starts
<1>3. /\ r.q = request[c].q /\ r.mintAt = 0 /\ r.pc \in {"mint", "pick"}
      /\ {"pc", "q", "mintAt"} \subseteq DOMAIN r /\ (r.pc = "mint" => r.q.mintFirst)
  BY <1>2 DEF First
<1> HIDE DEF r
<1>4. request'[c] = r /\ reply'[c] = reply[c] => ClientInv(c)'
  <2> SUFFICES ASSUME request'[c] = r, reply'[c] = reply[c] PROVE ClientInv(c)'
    OBVIOUS
  <2>1. Waits(c)'
    BY <1>1, <1>2, <1>3 DEF Waits, ViewSlot
  <2>2. Starts(c)'
    BY <1>3 DEF Starts, MintKnown
  <2> QED
    BY <1>3, <2>1, <2>2 DEF ClientInv, HasSlot, HasEntry, SimulatesAt, Sends
<1> QED
  BY <1>1, <1>2, <1>4, Works

\* The mint of a {mint} filter is read, or is missing.
LEMMA ReadMintServes ==
  ASSUME ServingInv, NEW c \in Clients, ReadMint(c)
  PROVE  ServingInv' /\ ReadStep
<1> DEFINE q == request[c].q
           r == [request[c] EXCEPT !.pc = "pick", !.mintAt = View(q).slot]
<1>1. /\ request[c].pc = "mint"
      /\ UNCHANGED <<scene, chain, published, known, hashed, features, cache, jobs>>
      /\ features \in {0} \cup Slots
  BY AskedIs DEF ReadMint
<1>2. CASE Finish(c, Reads!Failed)
  BY <1>1, <1>2, FailsServes, SameCache
<1>3. CASE SetRequest(c, r) /\ reply' = reply /\ chain.mint[View(q).slot] # 0
  <2>1. /\ {"pc", "q", "mintAt"} \subseteq DOMAIN request[c] /\ Waits(c)
        /\ ViewSlot(q.commitment) \in Slots /\ View(q).slot = ViewSlot(q.commitment)
    BY <1>1, AskedIs DEF ClientInv, Starts, View, ViewSlot
  <2>2. r.pc = "pick" /\ r.q = q /\ r.mintAt = View(q).slot
    BY <2>1
  <2>3. q.mintFirst
    BY <1>1, AskedIs DEF ClientInv, Starts
  <2>4. View(q).slot <= ViewSlot(q.commitment)
    BY <2>1, ServingAssumption DEF Slots
  <2> HIDE DEF r
  <2>5. request'[c] = r /\ reply'[c] = reply[c] => ClientInv(c)'
    <3> SUFFICES ASSUME request'[c] = r, reply'[c] = reply[c] PROVE ClientInv(c)'
      OBVIOUS
    <3>1. Waits(c)'
      BY <1>1, <2>1, <2>2 DEF Waits, ViewSlot
    <3>2. Starts(c)'
      <4>1. MintKnown(q, r.mintAt, ViewSlot(q.commitment))
        BY <1>3, <2>1, <2>2, <2>3, <2>4 DEF MintKnown
      <4>2. \A m : ViewSlot(m)' = ViewSlot(m)
        BY <1>1 DEF ViewSlot
      <4> QED
        BY <1>1, <2>2, <4>1, <4>2, Rigid DEF Starts
    <3> QED
      BY <2>2, <3>1, <3>2 DEF ClientInv, HasSlot, HasEntry, SimulatesAt, Sends
  <2> QED
    BY <1>1, <1>3, <2>5, Works
<1> QED
  BY <1>2, <1>3 DEF ReadMint

\* A refusal before the read.
LEMMA RejectServes ==
  ASSUME ServingInv, NEW c \in Clients, Reject(c)
  PROVE  ServingInv' /\ ReadStep
<1>1. /\ request[c].pc = "pick" /\ Finish(c, Reads!Failed)
      /\ UNCHANGED <<scene, chain, published, known, hashed, features, cache, jobs>>
  BY DEF Reject
<1> QED
  BY <1>1, FailsServes, SameCache

\* An entry looked up is right and not ahead of the view.
LEMMA LookedUpIs ==
  ASSUME ServingInv, NEW q \in scene.queries, NEW entry, entry = LookedUp(q), entry # Unset
  PROVE  UsesCache(q) /\ EntryIs(Normalized(q), entry) /\ entry.slot <= ViewSlot(q.commitment)
<1>1. UsesCache(q) /\ Normalized(q) \in DOMAIN cache.queries /\ entry = cache.queries[Normalized(q)]
  BY DEF LookedUp
<1>2. Served(Normalized(q), entry)
  BY <1>1 DEF ServingInv, CacheInv
<1>3. Resolved(Normalized(q).asked) = q.commitment
  BY NormalizedIs, QuestionIs DEF ServingInv
<1> QED
  BY <1>1, <1>2, <1>3 DEF Served

\* A request fixes its slot and looks its query up.
LEMMA PickSlotServes ==
  ASSUME ServingInv, NEW c \in Clients, PickSlot(c)
  PROVE  ServingInv' /\ ReadStep
<1> DEFINE q == request[c].q
           slot == View(q).slot
           r == IF scene.raced THEN [WithSql(c, slot, Unset) EXCEPT !.pc = "load"]
                ELSE WithSql(c, slot, LookedUp(q))
<1>1. /\ request[c].pc = "pick" /\ SetRequest(c, r)
      /\ q.kind = "gpa" => q.selected
      /\ UNCHANGED <<scene, chain, published, known, hashed, reply, features, cache, jobs>>
  BY DEF PickSlot, Refused, ProgramRefused, ProgramReads
<1>2. /\ q \in scene.queries /\ Waits(c) /\ slot = ViewSlot(q.commitment) /\ slot \in Slots
      /\ reply[c].since <= slot /\ slot <= ViewSlot(q.commitment)
      /\ MintKnown(q, request[c].mintAt, slot) /\ features \in {0} \cup Slots
  <2>1. q \in scene.queries /\ Waits(c) /\ Starts(c) /\ features \in {0} \cup Slots
    BY <1>1, AskedIs DEF ClientInv
  <2>2. slot = ViewSlot(q.commitment)
    BY DEF View, ViewSlot
  <2>3. slot \in Slots /\ reply[c].since <= slot /\ slot <= slot
    BY <1>1, <2>2, AskedIs, ServingAssumption DEF Slots
  <2> QED
    BY <1>1, <2>1, <2>2, <2>3 DEF Starts
<1>3. /\ r.pc = (IF scene.raced THEN "load" ELSE "fetch") /\ r.q = q /\ r.slot = slot
      /\ r.mintAt = request[c].mintAt
      /\ r.entry = IF scene.raced THEN Unset ELSE LookedUp(q)
  BY DEF WithSql
<1> HIDE DEF r
<1>4. Fits(r)
  <2> HIDE DEF q, slot
  <2> QED
    BY <1>2, <1>3, LookedUpIs DEF Fits
<1>5. request'[c] = r /\ reply'[c] = reply[c] => ClientInv(c)'
  <2> SUFFICES ASSUME request'[c] = r, reply'[c] = reply[c] PROVE ClientInv(c)'
    OBVIOUS
  <2>1. Waits(c)'
    BY <1>1, <1>2, <1>3 DEF Waits, ViewSlot
  <2>2. HasSlot(c)'
    BY <1>1, <1>2, <1>3 DEF HasSlot, ViewSlot
  <2>3. HasEntry(c)'
    BY <1>1, <1>3, <1>4, Rigid DEF HasEntry
  <2> QED
    BY <1>3, <2>1, <2>2, <2>3 DEF ClientInv, Starts, SimulatesAt, Sends
<1> QED
  BY <1>1, <1>2, <1>5, Works

\* The lookup on its own, after the slot was fixed.
LEMMA LoadSqlServes ==
  ASSUME ServingInv, NEW c \in Clients, LoadSql(c)
  PROVE  ServingInv' /\ ReadStep
<1> DEFINE q == request[c].q
           r == WithSql(c, request[c].slot, LookedUp(q))
<1>1. /\ request[c].pc = "load" /\ SetRequest(c, r)
      /\ UNCHANGED <<scene, chain, published, known, hashed, reply, features, cache, jobs>>
  BY DEF LoadSql
<1>2. q \in scene.queries /\ ClientInv(c) /\ features \in {0} \cup Slots
  BY <1>1, AskedIs
<1>3. r.pc = "fetch" /\ r.q = q /\ r.slot = request[c].slot /\ r.mintAt = request[c].mintAt
      /\ r.entry = LookedUp(q)
  BY DEF WithSql
<1> HIDE DEF r
<1>4. Fits(r)
  <2>1. scene.raced /\ MintKnown(q, request[c].mintAt, request[c].slot)
    BY <1>1, <1>2 DEF ClientInv, HasEntry, Fits
  <2> QED
    BY <1>2, <1>3, <2>1, LookedUpIs DEF Fits
<1>5. request'[c] = r /\ reply'[c] = reply[c] => ClientInv(c)'
  <2> SUFFICES ASSUME request'[c] = r, reply'[c] = reply[c] PROVE ClientInv(c)'
    OBVIOUS
  <2>1. Waits(c)'
    BY <1>1, <1>2, <1>3 DEF ClientInv, Waits, ViewSlot
  <2>2. HasSlot(c)'
    BY <1>1, <1>2, <1>3 DEF ClientInv, HasSlot, ViewSlot
  <2>3. HasEntry(c)'
    BY <1>1, <1>3, <1>4, Rigid DEF HasEntry
  <2> QED
    BY <1>3, <2>1, <2>2, <2>3 DEF ClientInv, Starts, SimulatesAt, Sends
<1> QED
  BY <1>1, <1>2, <1>5, Works

\* What a read that is not streamed answers is the chain's state at its slot.
LEMMA ValuesAre ==
  ASSUME Chosen, NEW q \in scene.queries, q.kind # "gpa", NEW slot \in Slots, NEW at, NEW tip,
         IF q.kind = "simulate" THEN at \in Slots /\ tip = slot ELSE at = slot
  PROVE  Values(q, slot, at, tip) = StateAt(chain, q, slot)
<1>1. q.filter = "none" /\ \A k, v : Parses(chain, q, k, v, slot)
  BY QuestionIs DEF Parses
<1>2. ASSUME NEW k, NEW v PROVE Encoded(chain, q, k, v, at, tip) = Encoded(chain, q, k, v, slot, slot)
  BY DEF Encoded, Chosen, Exact
<1>3. StateAt(chain, q, slot) = [k \in {j \in Listed(q, slot) : q.selected} |->
                                   Encoded(chain, q, k, Row(q, k, slot), slot, slot)]
  BY <1>1, StateIs
<1> QED
  BY <1>2, <1>3 DEF Values

\* Balance, slot and health are answered by one statement: Answer or Fail.
LEMMA PickInSqlServes ==
  ASSUME ServingInv, NEW c \in Clients, PickInSql(c)
  PROVE  ServingInv' /\ ReadStep
<1> DEFINE q == request[c].q
           slot == published[q.commitment]
           result == Reads!Answered(q, slot, Values(q, slot, slot, slot))
<1>1. /\ request[c].pc = "pick" /\ q.kind \in {"balance", "slot", "health"}
      /\ Finish(c, Reads!Failed) \/ Finish(c, result)
      /\ UNCHANGED <<scene, chain, published, known, hashed, features, cache, jobs>>
  BY DEF PickInSql, InOneStatement
<1>2. CASE Finish(c, Reads!Failed)
  BY <1>1, <1>2, FailsServes, SameCache
<1>3. CASE Finish(c, result)
  <2>1. /\ slot \in Slots /\ reply[c].since <= slot /\ slot <= slot /\ q \in scene.queries /\ Chosen
        /\ features \in {0} \cup Slots
    BY <1>1, AskedIs, NatsGrow, ServingAssumption DEF Slots
  <2>2. Values(q, slot, slot, slot) = StateAt(chain, q, slot)
    BY <1>1, <2>1, ValuesAre
  <2>3. /\ result.is # "waiting"
        /\ Seen(result) = Reads!Answered(q, slot, StateAt(chain, q, slot))
    BY <2>2 DEF Seen, Reads!Answered
  <2> HIDE DEF result
  <2> QED
    BY <1>1, <1>3, <2>1, <2>3, Finishes, SameCache
<1> QED
  BY <1>1, <1>2, <1>3

\* The point reads are answered from their rows: Answer or Fail.
LEMMA ReadAccountsServes ==
  ASSUME ServingInv, NEW c \in Clients, ReadAccounts(c)
  PROVE  ServingInv' /\ ReadStep
<1> DEFINE q == request[c].q
           slot == request[c].slot
           result == Reads!Answered(q, slot, Values(q, slot, slot, slot))
<1>1. /\ request[c].pc = "fetch" /\ q.kind # "gpa" /\ q.kind # "simulate"
      /\ Finish(c, Reads!Failed) \/ Finish(c, result)
      /\ UNCHANGED <<scene, chain, published, known, hashed, features, cache, jobs>>
  BY DEF ReadAccounts, PointReads, TokenReads
<1>2. CASE Finish(c, Reads!Failed)
  BY <1>1, <1>2, FailsServes, SameCache
<1>3. CASE Finish(c, result)
  <2>1. /\ q \in scene.queries /\ Chosen /\ HasSlot(c) /\ features \in {0} \cup Slots
        /\ ViewSlot(q.commitment) \in Slots /\ published[q.commitment] \in Slots
        /\ ViewSlot(q.commitment) <= published[q.commitment]
    BY <1>1, AskedIs DEF ClientInv
  <2>2. slot \in Slots /\ reply[c].since <= slot /\ slot <= published[q.commitment]
    BY <1>1, <2>1, NatsGrow DEF HasSlot
  <2>3. Values(q, slot, slot, slot) = StateAt(chain, q, slot)
    BY <1>1, <2>1, <2>2, ValuesAre
  <2>4. /\ result.is # "waiting"
        /\ Seen(result) = Reads!Answered(q, slot, StateAt(chain, q, slot))
    BY <2>3 DEF Seen, Reads!Answered
  <2> HIDE DEF result
  <2> QED
    BY <1>1, <1>3, <2>1, <2>2, <2>4, Finishes, SameCache
<1> QED
  BY <1>1, <1>2, <1>3

\* A simulation at a finalized slot finds the slot's own blockhash.
LEMMA LatestBlockhashServes ==
  ASSUME ServingInv, NEW c \in Clients, LatestBlockhash(c)
  PROVE  ServingInv' /\ ReadStep
<1> DEFINE q == request[c].q
           slot == request[c].slot
           r == [pc |-> "features", q |-> q, slot |-> slot, features |-> 0,
                 tip |-> IF hashed < slot THEN hashed ELSE slot]
<1>1. /\ request[c].pc = "fetch" /\ q.kind = "simulate" /\ SetRequest(c, r)
      /\ UNCHANGED <<scene, chain, published, known, hashed, reply, features, cache, jobs>>
  BY DEF LatestBlockhash, Simulating
<1>2. /\ q \in scene.queries /\ Chosen /\ ClientInv(c) /\ features \in {0} \cup Slots
      /\ ViewSlot(q.commitment) <= published[q.commitment]
      /\ published[q.commitment] \in Slots /\ ViewSlot(q.commitment) \in Slots
  BY <1>1, AskedIs
<1>3. slot \in Slots /\ reply[c].since <= slot /\ slot <= ViewSlot(q.commitment)
  BY <1>1, <1>2 DEF ClientInv, HasSlot
<1>4. slot <= hashed /\ hashed \in Slots
  <2>1. published["finalized"] <= hashed /\ hashed \in Slots /\ q.commitment = "finalized"
    BY <1>1, <1>2 DEF ServingInv, SlotsInv, Chosen, Exact
  <2> QED
    BY <1>2, <1>3, <2>1, NatsGrow
<1>5. r.tip = slot
  BY <1>3, <1>4, ServingAssumption DEF Slots
<1>6. r.pc = "features" /\ r.q = q /\ r.slot = slot
      /\ {"pc", "q", "slot", "features", "tip"} \subseteq DOMAIN r
  OBVIOUS
<1> HIDE DEF r
<1>7. request'[c] = r /\ reply'[c] = reply[c] => ClientInv(c)'
  <2> SUFFICES ASSUME request'[c] = r, reply'[c] = reply[c] PROVE ClientInv(c)'
    OBVIOUS
  <2>1. Waits(c)'
    BY <1>1, <1>2, <1>6 DEF ClientInv, Waits, ViewSlot
  <2>2. HasSlot(c)'
    BY <1>1, <1>3, <1>6 DEF HasSlot, ViewSlot
  <2>3. SimulatesAt(c)'
    BY <1>1, <1>5, <1>6 DEF SimulatesAt
  <2> QED
    BY <1>6, <2>1, <2>2, <2>3 DEF ClientInv, Starts, HasEntry, Sends
<1> QED
  BY <1>1, <1>2, <1>7, Works

\* A simulation goes on with a feature set, or builds one.
LEMMA FeaturesServe ==
  ASSUME ServingInv, NEW c \in Clients, NEW r, SetRequest(c, r), SimulatesAt(c),
         request[c].pc \in {"features", "build"},
         UNCHANGED <<scene, chain, published, known, hashed, reply, cache, jobs>>,
         features' \in {0} \cup Slots,
         \/ r = [request[c] EXCEPT !.pc = "build"]
         \/ \E at \in Slots : r = [request[c] EXCEPT !.pc = "accounts", !.features = at]
  PROVE  ServingInv' /\ ReadStep
<1>1. /\ r.q = request[c].q /\ r.slot = request[c].slot /\ r.tip = request[c].tip
      /\ r.pc \in {"build", "accounts"} /\ (r.pc = "accounts" => r.features \in Slots)
      /\ {"pc", "q", "slot", "features", "tip"} \subseteq DOMAIN r
      /\ r.q.kind = "simulate" /\ r.tip = r.slot
  BY DEF SimulatesAt
<1>2. request'[c] = r /\ reply'[c] = reply[c] => ClientInv(c)'
  <2> SUFFICES ASSUME request'[c] = r, reply'[c] = reply[c] PROVE ClientInv(c)'
    OBVIOUS
  <2>0. ClientInv(c)
    BY AskedIs
  <2>1. Waits(c)'
    BY <1>1, <2>0 DEF ClientInv, Waits, ViewSlot
  <2>2. HasSlot(c)'
    BY <1>1, <2>0 DEF ClientInv, HasSlot, ViewSlot
  <2>3. SimulatesAt(c)'
    BY <1>1 DEF SimulatesAt
  <2> QED
    BY <1>1, <2>1, <2>2, <2>3 DEF ClientInv, Starts, HasEntry, Sends
<1> QED
  BY <1>2, Works

\* The cached feature set is taken, or there is none.
LEMMA ActiveFeatureSetServes ==
  ASSUME ServingInv, NEW c \in Clients, ActiveFeatureSet(c)
  PROVE  ServingInv' /\ ReadStep
<1> DEFINE r == IF features = 0 THEN [request[c] EXCEPT !.pc = "build"]
                ELSE [request[c] EXCEPT !.pc = "accounts", !.features = features]
<1>1. /\ request[c].pc = "features" /\ SetRequest(c, r)
      /\ UNCHANGED <<scene, chain, published, known, hashed, reply, features, cache, jobs>>
  BY DEF ActiveFeatureSet, Simulating
<1>2. SimulatesAt(c) /\ features \in {0} \cup Slots
  BY <1>1, AskedIs DEF ClientInv
<1>3. \/ r = [request[c] EXCEPT !.pc = "build"]
      \/ \E at \in Slots : r = [request[c] EXCEPT !.pc = "accounts", !.features = at]
  BY <1>2
<1> HIDE DEF r
<1> QED
  BY <1>1, <1>2, <1>3, FeaturesServe

\* A feature set is built at the simulation's slot and cached.
LEMMA BuildFeatureSetServes ==
  ASSUME ServingInv, NEW c \in Clients, BuildFeatureSet(c)
  PROVE  ServingInv' /\ ReadStep
<1> DEFINE at == request[c].slot
           r == [request[c] EXCEPT !.pc = "accounts", !.features = at]
<1>1. /\ request[c].pc = "build" /\ SetRequest(c, r) /\ features' = at
      /\ UNCHANGED <<scene, chain, published, known, hashed, reply, cache, jobs>>
  BY DEF BuildFeatureSet, Simulating, SetRequest
<1>2. SimulatesAt(c) /\ at \in Slots
  BY <1>1, AskedIs DEF ClientInv, HasSlot
<1>3. \E a \in Slots : r = [request[c] EXCEPT !.pc = "accounts", !.features = a]
  BY <1>2
<1> HIDE DEF r
<1> QED
  BY <1>1, <1>2, <1>3, FeaturesServe

\* The execution answers with the accounts at the slot: Answer.
LEMMA SimulateServes ==
  ASSUME ServingInv, NEW c \in Clients, Simulate(c)
  PROVE  ServingInv' /\ ReadStep
<1> DEFINE q == request[c].q
           slot == request[c].slot
           value == Values(q, slot, request[c].features, request[c].tip)
           result == Reads!Answered(q, slot, value)
<1>1. /\ request[c].pc = "accounts" /\ q.kind = "simulate" /\ Finish(c, result)
      /\ UNCHANGED <<scene, chain, published, known, hashed, features, cache, jobs>>
  BY DEF Simulate, Simulating
<1>2. /\ q \in scene.queries /\ Chosen /\ HasSlot(c) /\ SimulatesAt(c) /\ features \in {0} \cup Slots
      /\ ViewSlot(q.commitment) \in Slots /\ published[q.commitment] \in Slots
      /\ ViewSlot(q.commitment) <= published[q.commitment]
  BY <1>1, AskedIs DEF ClientInv
<1>3. slot \in Slots /\ reply[c].since <= slot /\ slot <= published[q.commitment]
  BY <1>1, <1>2, NatsGrow DEF HasSlot
<1>4. value = StateAt(chain, q, slot)
  BY <1>1, <1>2, <1>3, ValuesAre DEF SimulatesAt
<1>5. /\ result.is # "waiting"
      /\ Seen(result) = Reads!Answered(q, slot, StateAt(chain, q, slot))
  BY <1>4 DEF Seen, Reads!Answered
<1> HIDE DEF result
<1> QED
  BY <1>1, <1>2, <1>3, <1>5, Finishes, SameCache

\* A database error or timeout at any stage: Fail.
LEMMA StreamFailsServes ==
  ASSUME ServingInv, NEW c \in Clients, StreamFails(c)
  PROVE  ServingInv' /\ ReadStep
<1>1. /\ request[c].pc # "idle" /\ Finish(c, Reads!Failed)
      /\ UNCHANGED <<scene, chain, published, known, hashed, features, cache, jobs>>
  BY DEF StreamFails
<1> QED
  BY <1>1, FailsServes, SameCache

\* A row the entry lacks evicts the entry and fails the request.
LEMMA CacheMissServes ==
  ASSUME ServingInv, NEW c \in Clients, CacheMiss(c)
  PROVE  ServingInv' /\ ReadStep
<1>1. /\ request[c].pc # "idle" /\ Finish(c, Reads!Failed)
      /\ cache' = RemoveQuery(cache, Normalized(request[c].q)) /\ jobs' = jobs
      /\ UNCHANGED <<scene, chain, published, known, hashed, features>>
  BY DEF CacheMiss
<1>2. Grows
  BY <1>1, Still
<1>3. \A n \in DOMAIN cache'.queries : n \in DOMAIN cache.queries /\ cache'.queries[n] = cache.queries[n]
  BY <1>1, RemoveIs
<1>4. CacheInv'
  BY <1>1, <1>2, <1>3, ServedKeeps DEF ServingInv, CacheInv
<1> QED
  BY <1>1, <1>4, FailsServes

\* A job installs its entry; no client sees it.
LEMMA RunJobServes ==
  ASSUME ServingInv, NEW job \in jobs, RunJob(job)
  PROVE  ServingInv' /\ ReadStep
<1>1. /\ jobs' = jobs \ {job} /\ cache' = Finalize(cache, job)
      /\ UNCHANGED <<scene, chain, published, known, hashed, features, request, reply>>
  BY DEF RunJob
<1>2. Grows
  BY <1>1, Still
<1>3. ASSUME NEW n \in DOMAIN cache'.queries PROVE Served(n, cache'.queries[n])
  <2>1. \/ n \in DOMAIN cache.queries /\ cache'.queries[n] = cache.queries[n]
        \/ n = job.query /\ cache'.queries[n] = job.entry
    BY <1>1, FinalizeIs
  <2> QED
    BY <2>1 DEF ServingInv, CacheInv
<1>4. CacheInv'
  BY <1>1, <1>2, <1>3, ServedKeeps DEF ServingInv, CacheInv
<1>5. ServingInv'
  <2>1. \A c \in Clients : ClientInv(c)'
    BY <1>1, <1>2, ClientKeeps DEF ServingInv
  <2>2. Chosen' /\ SlotsInv'
    BY <1>1 DEF ServingInv, Chosen, SlotsInv, Exact
  <2> QED
    BY <1>1, <1>4, <2>1, <2>2 DEF ServingInv
<1> QED
  BY <1>1, <1>5 DEF ReadStep, Reads!vars

\* The rest of the node is Advance.
LEMMA NodeServes ==
  ASSUME ServingInv,
         PublishBlock \/ InsertRecentBlockhash \/ PublishFinalized \/ ChangeHealth \/ Poll \/ ExpireFeatures
  PROVE  ServingInv' /\ ReadStep
<1>1. /\ SlotsInv' /\ Grows /\ UNCHANGED <<request, reply, jobs, cache>>
      /\ \A m \in Commitments : known[m] <= known'[m] /\ published[m] <= published'[m]
  BY NodeGrows DEF ServingInv
<1>2. UNCHANGED <<scene, chain>>
  BY <1>1 DEF Grows
<1>3. CacheInv'
  BY <1>1, ServedKeeps DEF ServingInv, CacheInv
<1>4. \A c \in Clients : ClientInv(c)'
  BY <1>1, ClientKeeps DEF ServingInv
<1>5. ServingInv'
  BY <1>1, <1>2, <1>3, <1>4 DEF ServingInv, Chosen, Exact
<1>6. Reads!Advance
  <2>1. DOMAIN known = Commitments
    BY DEF ServingInv, SlotsInv
  <2>2. \A m \in DOMAIN known : known'[m] >= known[m] /\ published'[m] >= published[m]
    BY <1>1, <2>1
  <2> QED
    BY <1>1, <1>2, <2>2 DEF Reads!Advance
<1> QED
  BY <1>5, <1>6 DEF ReadStep, Reads!Next

-----------------------------------------------------------------------------

\* The rows arrive, nothing is sent yet.
LEMMA FetchRowsServes ==
  ASSUME ServingInv, NEW c \in Clients, FetchRows(c)
  PROVE  ServingInv' /\ ReadStep
<1> DEFINE o == request[c]
           all == Rows(o.q, o.slot, CacheSlot(o.entry))
           r == [pc |-> "first", q |-> o.q, mintAt |-> o.mintAt, slot |-> o.slot,
                 entry |-> o.entry, rows |-> all,
                 sent |-> <<>>, body |-> <<>>, hits |-> 0, volatile |-> FALSE]
<1>1. /\ o.pc = "fetch" /\ o.q.kind = "gpa" /\ SetRequest(c, r)
      /\ UNCHANGED <<scene, chain, published, known, hashed, reply, features, cache, jobs>>
  BY DEF FetchRows, ProgramReads
<1>2. ClientInv(c) /\ features \in {0} \cup Slots
  BY <1>1, AskedIs
<1>3. /\ r.pc = "first" /\ r.q = o.q /\ r.mintAt = o.mintAt /\ r.slot = o.slot /\ r.entry = o.entry
      /\ r.rows = all /\ r.sent = <<>> /\ r.volatile = FALSE
      /\ {"pc", "q", "mintAt", "slot", "entry", "rows", "sent", "body", "hits", "volatile"}
           \subseteq DOMAIN r
  OBVIOUS
<1> HIDE DEF r, all
<1>4. Fits(r)
  BY <1>1, <1>2, <1>3 DEF ClientInv, HasEntry, Fits
<1>5. Sending(r)
  <2>1. Done(r) = {}
    BY <1>3 DEF Done, all
  <2>2. <<>> = [k \in {} |-> Encoded(chain, r.q, k, Row(r.q, k, r.slot), r.slot, r.slot)]
    OBVIOUS
  <2>3. {row.key : row \in {w \in {} : Kept(r, w)}} = {}
    OBVIOUS
  <2> QED
    BY <1>1, <1>3, <2>1, <2>2, <2>3 DEF Sending, all
<1>6. request'[c] = r /\ reply'[c] = reply[c] => ClientInv(c)'
  <2> SUFFICES ASSUME request'[c] = r, reply'[c] = reply[c] PROVE ClientInv(c)'
    OBVIOUS
  <2>1. Waits(c)'
    BY <1>1, <1>2, <1>3 DEF ClientInv, Waits, ViewSlot
  <2>2. HasSlot(c)'
    BY <1>1, <1>2, <1>3 DEF ClientInv, HasSlot, ViewSlot
  <2>3. HasEntry(c)'
    BY <1>1, <1>3, <1>4, Rigid DEF HasEntry
  <2>4. Sends(c)'
    BY <1>1, <1>3, <1>5, Rigid DEF Sends
  <2> QED
    BY <1>3, <2>1, <2>2, <2>3, <2>4 DEF ClientInv, Starts, SimulatesAt
<1> QED
  BY <1>1, <1>2, <1>6, Works

\* What a request has sent after one more batch, and whether it may still be cached.
SentWith(r, batch) ==
  LET kept == {row \in batch : Kept(r, row)}
      keys == {row.key : row \in kept}
  IN  [k \in DOMAIN r.sent \cup keys |->
         IF k \in keys THEN BytesOf(r, CHOOSE row \in kept : row.key = k) ELSE r.sent[k]]

VolatileWith(r, batch) == r.volatile \/ \E row \in batch : MarksVolatile(r, row)

\* A batch keeps what was sent exact, whatever rows it holds, fresh or cached.
LEMMA BatchSent ==
  ASSUME Chosen, NEW r, r.q \in scene.queries, r.slot \in Slots, Fits(r), Sending(r),
         NEW batch \in SUBSET r.rows, \A row \in batch : ~Missing(r, row),
         NEW s, s.q = r.q, s.mintAt = r.mintAt, s.slot = r.slot, s.entry = r.entry,
         s.rows = r.rows \ batch, s.sent = SentWith(r, batch), s.volatile = VolatileWith(r, batch)
  PROVE  Sending(s)
<1> DEFINE kept == {row \in batch : Kept(r, row)}
           all == Rows(r.q, r.slot, CacheSlot(r.entry))
           keys == {row.key : row \in kept}
           before == {w \in Done(r) : Kept(r, w)}
           after == {w \in Done(s) : Kept(r, w)}
           Enc(k) == Encoded(chain, r.q, k, Row(r.q, k, r.slot), r.slot, r.slot)
<1>1. /\ r.rows \subseteq all /\ r.q.kind = "gpa"
      /\ r.sent = [k \in {row.key : row \in before} |-> Enc(k)]
      /\ \A row \in Done(r) : row.fresh \/ row.key \in DOMAIN r.entry.accounts
      /\ r.volatile \in BOOLEAN /\ (~r.volatile => \A row \in Done(r) : ~MarksVolatile(r, row))
  BY DEF Sending
<1>2. /\ Done(s) = Done(r) \cup batch
      /\ \A w : Kept(s, w) <=> Kept(r, w)
      /\ \A w : MarksVolatile(s, w) <=> MarksVolatile(r, w)
      /\ s.rows \subseteq Rows(s.q, s.slot, CacheSlot(s.entry))
  BY <1>1 DEF Done, Kept, MarksVolatile, MintSlot
<1>3. \A row \in batch : row \in all /\ (row.fresh \/ row.key \in DOMAIN r.entry.accounts)
  BY <1>1 DEF Missing
<1>4. ASSUME NEW k \in keys
      PROVE  BytesOf(r, CHOOSE row \in kept : row.key = k) = Enc(k)
  <2>1. PICK row \in kept : row = (CHOOSE w \in kept : w.key = k) /\ row.key = k
    OBVIOUS
  <2>2. row \in all /\ (row.fresh \/ row.key \in DOMAIN r.entry.accounts)
    BY <1>3, <2>1
  <2>3. BytesOf(r, row) = Enc(k)
    <3> HIDE DEF all, keys
    <3> QED
      BY <1>1, <2>1, <2>2, RowSent DEF all
  <2> QED
    BY <2>1, <2>3
<1>5. {row.key : row \in before} \cup keys = {row.key : row \in after}
  BY <1>2
<1>6. s.sent = [k \in {row.key : row \in after} |-> Enc(k)]
  <2>1. DOMAIN r.sent = {row.key : row \in before} /\ \A k \in DOMAIN r.sent : r.sent[k] = Enc(k)
    BY <1>1
  <2>2. s.sent = [k \in DOMAIN r.sent \cup keys |->
                    IF k \in keys THEN BytesOf(r, CHOOSE row \in kept : row.key = k) ELSE r.sent[k]]
    BY DEF SentWith
  <2> HIDE DEF keys, kept, before, after, Enc
  <2> QED
    BY <1>4, <1>5, <2>1, <2>2
<1>7. /\ s.volatile \in BOOLEAN
      /\ ~s.volatile => ~r.volatile /\ \A row \in batch : ~MarksVolatile(r, row)
  <2> DEFINE marks == \E row \in batch : MarksVolatile(r, row)
  <2>1. s.volatile = (r.volatile \/ marks)
    BY DEF VolatileWith
  <2>2. marks \in BOOLEAN
    OBVIOUS
  <2> HIDE DEF marks
  <2>3. s.volatile \in BOOLEAN /\ (~s.volatile => ~r.volatile /\ ~marks)
    BY <1>1, <2>1, <2>2
  <2> QED
    BY <2>3 DEF marks
<1>8. s.sent = [k \in {row.key : row \in {w \in Done(s) : Kept(s, w)}} |->
                  Encoded(chain, s.q, k, Row(s.q, k, s.slot), s.slot, s.slot)]
  <2>1. {w \in Done(s) : Kept(s, w)} = after
    BY <1>2
  <2> HIDE DEF after
  <2> QED
    BY <1>6, <2>1
<1>9. \A row \in Done(s) : row.fresh \/ row.key \in DOMAIN s.entry.accounts
  BY <1>1, <1>2, <1>3
<1>10. ~s.volatile => \A row \in Done(s) : ~MarksVolatile(s, row)
  BY <1>1, <1>2, <1>7
<1> QED
  BY <1>1, <1>2, <1>7, <1>8, <1>9, <1>10 DEF Sending

\* A batch is encoded and sent.
LEMMA SendBatchServes ==
  ASSUME ServingInv, NEW c \in Clients, SendBatch(c)
  PROVE  ServingInv' /\ ReadStep
<1> DEFINE o == request[c]
           batch == BatchOf(o.rows)
           kept == {row \in batch : Kept(o, row)}
           body == o.body \o Joined(o.pc = "first", SetToSortSeq({row.key : row \in kept}, <))
           hits == o.hits + Cardinality({row \in kept : ~row.fresh})
           r == [o EXCEPT !.pc = "more", !.rows = o.rows \ batch, !.sent = SentWith(o, batch),
                          !.body = body, !.hits = hits, !.volatile = VolatileWith(o, batch)]
<1>1. /\ o.pc \in {"first", "more"} /\ \A row \in batch : ~Missing(o, row)
      /\ SetRequest(c, r)
      /\ UNCHANGED <<scene, chain, published, known, hashed, reply, features, cache, jobs>>
  BY DEF SendBatch, SentWith, VolatileWith
<1>2. /\ ClientInv(c) /\ features \in {0} \cup Slots /\ Chosen /\ o.q \in scene.queries
      /\ o.slot \in Slots /\ Fits(o) /\ Sending(o)
      /\ {"pc", "q", "mintAt", "slot", "entry", "rows", "sent", "body", "hits", "volatile"}
           \subseteq DOMAIN o
  BY <1>1, AskedIs DEF ClientInv, HasSlot, HasEntry, Sends
<1>3. batch \in SUBSET o.rows
  BY DEF BatchOf
<1>4. /\ r.pc = "more" /\ r.q = o.q /\ r.mintAt = o.mintAt /\ r.slot = o.slot /\ r.entry = o.entry
      /\ r.rows = o.rows \ batch /\ r.sent = SentWith(o, batch)
      /\ r.volatile = VolatileWith(o, batch)
      /\ DOMAIN r = DOMAIN o
  <2> HIDE DEF o, batch, body, hits
  <2> QED
    BY <1>2
<1>5. Sending(r)
  <2> HIDE DEF o, batch, r
  <2> QED
    BY <1>1, <1>2, <1>3, <1>4, BatchSent
<1> HIDE DEF r, body, hits, batch, kept
<1>6. Fits(r)
  BY <1>2, <1>4 DEF Fits
<1>7. request'[c] = r /\ reply'[c] = reply[c] => ClientInv(c)'
  <2> SUFFICES ASSUME request'[c] = r, reply'[c] = reply[c] PROVE ClientInv(c)'
    OBVIOUS
  <2>1. Waits(c)'
    BY <1>1, <1>2, <1>4 DEF ClientInv, Waits, ViewSlot
  <2>2. HasSlot(c)'
    BY <1>1, <1>2, <1>4 DEF ClientInv, HasSlot, ViewSlot
  <2>3. HasEntry(c)'
    BY <1>1, <1>4, <1>6, Rigid DEF HasEntry
  <2>4. Sends(c)'
    BY <1>1, <1>2, <1>4, <1>5, Rigid DEF Sends
  <2> QED
    BY <1>4, <2>1, <2>2, <2>3, <2>4 DEF ClientInv, Starts, SimulatesAt
<1> QED
  BY <1>1, <1>2, <1>7, Works

\* With no row left the body is the chain's state, and a response that may be cached makes
\* an entry that is right for every later request.
LEMMA AllSent ==
  ASSUME Chosen, NEW r, r.q \in scene.queries, r.q.selected, r.slot \in Slots, Fits(r), Sending(r),
         r.rows = {}
  PROVE  /\ r.sent = StateAt(chain, r.q, r.slot)
         /\ Cacheable(r) => EntryIs(Normalized(r.q), JobOf(r).entry)
<1> DEFINE all == Rows(r.q, r.slot, CacheSlot(r.entry))
           Val(k) == chain.write[Row(r.q, k, r.slot)][k]
           There(k) == /\ r.q.filter # "none" => Val(k) = "in"
                       /\ Parses(chain, r.q, k, Val(k), r.slot)
           keys == {row.key : row \in {w \in all : Kept(r, w)}}
           Enc(k) == Encoded(chain, r.q, k, Row(r.q, k, r.slot), r.slot, r.slot)
<1>1. /\ r.q.kind = "gpa" /\ r.sent = [k \in keys |-> Enc(k)]
      /\ \A row \in all : row.fresh \/ row.key \in DOMAIN r.entry.accounts
      /\ ~r.volatile => \A row \in all : ~MarksVolatile(r, row)
  <2>1. Done(r) = all
    BY DEF Done
  <2> QED
    BY <2>1 DEF Sending
<1>2. ASSUME NEW k \in Listed(r.q, r.slot) PROVE \E row \in all : row.key = k
  <2> DEFINE row == [key |-> k, version |-> Row(r.q, k, r.slot),
                     fresh |-> Row(r.q, k, r.slot) > CacheSlot(r.entry)]
  <2>1. row \in all /\ row.key = k
    BY DEF Rows
  <2> QED
    BY <2>1
<1>3. ASSUME NEW row \in all
      PROVE  /\ row.key \in Listed(r.q, r.slot)
             /\ Kept(r, row) <=> There(row.key)
             /\ UsesCache(r.q) /\ ~MarksVolatile(r, row) =>
                  /\ Kept(r, row) /\ Enc(row.key) = <<Row(r.q, row.key, r.slot), 0, 0>>
                  /\ r.q.json => row.key \notin OfMutable /\ Val(row.key) # "bad"
  <2>1. row \in Rows(r.q, r.slot, CacheSlot(r.entry))
    OBVIOUS
  <2>2. row.fresh \/ row.key \in DOMAIN r.entry.accounts
    BY <1>1
  <2> HIDE DEF all
  <2> QED
    BY <1>1, <2>1, <2>2, RowSent
<1>4. r.sent = StateAt(chain, r.q, r.slot)
  <2>1. keys = {j \in Listed(r.q, r.slot) : There(j)}
    <3> HIDE DEF There, all
    <3> QED
      BY <1>2, <1>3
  <2>2. StateAt(chain, r.q, r.slot) = [k \in {j \in Listed(r.q, r.slot) : There(j)} |-> Enc(k)]
    <3>1. {j \in Listed(r.q, r.slot) : There(j)} =
            {j \in Listed(r.q, r.slot) :
                     /\ r.q.selected
                     /\ r.q.filter # "none" => chain.write[Row(r.q, j, r.slot)][j] = "in"
                     /\ Parses(chain, r.q, j, chain.write[Row(r.q, j, r.slot)][j], r.slot)}
      OBVIOUS
    <3> QED
      BY <3>1, StateIs
  <2> HIDE DEF keys, There, Enc
  <2> QED
    BY <1>1, <2>1, <2>2
<1>5. ASSUME Cacheable(r)
      PROVE  EntryIs(Normalized(r.q), JobOf(r).entry)
  <2>1. UsesCache(r.q) /\ \A row \in all : ~MarksVolatile(r, row)
    BY <1>1, <1>5 DEF Cacheable
  <2>2. \A row \in all : /\ Kept(r, row) /\ Enc(row.key) = <<Row(r.q, row.key, r.slot), 0, 0>>
                         /\ r.q.json => row.key \notin OfMutable /\ Val(row.key) # "bad"
    BY <1>3, <2>1
  <2>3. keys = Listed(r.q, r.slot)
    <3> HIDE DEF all
    <3> QED
      BY <1>2, <1>3, <2>2
  <2>4. \A k \in Listed(r.q, r.slot) : /\ Enc(k) = <<Row(r.q, k, r.slot), 0, 0>>
                                       /\ r.q.json => k \notin OfMutable /\ Val(k) # "bad"
    <3> HIDE DEF all, Enc, Val
    <3> QED
      BY <1>2, <2>2
  <2>5. r.sent = [k \in Listed(r.q, r.slot) |-> <<Row(r.q, k, r.slot), 0, 0>>]
    <3>1. \A k \in Listed(r.q, r.slot) : Enc(k) = <<Row(r.q, k, r.slot), 0, 0>>
      BY <2>4
    <3>2. r.sent = [k \in Listed(r.q, r.slot) |-> Enc(k)]
      BY <1>1, <2>3
    <3> HIDE DEF Enc
    <3> QED
      BY <3>1, <3>2
  <2>6. JobOf(r).entry.accounts = r.sent /\ JobOf(r).entry.slot = r.slot
    BY DEF JobOf
  <2> DEFINE n == Normalized(r.q)
             entry == JobOf(r).entry
  <2>7. /\ Listed(n, r.slot) = Listed(r.q, r.slot) /\ \A k : Row(n, k, r.slot) = Row(r.q, k, r.slot)
        /\ n.json = r.q.json
    BY NormalizedIs
  <2> HIDE DEF n, entry
  <2>8. entry.accounts = [k \in Listed(n, entry.slot) |-> <<Row(n, k, entry.slot), 0, 0>>]
    BY <2>5, <2>6, <2>7 DEF entry
  <2>9. entry.slot = r.slot
    BY <2>6 DEF entry
  <2>10. n.json => \A k \in Listed(n, entry.slot) :
            k \notin OfMutable /\ chain.write[Row(n, k, entry.slot)][k] # "bad"
    BY <2>4, <2>7, <2>9
  <2>11. EntryIs(n, entry)
    BY <2>8, <2>9, <2>10 DEF EntryIs
  <2> QED
    BY <2>11 DEF n, entry
<1> QED
  BY <1>4, <1>5

\* The stream ends: Answer, or Fail for a body the client cannot parse; its job carries
\* an entry that is right.
LEMMA EndBodyServes ==
  ASSUME ServingInv, NEW c \in Clients, EndBody(c)
  PROVE  ServingInv' /\ ReadStep
<1> DEFINE r == request[c]
           done == [Reads!Answered(r.q, r.slot, r.sent) EXCEPT
                      !.is = IF WellFormed(r.body) THEN "answer" ELSE "malformed"]
           job == JobOf(r)
<1>1. /\ r.pc \in {"first", "more"} /\ r.rows = {}
      /\ jobs' = IF Cacheable(r) THEN jobs \cup {job} ELSE jobs
      /\ Finish(c, Reads!Failed) \/ Finish(c, done)
      /\ UNCHANGED <<scene, chain, published, known, hashed, features, cache>>
  BY DEF EndBody
<1>2. /\ ClientInv(c) /\ features \in {0} \cup Slots /\ Chosen /\ r.q \in scene.queries
      /\ r.q.commitment = Resolved(r.q.asked) /\ r.q.commitment \in Commitments
      /\ ViewSlot(r.q.commitment) \in Slots /\ published[r.q.commitment] \in Slots
      /\ ViewSlot(r.q.commitment) <= published[r.q.commitment]
  BY <1>1, AskedIs
<1>3. /\ r.slot \in Slots /\ Fits(r) /\ Sending(r) /\ r.q.selected
      /\ reply[c].since <= r.slot /\ r.slot <= ViewSlot(r.q.commitment)
  BY <1>1, <1>2 DEF ClientInv, HasSlot, HasEntry, Sends, Sending
<1>4. /\ r.sent = StateAt(chain, r.q, r.slot)
      /\ Cacheable(r) => EntryIs(Normalized(r.q), job.entry)
  <2> HIDE DEF r
  <2> QED
    BY <1>1, <1>2, <1>3, AllSent
<1>5. CacheInv'
  <2>1. Grows
    BY <1>1, Still
  <2>2. Cacheable(r) => Served(job.query, job.entry)
    BY <1>2, <1>3, <1>4, NormalizedIs DEF Served, JobOf
  <2>3. \A j \in jobs' : Served(j.query, j.entry)
    BY <1>1, <2>2 DEF ServingInv, CacheInv
  <2>4. \A n \in DOMAIN cache'.queries : Served(n, cache'.queries[n])
    BY <1>1 DEF ServingInv, CacheInv
  <2> QED
    BY <2>1, <2>3, <2>4, ServedKeeps DEF CacheInv
<1>6. CASE Finish(c, Reads!Failed)
  BY <1>1, <1>5, <1>6, FailsServes
<1>7. CASE Finish(c, done)
  <2>1. r.slot <= published[r.q.commitment]
    BY <1>2, <1>3, NatsGrow
  <2>2. /\ done.is # "waiting"
        /\ \/ Seen(done) = Reads!Failed
           \/ Seen(done) = Reads!Answered(r.q, r.slot, StateAt(chain, r.q, r.slot))
    BY <1>4 DEF Seen, Reads!Answered, Reads!Failed
  <2> HIDE DEF done
  <2> QED
    BY <1>1, <1>2, <1>3, <1>5, <1>7, <2>1, <2>2, Finishes
<1> QED
  BY <1>1, <1>6, <1>7

\* The deadline cuts the body: Fail.
LEMMA DeadlineServes ==
  ASSUME ServingInv, NEW c \in Clients, Deadline(c)
  PROVE  ServingInv' /\ ReadStep
<1> DEFINE result == [Reads!Answered(request[c].q, request[c].slot, request[c].sent)
                        EXCEPT !.is = "truncated"]
<1>1. /\ request[c].pc = "more" /\ Finish(c, result)
      /\ UNCHANGED <<scene, chain, published, known, hashed, features, cache, jobs>>
  BY DEF Deadline
<1>2. result.is # "waiting" /\ Seen(result) = Reads!Failed
  BY DEF Seen, Reads!Answered, Reads!Failed
<1>3. features' \in {0} \cup Slots
  BY <1>1, AskedIs
<1> HIDE DEF result
<1> QED
  BY <1>1, <1>2, <1>3, Finishes, SameCache

\* The API starts with an empty cache and no request.
LEMMA InitServes ==
  ASSUME Init, Exact(scene, chain)
  PROVE  ServingInv /\ Reads!Init
<1>1. Chosen
  BY DEF Init, Chosen
<1>2. SlotsInv
  <2>1. 1 \in Slots /\ 1 <= 1
    BY ServingAssumption DEF Slots
  <2> QED
    BY <2>1 DEF Init, SlotsInv, Commitments
<1>3. CacheInv
  BY DEF Init, CacheInv, EmptyCache
<1>4. /\ request = [c \in Clients |-> request[c]] /\ reply = [c \in Clients |-> reply[c]]
      /\ \A c \in Clients : ClientInv(c)
  BY DEF Init, NoRequest, Reads!Idle, ClientInv, Waits, Starts, HasSlot, HasEntry, SimulatesAt, Sends
<1>5. Reads!Init
  BY DEF Init, Reads!Init, Reads!Idle, Seen
<1> QED
  BY <1>1, <1>2, <1>3, <1>4, <1>5 DEF ServingInv

\* Every step keeps the invariant and is a step of the specification or a stutter.
LEMMA StepServes ==
  ASSUME ServingInv, [Next]_vars
  PROVE  ServingInv' /\ ReadStep
<1>1. CASE UNCHANGED vars
  <2>1. ServingInv'
    <3>1. Grows
      BY <1>1, Still
    <3>2. \A c \in Clients : ClientInv(c)'
      BY <1>1, <3>1, ClientKeeps DEF ServingInv
    <3>3. CacheInv'
      BY <1>1, SameCache
    <3> QED
      BY <1>1, <3>2, <3>3 DEF ServingInv, Chosen, Exact, SlotsInv
  <2>2. UNCHANGED Reads!vars
    BY <1>1 DEF Reads!vars
  <2> QED
    BY <2>1, <2>2 DEF ReadStep
<1>2. CASE PublishBlock \/ InsertRecentBlockhash \/ PublishFinalized \/ ChangeHealth \/ Poll
           \/ ExpireFeatures
  BY <1>2, NodeServes
<1>3. ASSUME NEW c \in Clients,
             \/ \E q \in scene.queries : Arrive(c, q)
             \/ AcquirePermit(c) \/ ReadMint(c) \/ Reject(c) \/ PickSlot(c) \/ LoadSql(c)
             \/ PickInSql(c) \/ ReadAccounts(c)
      PROVE  ServingInv' /\ ReadStep
  BY <1>3, ArriveServes, AcquirePermitServes, ReadMintServes, RejectServes, PickSlotServes,
     LoadSqlServes, PickInSqlServes, ReadAccountsServes
<1>4. ASSUME NEW c \in Clients,
             \/ LatestBlockhash(c) \/ ActiveFeatureSet(c) \/ BuildFeatureSet(c) \/ Simulate(c)
             \/ FetchRows(c) \/ StreamFails(c) \/ SendBatch(c) \/ CacheMiss(c)
             \/ EndBody(c) \/ Deadline(c)
      PROVE  ServingInv' /\ ReadStep
  BY <1>4, LatestBlockhashServes, ActiveFeatureSetServes, BuildFeatureSetServes, SimulateServes,
     FetchRowsServes, StreamFailsServes, SendBatchServes, CacheMissServes, EndBodyServes,
     DeadlineServes
<1>5. CASE \E job \in jobs : RunJob(job)
  BY <1>5, RunJobServes
<1> QED
  BY <1>1, <1>2, <1>3, <1>4, <1>5 DEF Next

\* The API implements SnapshotReads: every complete response, whether its bytes came from
\* rows, from an entry another request installed, or from both, is the state of the chain
\* at the slot it names, which was served while the request ran (get_program_accounts.rs,
\* cache/mod.rs, rpc.rs).
THEOREM SnapshotsServed == Spec /\ Exact(scene, chain) => ServesSnapshots
<1>1. Init /\ Exact(scene, chain) => ServingInv /\ Reads!Init
  BY InitServes
<1>2. ServingInv /\ [Next]_vars => ServingInv' /\ [Reads!Next]_(Reads!vars)
  BY StepServes DEF ReadStep
<1> QED
  BY <1>1, <1>2, PTL DEF Spec, ServesSnapshots, Reads!Spec

=============================================================================
