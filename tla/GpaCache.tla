------------------------------ MODULE GpaCache ------------------------------
(***************************************************************************)
(* The in-memory cache of program-accounts responses (api/modules/cache).  *)
(* A cache value is a record: queries maps a normalized query to its entry *)
(* [accounts, slot, size, hits]; bySlot maps a slot to the list of the     *)
(* queries served at it, oldest slot evicted first; size and pinned are    *)
(* the two byte counters kept beside them.  The byte length of an account  *)
(* is 1, so an entry's size is the number of its accounts.                 *)
(***************************************************************************)
EXTENDS Naturals, Sequences, FiniteSets, FiniteSetsExt, SequencesExt, Functions

CONSTANTS MaxTotalBytes,      \* max-total-bytes
          MinBytesPerQuery,   \* min-bytes-per-query
          MaxEvictable,       \* max-bytes-query-cleanup: a larger entry is pinned
          PinnedThreshold     \* max-total-bytes * max-pinned-bytes-ratio

EmptyCache == [queries |-> <<>>, bySlot |-> <<>>, size |-> 0, pinned |-> 0]

IsPinnedSize(n) == n > MaxEvictable

Less(n, m) == IF n > m THEN n - m ELSE 0

\* A bucket that loses its last query loses its slot.
TakeFromBucket(bySlot, slot, query) ==
  IF slot \notin DOMAIN bySlot THEN bySlot
  ELSE LET bucket == SelectSeq(bySlot[slot], LAMBDA q : q # query)
       IN  IF bucket = <<>> THEN Restrict(bySlot, DOMAIN bySlot \ {slot})
           ELSE [bySlot EXCEPT ![slot] = bucket]

\* Mutant: the pinned bytes of a removed entry stay counted.
RemoveQueryKeepsPinned(cache, query) ==
  IF query \notin DOMAIN cache.queries THEN cache
  ELSE LET gone == cache.queries[query]
       IN  [queries |-> Restrict(cache.queries, DOMAIN cache.queries \ {query}),
            bySlot  |-> TakeFromBucket(cache.bySlot, gone.slot, query),
            size    |-> Less(cache.size, gone.size),
            pinned  |-> cache.pinned]

RemoveQuery(cache, query) ==
  IF query \notin DOMAIN cache.queries THEN cache
  ELSE LET gone == cache.queries[query]
       IN  [queries |-> Restrict(cache.queries, DOMAIN cache.queries \ {query}),
            bySlot  |-> TakeFromBucket(cache.bySlot, gone.slot, query),
            size    |-> Less(cache.size, gone.size),
            pinned  |-> IF IsPinnedSize(gone.size) THEN Less(cache.pinned, gone.size)
                        ELSE cache.pinned]

\* One visit of the oldest-first walk: a pinned entry goes only while the pinned
\* bytes exceed their cap, any other one only while room is still needed.
EvictOne(cache, target, walk, query) ==
  LET size   == cache.queries[query].size
      pinned == IsPinnedSize(size)
      goes   == IF pinned THEN walk.pinned > PinnedThreshold ELSE walk.freed < target
  IN  IF goes THEN [gone   |-> walk.gone \cup {query},
                    freed  |-> walk.freed + size,
                    pinned |-> IF pinned THEN Less(walk.pinned, size) ELSE walk.pinned]
      ELSE walk

OldestFirst(cache) ==
  FlattenSeq([i \in 1..Cardinality(DOMAIN cache.bySlot) |->
                cache.bySlot[SetToSortSeq(DOMAIN cache.bySlot, <)[i]]])

\* The walk removes an entry from the map, its bucket and the counters together.
Evicted(cache, walk) ==
  LET Left(s) == SelectSeq(cache.bySlot[s], LAMBDA q : q \notin walk.gone)
  IN  [queries |-> Restrict(cache.queries, DOMAIN cache.queries \ walk.gone),
       bySlot  |-> [s \in {t \in DOMAIN cache.bySlot : Left(t) # <<>>} |-> Left(s)],
       size    |-> Less(cache.size, walk.freed),
       pinned  |-> walk.pinned]

\* Makes room for an entry of n bytes.  ok is false when the walk ended short of
\* it: the entry is then dropped, what was evicted stays evicted.
CleanupOldQueries(cache, n) ==
  LET available == MaxTotalBytes - cache.size
      target    == Less(n, available)
      walk      == FoldLeft(LAMBDA w, q : EvictOne(cache, target, w, q),
                            [gone |-> {}, freed |-> 0, pinned |-> cache.pinned],
                            OldestFirst(cache))
  IN  IF \/ cache.size > MaxTotalBytes
         \/ available >= n /\ cache.pinned <= PinnedThreshold
      THEN [cache |-> cache, ok |-> TRUE]
      ELSE [cache |-> Evicted(cache, walk), ok |-> walk.freed + available >= n]

InsertQueryForSlot(bySlot, query, slot, older) ==
  LET rest == TakeFromBucket(bySlot, older, query)
  IN  IF slot \in DOMAIN rest THEN [rest EXCEPT ![slot] = Append(@, query)]
      ELSE [s \in DOMAIN rest \cup {slot} |-> IF s = slot THEN <<query>> ELSE rest[s]]

InsertEntry(cache, query, entry) ==
  LET known == query \in DOMAIN cache.queries
      older == IF known THEN cache.queries[query]
               ELSE [accounts |-> <<>>, slot |-> 0, size |-> 0, hits |-> 0]
      grown == cache.pinned + (IF IsPinnedSize(entry.size) THEN entry.size ELSE 0)
  IN  [queries |-> [q \in DOMAIN cache.queries \cup {query} |->
                      IF q = query THEN entry ELSE cache.queries[q]],
       bySlot  |-> InsertQueryForSlot(cache.bySlot, query, entry.slot, older.slot),
       size    |-> Less(cache.size + entry.size, older.size),
       pinned  |-> IF IsPinnedSize(older.size) THEN Less(grown, older.size) ELSE grown]

\* FinalizeJob::run: a newer or equal version already cached wins; otherwise room
\* is made and the entry replaces the older version of its query.
Finalize(cache, job) ==
  LET room == CleanupOldQueries(cache, job.entry.size)
  IN  IF /\ job.query \in DOMAIN cache.queries
         /\ cache.queries[job.query].slot >= job.entry.slot
      THEN cache
      ELSE IF room.ok THEN InsertEntry(room.cache, job.query, job.entry) ELSE room.cache

-----------------------------------------------------------------------------
EntryBytes(cache, queries) == MapThenSumSet(LAMBDA q : cache.queries[q].size, queries)

\* The counters are the bytes really held, every entry is listed exactly once, in
\* the bucket of its slot, no bucket is empty, and the cache is within its limit:
\* through replacements, evictions of the entry being replaced, self-healing
\* removals and jobs that run in another order than their requests (cache/mod.rs
\* 133-190, 752-915).
Accounted(cache) ==
  /\ cache.size = EntryBytes(cache, DOMAIN cache.queries)
  /\ cache.pinned = EntryBytes(cache, {q \in DOMAIN cache.queries :
                                         IsPinnedSize(cache.queries[q].size)})
  /\ cache.size <= MaxTotalBytes
  /\ \A s \in DOMAIN cache.bySlot : cache.bySlot[s] # <<>>
  /\ \A q \in DOMAIN cache.queries :
       {at \in (DOMAIN cache.bySlot) \X (1..Cardinality(DOMAIN cache.queries)) :
          at[2] <= Len(cache.bySlot[at[1]]) /\ cache.bySlot[at[1]][at[2]] = q}
         \in {{<<cache.queries[q].slot, i>>} : i \in 1..Cardinality(DOMAIN cache.queries)}
  /\ Len(OldestFirst(cache)) = Cardinality(DOMAIN cache.queries)

=============================================================================
