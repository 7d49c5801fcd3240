------------------------------ MODULE Processed ------------------------------
(***************************************************************************)
(* Processed commitment: the store of the feed's blocks (core processed/), *)
(* the anchor from the slot synchronizer, and a request that reads through *)
(* the published blocks and, for keys they do not hold, Postgres (api      *)
(* methods/processed.rs).  A block is named by its slot and its hash.      *)
(***************************************************************************)
EXTENDS GrpcFeed, Integers

CONSTANTS Cap, Retain

VARIABLES
    store,      \* BlockStore: blocks by slot, conflict_until, the anchor
    latest,     \* the published ProcessedBlocks, or None
    slots,      \* SlotSyncronizerData and the row it is applying
    watch,      \* the anchor channel: the last value not yet seen
    cleaned,    \* Postgres keeps the history of the slots from here on
    req         \* one request

vars == <<scene, feedVars, store, latest, slots, watch, cleaned, req>>

Keys == {"t", "m"}     \* a token account and its mint
None == [slot |-> 0]

\* What a read of a key can return besides a version: closed, cleaned up in
\* Postgres, not read yet.
Gone == -1
CleanedUp == -2
Unread == -3

NoAnchor == [slot |-> 0, hash |-> 0]

(***************************************************************************)
(* The blocks of the network.  The path of a block is its ancestors, itself *)
(* included.  A slot and a hash name one block, and only blocks the chain   *)
(* skipped have a hash other than 0.                                        *)
(***************************************************************************)
Block == [slot : Nat \ {0}, hash : Nat, parent : Nat, phash : Nat, time : BOOLEAN,
          canonical : BOOLEAN, writes : [Keys -> {"-", "put", "zero", "filtered"}]]

BlocksOf(s) == {s.feed[i] : i \in DOMAIN s.feed}

ASSUME FeedAssumption ==
    \A s \in Scenes :
       /\ s.feed \in Seq(Block) /\ s.health \subseteq BOOLEAN
       /\ \A b, c \in BlocksOf(s) : b.slot = c.slot /\ b.hash = c.hash => b = c
       /\ \A b \in BlocksOf(s) : b.canonical => b.hash = 0

\* The parent of a block, if it is one of the given blocks.
ParentIn(blocks, b) ==
    IF b.parent >= b.slot THEN {}
    ELSE {p \in blocks : p.slot = b.parent /\ p.hash = b.phash}

\* The walk from parent to parent: the least set with the block that is closed
\* under parents.
Walk(blocks, b) ==
    LET closed == {S \in SUBSET blocks : b \in S /\ \A d \in S : ParentIn(blocks, d) \subseteq S}
    IN {c \in blocks : \A S \in closed : c \in S}

Paths == [s \in Scenes |-> [b \in BlocksOf(s) |-> Walk(BlocksOf(s), b)]]

Blocks == BlocksOf(scene)
Known(slot, hash) == {b \in Blocks : b.slot = slot /\ b.hash = hash}
Path(slot, hash) == UNION {Paths[scene][b] : b \in Known(slot, hash)}

\* from_update: zero lamports, or an owner outside the program filter, closes
\* the account; otherwise the write is the version of this block.
Entry(b, k) == IF b.writes[k] \in {"zero", "filtered"} THEN Gone ELSE b.slot * 2 + b.hash
Writes(b) == {k \in Keys : b.writes[k] # "-"}

\* The version of k that the newest of some blocks wrote, else the given one.
Newest(blocks, k, else) ==
    LET writers == {b \in blocks : k \in Writes(b)}
    IN IF writers = {} THEN else
       ELSE Entry(CHOOSE b \in writers : \A c \in writers : c.slot <= b.slot, k)

\* What the chain holds of k after a block; 0 is the snapshot's version.
StateAt(slot, hash, k) == Newest(Path(slot, hash), k, 0)

\* The row Postgres returns at a slot bound: exact from the cleaned slot on.
PgRead(k, bound) ==
    IF bound < cleaned THEN CleanedUp
    ELSE LET at == Max({0} \cup {b.slot : b \in {c \in Blocks : c.hash = 0 /\ c.slot <= bound
                                                  /\ c.canonical}})
         IN StateAt(at, 0, k)

(***************************************************************************)
(* BlockStore.                                                             *)
(***************************************************************************)
HasSlot(st, slot) == \E b \in st.blocks : b.slot = slot
BlockAt(st, slot) == CHOOSE b \in st.blocks : b.slot = slot
Confirmed(st, slot) == st.anchor # NoAnchor /\ slot <= st.anchor.slot

\* The stored blocks on a block's chain, itself included.
ChainOf(st, b) == Walk(st.blocks, b)

\* conflict: the block and its descendants go, and nothing is served until
\* the confirmed slot passes it.
Conflict(st, slot) ==
    [st EXCEPT !.blocks = {b \in @ : ~\E c \in ChainOf(st, b) : c.slot = slot},
               !.conflict = Max({@, slot})]

\* BlockStore::on_block.
StoreBlock(st, b) ==
    IF HasSlot(st, b.slot)
    THEN IF BlockAt(st, b.slot).hash # b.hash /\ ~Confirmed(st, b.slot)
         THEN Conflict(st, b.slot) ELSE st
    ELSE IF HasSlot(st, b.parent) /\ BlockAt(st, b.parent).hash # b.phash
    THEN IF Confirmed(st, b.parent) THEN st ELSE Conflict(st, b.parent)
    ELSE [st EXCEPT !.blocks = @ \cup {b}]

\* BlockStore::set_anchor.
SetAnchor(st, anchor) ==
    [st EXCEPT !.anchor = anchor,
               !.conflict = IF anchor.slot > @ THEN 0 ELSE @]

\* prune: the window below the confirmed slot, the cap above it.
Prune(st) ==
    LET kept == {b \in st.blocks : b.slot + Retain >= st.anchor.slot}
        above == {b \in kept : b.slot > st.anchor.slot \/ st.anchor = NoAnchor}
        over == {b \in above :
                    Cardinality({c \in above : c.slot >= b.slot}) > Cap}
    IN [st EXCEPT !.blocks = kept \ over]

\* Mutant: the walk ends at the confirmed slot, whatever the hash.
LinksToSlot(b, anchor) == b.parent = anchor.slot

\* The end of the walk: the parent is the confirmed block.
LinksTo(b, anchor) == b.parent = anchor.slot /\ b.phash = anchor.hash

\* latest_chained_blocks: the highest block, when its walk reaches the
\* confirmed slot and hash.
LatestChained(st) ==
    LET head == CHOOSE b \in st.blocks : \A c \in st.blocks : c.slot <= b.slot
        a == st.anchor.slot
        chain == ChainOf(st, head)
        last == CHOOSE b \in chain : b.slot > a
                                     /\ \A c \in chain : c.slot > a => b.slot <= c.slot
    IN IF /\ st.anchor # NoAnchor
          /\ ~(st.conflict # 0 /\ a <= st.conflict)
          /\ st.blocks # {}
          /\ head.time
          /\ head.slot >= a
          /\ IF head.slot = a THEN head.hash = st.anchor.hash
             ELSE LinksTo(last, st.anchor)
       THEN [slot |-> head.slot, hash |-> head.hash, anchor |-> a,
             blocks |-> chain]
       ELSE None

\* Mutant: the blocks are published before the change is stored.
PublishesEarly(st) == store' = Prune(st) /\ latest' = LatestChained(store)

\* publish_latest, after every block or anchor.
Publishes(st) ==
    /\ store' = Prune(st)
    /\ latest' = LatestChained(Prune(st))

(***************************************************************************)
(* The feed's consumer (grpc_feed.rs).                                     *)
(***************************************************************************)
OnBlock ==
    /\ chan # <<>>
    /\ chan' = Tail(chan)
    /\ lastSlot' = Max({lastSlot, Head(chan).slot})
    /\ Publishes(StoreBlock(store, Head(chan)))
    /\ UNCHANGED <<scene, grpc, published, faults, slots, watch, cleaned, req>>

OnAnchor ==
    /\ watch # NoAnchor
    /\ watch' = NoAnchor
    /\ Publishes(SetAnchor(store, watch))
    /\ UNCHANGED <<scene, feedVars, slots, cleaned, req>>

(***************************************************************************)
(* The slot synchronizer: a row of the slots table is applied to the data, *)
(* then a confirmed advance is sent to the feed.                           *)
(***************************************************************************)
ConfirmedRow ==
    /\ ~slots.sending
    /\ \E b \in Blocks :
          /\ b.canonical /\ b.slot > slots.confirmed
          /\ \E i \in 1..published : scene.feed[i] = b
          /\ \A c \in Blocks : c.canonical /\ c.slot > slots.confirmed => b.slot <= c.slot
          /\ \E healthy \in scene.health :
                slots' = [slots EXCEPT !.confirmed = b.slot, !.healthy = healthy,
                                       !.sending = TRUE]
    /\ UNCHANGED <<scene, feedVars, store, latest, watch, cleaned, req>>

SendAnchor ==
    /\ slots.sending
    /\ slots' = [slots EXCEPT !.sending = FALSE]
    /\ watch' = [slot |-> slots.confirmed, hash |-> 0]
    /\ UNCHANGED <<scene, feedVars, store, latest, cleaned, req>>

FinalizedRow ==
    /\ slots.finalized < slots.confirmed
    /\ slots' = [slots EXCEPT !.finalized = @ + 1]
    /\ UNCHANGED <<scene, feedVars, store, latest, watch, cleaned, req>>

\* The indexer's cleanup drops the versions below a finalized slot.  While a
\* request is under way only in the scenes with the hazard "cleanup".
CleanUp ==
    /\ cleaned < slots.finalized
    /\ (req.pc # "idle" => "cleanup" \in scene.hazards)
    /\ cleaned' = cleaned + 1
    /\ UNCHANGED <<scene, feedVars, store, latest, slots, watch, req>>

(***************************************************************************)
(* A request at processed commitment (read, read_accounts, resolve_mints). *)
(***************************************************************************)
\* The blocks first, so the cached slots are at least as new.
TakeBlocks ==
    /\ req.pc = "idle" /\ latest # None
    /\ req' = [req EXCEPT !.pc = "slots", !.blocks = latest]
    /\ UNCHANGED <<scene, feedVars, store, latest, slots, watch, cleaned>>

\* Mutant: blocks whose anchor is below the finalized slot are read through.
FallbackIgnoresFinalized(blocks) == ~slots.healthy \/ blocks.slot < slots.confirmed

\* fallback_reason.
Fallback(blocks) ==
    \/ ~slots.healthy
    \/ blocks.slot < slots.confirmed
    \/ slots.finalized > blocks.anchor

CheckSlots ==
    /\ req.pc = "slots"
    /\ req' = IF Fallback(req.blocks) THEN [req EXCEPT !.pc = "idle", !.blocks = None]
              ELSE [req EXCEPT !.pc = "keys"]
    /\ UNCHANGED <<scene, feedVars, store, latest, slots, watch, cleaned>>

\* get_account, then the method's SQL at the anchor for the unknown keys; the
\* SQL of a jsonParsed read joins the mint at the same bound.
ReadKeys ==
    /\ req.pc = "keys"
    /\ LET sql(k) == PgRead(k, req.blocks.anchor)
           inBlocks(k) == \E b \in req.blocks.blocks : k \in Writes(b)
       IN req' = [req EXCEPT !.pc = "mint",
              !.account = Newest(req.blocks.blocks, "t", sql("t")),
              !.mint = IF inBlocks("t") /\ ~inBlocks("m") THEN Unread
                       ELSE Newest(req.blocks.blocks, "m", sql("m"))]
    /\ UNCHANGED <<scene, feedVars, store, latest, slots, watch, cleaned>>

\* The mint of an account from the blocks that is not in them itself takes a
\* query of its own.
ReadMint ==
    /\ req.pc = "mint"
    /\ req' = [req EXCEPT !.pc = "done",
                          !.mint = IF @ = Unread THEN PgRead("m", req.blocks.anchor) ELSE @]
    /\ UNCHANGED <<scene, feedVars, store, latest, slots, watch, cleaned>>

Respond ==
    /\ req.pc = "done"
    /\ req' = [pc |-> "idle", blocks |-> None, account |-> 0, mint |-> 0]
    /\ UNCHANGED <<scene, feedVars, store, latest, slots, watch, cleaned>>

-----------------------------------------------------------------------------
Init ==
    /\ scene \in Scenes
    /\ FeedInit
    /\ store = [blocks |-> {}, conflict |-> 0, anchor |-> NoAnchor]
    /\ latest = None
    /\ slots = [confirmed |-> 0, finalized |-> 0, healthy |-> FALSE,
                sending |-> FALSE]
    /\ watch = NoAnchor
    /\ cleaned = 0
    /\ req = [pc |-> "idle", blocks |-> None, account |-> 0, mint |-> 0]

Request == TakeBlocks \/ CheckSlots \/ ReadKeys \/ ReadMint \/ Respond

Next ==
    \/ FeedNext /\ UNCHANGED <<scene, store, latest, slots, watch, cleaned, req>>
    \/ OnBlock \/ OnAnchor
    \/ ConfirmedRow \/ SendAnchor \/ FinalizedRow \/ CleanUp
    \/ Request

Spec == Init /\ [][Next]_vars

-----------------------------------------------------------------------------
\* A processed response is one state of the chain: the account and the mint
\* of the answer are those of the block whose slot the context names, along
\* that block's own branch.  Reconnects that repeat or skip blocks, forks, a
\* second block of a slot, a capped store, the anchor and the cached slots
\* moving between the steps of the request may cost the fast path, never the
\* consistency of the answer.
ProcessedExact ==
    req.pc = "done" =>
        /\ req.account = StateAt(req.blocks.slot, req.blocks.hash, "t")
        /\ req.account # Gone =>
              req.mint = StateAt(req.blocks.slot, req.blocks.hash, "m")

\* BlockStore keeps one block per slot, and what it publishes is one chain:
\* each block of it is the parent of the next (latest_chained_blocks), and it
\* passes through the confirmed block.
PublishedIsAChain ==
    latest # None =>
        /\ latest.blocks \subseteq Path(latest.slot, latest.hash)
        /\ \A b \in Path(latest.slot, latest.hash) :
              b.slot > latest.anchor => b \in latest.blocks
        /\ \E b \in Path(latest.slot, latest.hash) : b.slot = latest.anchor /\ b.canonical

\* The fast path is lost only for a reason: when the head's whole branch above
\* the confirmed slot is in the store and no conflict is open, blocks are
\* published.  A gap, a fork or an evicted block disables the path until the
\* confirmed slot passes it, never for longer.
ServesWhenLinked ==
    \A head \in store.blocks :
        /\ store.anchor # NoAnchor /\ store.conflict = 0 /\ head.time
        /\ \A b \in store.blocks : b.slot <= head.slot
        /\ \E b \in Path(head.slot, head.hash) :
               b.slot = store.anchor.slot /\ b.hash = store.anchor.hash
        /\ \A b \in Path(head.slot, head.hash) :
               b.slot > store.anchor.slot => b \in store.blocks
        => latest # None
=============================================================================
