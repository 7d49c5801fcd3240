----------------------------- MODULE MintStore -----------------------------
(***************************************************************************)
(* The mint maps that the indexer and the API share (store.rs), the mint   *)
(* data of an account (utils/token.rs) and the row of the mints table      *)
(* (db.rs).  A key is in at most one of the maps immutable, mutable and    *)
(* tombstones, so the store is one function from keys to entries.          *)
(***************************************************************************)
EXTENDS Naturals, FiniteSetsExt

\* The extensions that keep a mint mutable: MintCloseAuthority, and the two
\* configs, whose contents are part of the mint's data d.
Ext == {"close", "config"}

NoState == [d |-> 0, imm |-> FALSE]
Closed == [kind |-> "closed", state |-> NoState]

\* MintState::from_mint and classify: what jsonParsed reads of a mint, and
\* whether it can ever change.
MintState(write) == [d |-> write.d, imm |-> write.ext = {} /\ write.token]

\* MintChange::parse: a zero-lamport write may close a mint, a token account
\* that unpacks as a mint is one, anything else is no change.
Parse(write) ==
    IF write.lamports = 0 THEN {Closed}
    ELSE IF write.token THEN {[kind |-> "live", state |-> MintState(write)]}
    ELSE {}

Missing == [kind |-> "missing", slot |-> 0, state |-> NoState]
Tombstone(slot) == [kind |-> "tombstone", slot |-> slot, state |-> NoState]

\* apply_live: an immutable mint keeps only its decimals and never changes.
ApplyLive(entry, slot, state) ==
    IF \/ entry.kind = "immutable"
       \/ entry.kind = "tombstone" /\ entry.slot > slot
       \/ entry.kind = "mutable" /\ (entry.slot > slot \/ entry.state = state)
    THEN entry
    ELSE [kind |-> IF state.imm THEN "immutable" ELSE "mutable",
          slot |-> IF state.imm THEN 0 ELSE slot, state |-> state]

\* close: a block's close of a key that is not held is ignored (knownOnly).
Close(entry, slot, knownOnly) ==
    IF \/ entry.kind \in {"immutable", "tombstone"}
       \/ entry.kind = "mutable" /\ entry.slot > slot
       \/ entry.kind = "missing" /\ knownOnly
    THEN entry ELSE Tombstone(slot)

\* apply: one write of a block.  It returns no kind exactly when the entry
\* stays as it is.
Apply(entry, slot, change) ==
    IF change.kind = "live" THEN ApplyLive(entry, slot, change.state)
                            ELSE Close(entry, slot, TRUE)

NoRow == [slot |-> 0, live |-> FALSE, state |-> NoState]

\* row: an immutable entry has no slot and takes that of its last change.
RowOf(entry, slot) ==
    [slot |-> IF entry.kind = "immutable" THEN slot ELSE entry.slot,
     live |-> entry.kind # "tombstone", state |-> entry.state]

\* apply_row: a tombstone row is stored even for a key never seen.
ApplyRow(entry, row) ==
    IF row = NoRow THEN entry
    ELSE IF row.live THEN ApplyLive(entry, row.slot, row.state)
    ELSE Close(entry, row.slot, FALSE)

\* upsert_rows: a row never overwrites a newer one.
Upsert(old, row) == IF old = NoRow \/ old.slot <= row.slot THEN row ELSE old
=============================================================================
