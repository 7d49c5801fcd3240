---------------------------- MODULE MCApiServing ----------------------------
(***************************************************************************)
(* Instances of ApiServing: two or three keys, one with a mutable mint,    *)
(* chains of up to three slots, two clients.                               *)
(***************************************************************************)
EXTENDS ApiServing, TLC

Symmetry == Permutations(Clients)

\* Every slot writes at most one key.
Writes(keys, values) ==
  {[k \in Keys |-> IF k \in DOMAIN w THEN w[k] ELSE "none"] : w \in
     UNION {[one -> values] : one \in {{}} \cup {{k} : k \in keys}}}

Constant(v) == [s \in Slots |-> v]

Two == {1, 2}

ChainsOf(keys, values, mints) ==
  {[write |-> <<[k \in Keys |-> "in"]>> \o w, mint |-> m, features |-> Constant(1)] :
     w \in [1..(MaxSlot - 1) -> Writes(keys, values)], m \in mints}

Chains(values, mints) == ChainsOf(Two, values, mints)

Scene(queries, chains) ==
  [queries |-> queries, chains |-> chains, sync |-> TRUE, raced |-> FALSE,
   batched |-> FALSE, batchSize |-> 1, finality |-> FALSE, faults |-> FALSE, deadline |-> FALSE]

NoMint == {Constant(0)}
All(json, level) == GetProgramAccounts(Two, "none", json, level)

\* Closed, re-created and rewritten accounts, one program query.
Whole == Scene({All(FALSE, "confirmed")},
               {c \in Chains({"in", "closed"}, NoMint) : \E k \in Keys : c.write[2][k] # "none"})

\* jsonParsed: the mint of key 2 changes or appears, an account stops parsing.
Parsed == [Scene({All(TRUE, "confirmed")}, Chains({"in", "bad"}, {<<1, 1, 2>>, <<0, 1, 1>>}))
             EXCEPT !.batchSize = 0]

\* More entries than the cache holds, served at several slots and commitments.
Crowded == [Scene({GetProgramAccounts(Keys, "none", FALSE, "processed"), GetProgramAccounts(Keys, "data", FALSE, "finalized")},
                  {[write |-> [s \in Slots |-> [k \in Keys |-> IF s = k THEN "in" ELSE "none"]],
                    mint |-> Constant(0), features |-> Constant(1)]})
              EXCEPT !.finality = TRUE, !.batchSize = 0]

\* Key 2 is closed at slot 2 and created again at slot 3.
Recreated == {[write |-> [s \in Slots |-> [k \in Keys |-> IF s = 2 /\ k = 2 THEN "closed" ELSE "in"]],
               mint |-> Constant(1), features |-> Constant(1)]}

\* Refusals, errors at every stage, an unhealthy node, no polled copy.
Faulty == [Scene({GetAccountInfo(1, TRUE, "confirmed"), GetBalance(2, "finalized"),
                  [All(FALSE, "confirmed") EXCEPT !.minSlot = 2],
                  [All(FALSE, "confirmed") EXCEPT !.selected = FALSE]}, Recreated)
             EXCEPT !.faults = TRUE, !.sync = FALSE, !.deadline = TRUE, !.finality = TRUE]

\* The methods that read accounts by key, and those that read none.
Pointed == [Scene({GetAccountInfo(2, FALSE, "confirmed"), GetMultipleAccounts({1}, TRUE, "none"), GetMultipleAccounts({1, 2}, TRUE, "none"),
                   [GetMultipleAccounts({2}, FALSE, "processed") EXCEPT !.selected = FALSE],
                   GetMultipleAccounts({}, FALSE, "confirmed"),
                   [GetAccountInfo(1, FALSE, "none") EXCEPT !.selected = FALSE],
                   [GetBalance(2, "confirmed") EXCEPT !.selected = FALSE],
                   GetTokenAccountBalance(2, "confirmed"), GetTokenSupply(1, "confirmed"),
                   GetSlot("finalized"), GetHealth},
                  {[write |-> [s \in Slots |-> [k \in Keys |->
                                  CASE s = 1 -> "in" [] s = 2 /\ k = 2 -> "closed"
                                    [] s = 3 /\ k = 1 -> "bad" [] s = 3 -> "in" [] OTHER -> "none"]],
                    mint |-> <<1, 2, 0>>, features |-> Constant(1)]})
              EXCEPT !.finality = TRUE]

\* Reads by mint, owner and delegate, the mint first; the mint is created at some slot.
ByMint == [Scene({GetTokenAccountsByOwner(OfMutable, TRUE, TRUE, "confirmed"),
                  GetTokenAccountsByDelegate(OfMutable, TRUE, FALSE, "confirmed"),
                  GetTokenAccountsByMint(OfMutable, TRUE, "confirmed")},
                 {[write |-> Constant([k \in Keys |-> "in"]), mint |-> <<0, 1, 1>>,
                   features |-> Constant(1)]})
             EXCEPT !.batchSize = 0]

\* Simulations at the finalized slot, while the feature set stays the same.
Simulated == [Scene({SimulateTransaction(Two, "finalized")}, Recreated)
                EXCEPT !.finality = TRUE, !.faults = TRUE]

\* The entries of a JSON-RPC batch, valueCmp applied to streamed rows.
Batched == [Scene({GetProgramAccounts(Two, "valueCmp", FALSE, "confirmed"), All(FALSE, "confirmed")},
                  Chains({"out"}, NoMint))
              EXCEPT !.batched = TRUE]

\* A newer entry is installed between the choice of the slot and the lookup; accounts only
\* close.  The entry that lacks a row may hold one account or two, which pins it.
Overtaken == [Scene({GetProgramAccounts(Keys, "none", FALSE, "confirmed")}, ChainsOf({2, 3}, {"closed"}, NoMint))
                EXCEPT !.raced = TRUE]

MCScenes == {Whole, Parsed, Crowded, Faulty, Pointed, ByMint, Simulated, Batched, Overtaken}

\* The same race with rewritten accounts.
RacedScenes == {[Scene({All(FALSE, "confirmed")}, Chains({"in"}, NoMint)) EXCEPT !.raced = TRUE]}
OvertakenScenes == {Overtaken}

\* A query with a data filter, accounts that leave the filter or close.
FilteredScenes == {Scene({GetProgramAccounts(Two, "data", FALSE, "confirmed")}, Chains({"closed"}, NoMint))}

\* A {mint} filter whose mint changes between its read and that of the accounts.
MintFirstScenes ==
  {Scene({GetTokenAccountsByOwner(OfMutable, TRUE, TRUE, "confirmed")}, Chains({"in"}, {<<1, 2, 2>>}))}

\* A feature is activated while the old feature set is cached; a simulation at the
\* confirmed slot before its blockhash is stored.
FeatureScenes ==
  {[Scene({SimulateTransaction(Two, "finalized")},
          {[c EXCEPT !.features = <<1, 2, 2>>] : c \in Recreated}) EXCEPT !.finality = TRUE]}
TipScenes == {Scene({SimulateTransaction(Two, "confirmed")}, Recreated)}

\* valueCmp leaves the first batch empty, and the body is streamed.
StreamedScenes == {Scene({GetProgramAccounts(Two, "valueCmp", FALSE, "confirmed")}, Chains({"out"}, NoMint))}

\* The request deadline passes while the body is sent.
DeadlineScenes == {[Scene({All(FALSE, "confirmed")}, Chains({"in"}, NoMint)) EXCEPT !.deadline = TRUE]}
=============================================================================
