------------------------------ MODULE MCSupply ------------------------------
(***************************************************************************)
(* Instances of Supply: one account each, an anchor at slot 2 or 3 and up  *)
(* to five slots.                                                          *)
(***************************************************************************)
EXTENDS Supply

Scene(key, first, anchor, last, losable, versions, hazards) ==
  [keys |-> {key}, first |-> first, anchor |-> anchor, last |-> last, losable |-> losable,
   versions |-> versions, hazards |-> hazards]

Plain == {System(1), System(3), Closed}
Locked == {System(1), Stake(2, 2, 5), Closed}
Delegated == {Stake(1, 0, 0), Stake(2, 2, 4), Stake(2, 2, 5)}

\* Lost and repaired blocks, of which one may come late, or one and repeats; failed row writes
\* and reads; a stake account with both locks, written around the flip; a pinned account;
\* a stake account that gets and loses its locks in a lost block and around it.
MCScenes == {Scene("a", 2, 2, 5, {3, 4}, {System(1), Closed}, {}),
             Scene("a", 2, 2, 4, {3}, Plain, {"repeat"}),
             Scene("a", 2, 2, 4, {}, Plain, {"live", "read", "straddle"}),
             Scene("a", 2, 3, 5, {}, Locked, {}),
             Scene("p", 2, 2, 4, {}, Locked \cup {Listed(1)}, {}),
             Scene("a", 2, 2, 4, {3}, Delegated, {"repeat"})}
\* Deviations (README): the owner changes in a block whose save straddles the
\* flips (V1); a startup write fails after the flip (V2); a lost block of an
\* account that became a stake account or stopped being one (V3, V4).
V1 == {Scene("a", 3, 3, 4, {}, Locked, {"straddle"})}
V2 == {Scene("a", 2, 2, 4, {}, Plain, {"startup", "straddle"})}
V3 == {Scene("a", 2, 2, 4, {3}, Locked, {})}
V4 == {Scene("a", 2, 2, 5, {3}, Locked, {})}
\* The late block of a gap, while another one is repaired.
V5 == {Scene("a", 2, 2, 5, {3, 4}, Plain, {"late"})}
=============================================================================
