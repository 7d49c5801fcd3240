------------------------- MODULE MCLargestAccounts -------------------------
EXTENDS LargestAccounts

Account(lamports, mint, amount, locked) ==
  [lamports |-> lamports, mint |-> mint, amount |-> amount, locked |-> locked]

Lamports(l) == Account(l, "none", 0, FALSE)
Locked(l) == Account(l, "none", 0, TRUE)
Tokens1(m, n) == Account(1, m, n, FALSE)

Sol == {Lamports(l) : l \in 0..2}
Class == {Closed, Lamports(1), Locked(1), Locked(2)}
Token == {Closed, Tokens1("m", 1), Tokens1("m", 2), Tokens1("n", 1)}

Scene(start, versions, pinned, boot, last, losable, width, quiet, hazards) ==
  [start |-> start, keys |-> DOMAIN start, versions |-> versions, pinned |-> pinned,
   first |-> 2, anchor |-> 2, boot |-> boot, last |-> last, losable |-> losable,
   width |-> width, quiet |-> quiet, hazards |-> hazards]

\* Evictions and a repaired block; several writes in a block and failed writes;
\* class changes with a pinned account, a repaired block and lockups that end
\* meanwhile; class changes during startup; mints, with a repaired block and with
\* writes during startup.  In the second and the last scene the incremental
\* snapshot has writes.
MCScenes ==
  {Scene(<<Lamports(2), Lamports(1), Closed>>, Sol, {}, 3, 5, {4}, 1, {2}, {}),
   Scene(<<Lamports(2), Lamports(1)>>, Sol, {}, 3, 4, {}, 2, {}, {"write"}),
   Scene(<<Lamports(1), Lamports(1)>>, Class, {2}, 3, 5, {4}, 1, {2}, {}),
   Scene(<<Locked(2), Lamports(1), Closed>>, Class, {}, 4, 4, {}, 1, {2}, {"write"}),
   Scene(<<Tokens1("m", 2), Tokens1("n", 1)>>, Token, {}, 3, 5, {4}, 1, {2}, {}),
   Scene(<<Tokens1("m", 2), Tokens1("n", 1)>>, Token, {}, 4, 4, {}, 1, {}, {})}

\* Deviations (README): a full reservoir shrinks without raising its floor (V1);
\* the save of a block straddles the flip of the stake map (V2); two outcomes
\* for a mint are persisted in the other order (V3); a lockup ends before the
\* repair of a write of its account (V4); an account changes its mint in one
\* block during startup (V5); the snapshot lacks a close of the gap (V6).
V1 == {Scene(<<Lamports(3), Lamports(2), Lamports(1)>>, {Closed}, {}, 4, 4, {}, 1, {}, {})}
V2 == {Scene(<<Locked(2), Lamports(1), Closed>>, Class, {}, 4, 4, {}, 1, {}, {"straddle"})}
V3 == {Scene(<<Lamports(2), Lamports(1), Closed>>, Sol, {}, 3, 5, {4}, 1, {}, {"overtake"})}
V4 == {Scene(<<Locked(2), Lamports(1)>>, Class, {}, 3, 5, {4}, 1, {2}, {"expiry"})}
V5 == {Scene(<<Tokens1("m", 2), Tokens1("n", 1)>>, Token, {}, 3, 4, {}, 1, {2}, {"mint"})}
V6 == {Scene(<<Lamports(2), Lamports(1)>>, Sol, {}, 3, 5, {4}, 1, {2}, {"closes"})}
=============================================================================
