---------------------------- MODULE MCMintCache ----------------------------
(***************************************************************************)
(* Histories of one mint and the configurations they run under.  The       *)
(* entries of different keys never meet in the store; only the written     *)
(* slot is shared, and one key exposes it.                                 *)
(***************************************************************************)
EXTENDS MintCache

Live(d) == [lamports |-> 1, token |-> TRUE, d |-> d, ext |-> {"config"}]
Fixed(d) == [lamports |-> 1, token |-> TRUE, d |-> d, ext |-> {}]
Gone == [lamports |-> 0, token |-> TRUE, d |-> 0, ext |-> {"close"}]

Chain(history) ==
    [s \in Slots |-> [k \in Keys |-> history[s]]]

\* Open on the chain from the snapshot on; changed in the incremental range
\* and later; closed; closed and created again; created as immutable.
Changed == <<Live(1), NoWrite, Live(2), Live(3), NoWrite>>
ClosedLate == <<Live(1), Live(2), NoWrite, Gone, NoWrite>>
ClosedEarly == <<Live(1), Gone, NoWrite, Live(2), NoWrite>>
Reopened == <<Live(1), NoWrite, Gone, Live(2), NoWrite>>
Created == <<NoWrite, Fixed(1), Fixed(1), NoWrite, NoWrite>>
Histories == {Changed, ClosedLate, ClosedEarly, Reopened, Created}

Scene(histories, first, chunk, interval, skipped, lost, late, missed, forks, fails, n) ==
    {[chain |-> Chain(h), first |-> first, chunk |-> chunk,
      interval |-> interval, skipped |-> skipped, lost |-> lost, late |-> late,
      missed |-> missed, forks |-> forks, fails |-> fails, faults |-> n] :
        h \in histories}

\* Blocks overlap the snapshot; the feed misses a block and queries fail; a
\* block is lost and repaired, or comes late, next to a fork's block.
MCScenes ==
    Scene({ClosedEarly, Created}, 2, 1, 1, {5}, {}, {}, {}, {}, {}, 0)
    \cup Scene({Reopened}, 3, 2, 1, {5}, {}, {}, {4}, {}, {"chunk"}, 1)
    \cup Scene({Changed, ClosedLate}, 3, 2, 2, {}, {4}, {}, {}, {4}, {}, 0)
    \cup Scene({Changed}, 3, 2, 1, {}, {4}, {4}, {}, {}, {}, 0)

\* A background write starts between the two locks of finish_bootstrap.
RaceScenes == Scene({ClosedEarly}, 2, 1, 1, {5}, {}, {}, {}, {}, {"race"}, 0)
\* A mint closed and created again as immutable.
FixedScenes == Scene({<<Live(1), NoWrite, Gone, Fixed(2), NoWrite>>},
                     3, 2, 1, {5}, {}, {}, {}, {}, {}, 0)
\* A state that returns: the second A does not move the slot of the first.
RecurScenes == Scene({<<Live(1), Live(2), Live(3), Live(2), NoWrite>>},
                     2, 2, 1, {}, {3}, {3}, {}, {}, {}, 0)
\* A late block is off the list before its mints are applied, while the
\* other slot of the gap is repaired.
LateScenes == Scene({<<Live(1), NoWrite, Live(2), NoWrite, NoWrite>>},
                     2, 2, 1, {}, {3, 4}, {3}, {}, {}, {}, 0)
=============================================================================
