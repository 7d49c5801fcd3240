--------------------------- MODULE MCAccountStore ---------------------------
(***************************************************************************)
(* Instances of AccountStore: one key, up to four slots.                   *)
(***************************************************************************)
EXTENDS AccountStore

\* The owner map routes deletes; the account moves between two indexed programs,
\* to one that is not indexed, and closes.
WithMap == [map |-> TRUE, lossy |-> FALSE, maskFails |-> FALSE, rowsFail |-> FALSE,
            deleteFails |-> TRUE, interval |-> 1, slots |-> 3, updates |-> {"none", "P", "Q", "other", "closed"}]

\* Lost and repaired blocks, windows of two slots, no owner map; then with masks,
\* rows and deletes that fail.
WithGaps == [map |-> FALSE, lossy |-> TRUE, maskFails |-> FALSE, rowsFail |-> FALSE,
             deleteFails |-> FALSE, interval |-> 2, slots |-> 4, updates |-> {"none", "P", "closed"}]
WithFaults == [WithGaps EXCEPT !.slots = 3, !.maskFails = TRUE, !.rowsFail = TRUE,
                               !.deleteFails = TRUE]

\* The statements of the drainer succeed.
Reliable == [map |-> TRUE, lossy |-> FALSE, maskFails |-> FALSE, rowsFail |-> FALSE,
             deleteFails |-> FALSE, interval |-> 1, slots |-> 3, updates |-> {"none", "P", "closed"}]

MCModes == {WithMap, WithGaps, WithFaults, Reliable}

\* The deviations the README records, one mode each: a lost close with the owner
\* map (RepairedCloses), a move between programs (AccountReads) and a close
\* (ApiReads).
RepairedModes == {[Reliable EXCEPT !.lossy = TRUE]}
MoveModes == {[Reliable EXCEPT !.updates = {"none", "P", "Q", "other", "closed"}]}
CloseModes == {Reliable}
=============================================================================
