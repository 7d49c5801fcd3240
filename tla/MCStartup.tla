----------------------------- MODULE MCStartup -----------------------------
(***************************************************************************)
(* Instances of Startup: one key, three slots, of which the pair covers    *)
(* one to three.                                                           *)
(***************************************************************************)
EXTENDS Startup

\* With the owner map: the account moves between two indexed programs and closes,
\* or leaves the indexed programs.
Routed == [map |-> TRUE, lossy |-> FALSE, maskFails |-> FALSE, rowsFail |-> FALSE, deleteFails |-> FALSE,
           interval |-> 1, slots |-> 3, updates |-> {"none", "Q", "closed"},
           before |-> {"P"}, quiet |-> 0, load |-> TRUE, busy |-> TRUE,
           system |-> FALSE, leaves |-> FALSE, returns |-> FALSE, prompt |-> TRUE]

Leaving == [Routed EXCEPT !.updates = {"none", "P", "other"}]

\* A pair that holds several versions older than the stream.
Older == [Routed EXCEPT !.updates = {"none", "P", "other"}, !.quiet = 1]

\* Without it, the system program indexed, the one-shot may fail.
Scanned == [Routed EXCEPT !.map = FALSE, !.deleteFails = TRUE, !.system = TRUE, !.quiet = 1,
                          !.updates = {"none", "P", "closed"}, !.before = {"P"}]

\* No snapshot section.
Empty == [Routed EXCEPT !.load = FALSE, !.prompt = FALSE]

MCModes == {Routed, Leaving, Older, Scanned, Empty}

\* The deviations the README records: a close the load had not reached, finalized
\* after the load; an account that leaves the indexed programs before the load
\* reaches it; an account of two indexed programs before the stream, of which the
\* load reads the older version before a block is saved and the newer one after it.
PausedModes == {[Routed EXCEPT !.prompt = FALSE]}
LeavingModes == {[Leaving EXCEPT !.leaves = TRUE]}
ReturningModes == {[Routed EXCEPT !.updates = {"none", "P", "Q"}, !.before = {"Q"},
                                  !.quiet = 1, !.returns = TRUE]}
=============================================================================
