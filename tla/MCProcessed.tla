---------------------------- MODULE MCProcessed ----------------------------
(***************************************************************************)
(* Small block trees in the order the node publishes them.                 *)
(***************************************************************************)
EXTENDS Processed, TLC

B(slot, hash, parent, phash, t, m) ==
    [slot |-> slot, hash |-> hash, parent |-> parent, phash |-> phash,
     writes |-> ("t" :> t) @@ ("m" :> m), time |-> TRUE, canonical |-> hash = 0]

\* One chain; a skipped branch that is the highest for a while; a slot with
\* two blocks; a block that names the other parent; a branch of two blocks
\* beside the confirmed one.
Line == <<B(1, 0, 0, 0, "put", "-"), B(2, 0, 1, 0, "-", "put"),
          B(3, 0, 2, 0, "zero", "-"), B(4, 0, 3, 0, "-", "-")>>
Branch == <<B(1, 0, 0, 0, "-", "put"), B(2, 1, 0, 0, "put", "zero"),
            [B(3, 0, 1, 0, "-", "-") EXCEPT !.time = FALSE], B(4, 0, 3, 0, "put", "-")>>
Second == <<B(1, 0, 0, 0, "put", "put"), B(2, 1, 1, 0, "zero", "-"),
            B(2, 0, 1, 0, "-", "put"), B(3, 0, 2, 0, "-", "-"),
            B(4, 0, 3, 0, "filtered", "-")>>
Other == <<B(1, 0, 0, 0, "-", "-"), B(2, 1, 1, 0, "put", "put"),
           B(3, 0, 2, 0, "-", "-"), B(2, 0, 1, 0, "zero", "-"),
           B(4, 0, 3, 0, "-", "put")>>

Orphan == <<B(1, 0, 0, 0, "-", "-"), B(2, 1, 1, 0, "put", "-"),
            B(3, 1, 2, 1, "-", "put"), B(2, 0, 1, 0, "zero", "-")>>

Scene(feed, replay, n, health, hazards) ==
    [feed |-> feed, replay |-> replay, faults |-> n, health |-> health,
     hazards |-> hazards]

\* Reconnects that skip or repeat blocks; the forks under a steady stream,
\* with and without the health of the node.
MCScenes ==
    {Scene(Line, 1, 1, {TRUE}, {}),
     Scene(Branch, 4, 0, {TRUE, FALSE}, {}),
     Scene(Second, 4, 0, {TRUE}, {}), Scene(Other, 4, 0, {TRUE}, {}),
     Scene(Orphan, 4, 0, {TRUE}, {})}

\* The versions of the anchor are cleaned up while a request reads them.
CleanupScenes == {Scene(SubSeq(Line, 1, 3), 3, 0, {TRUE}, {"cleanup"})}
\* Streams that end before they delivered a block.
WindowScenes == {Scene(SubSeq(Line, 1, 2), 1, 2, {TRUE}, {})}
=============================================================================
