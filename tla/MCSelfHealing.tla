--------------------------- MODULE MCSelfHealing ---------------------------
(* Small instances of SelfHealing: slots are numbers, the hash of a block is *)
(* its slot and 0 is the empty hash.                                         *)
EXTENDS SelfHealing

MCHash == Slots \cup {0}
MCFeed == {<<s, RepairedEntry>> : s \in Slots} \cup {<<s, LiveEntry(s)>> : s \in Produced}

=============================================================================
