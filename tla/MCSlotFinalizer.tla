-------------------------- MODULE MCSlotFinalizer --------------------------
(* Small instance of SlotFinalizer: live blocks of one chain, one block     *)
(* whose parent hash disagrees with the recorded parent (a fork), and a     *)
(* snapshot-repaired block.                                                 *)
EXTENDS SlotFinalizer

CONSTANTS h, g

MCHash == {NoHash, h, g}

Live(p, q) == [hash |-> h, parent |-> p, phash |-> q]

MCFeed == { <<1, Live(0, h)>>, <<2, Live(1, h)>>, <<2, RepairedEntry>>,
            <<3, Live(2, h)>>, <<3, Live(2, g)>> }

=============================================================================
