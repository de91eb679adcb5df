------------------------------- MODULE MCNode -------------------------------
(* Two branches from genesis, and a block nobody should accept:               *)
(*                                                                            *)
(*      0 --- 1 --- 2                                                         *)
(*      `---- 3 --- 4 --- 5 (dated one tick ahead)                            *)
(*            `---- 6 (never valid: a wrong state root, or a wrong header)    *)
(*                                                                            *)
(* Block 1 has more work than 3, 2 and 4 tie, and 5 beats everything.         *)
EXTENDS Node, Functions

MCBlocks == 0..6
MCParent == <<0, 1, 0, 3, 4, 3>>
MCHeight == [b \in MCBlocks |-> <<0, 1, 2, 1, 2, 3, 2>>[b + 1]]
MCWork == [b \in MCBlocks |-> <<0, 2, 4, 1, 4, 5, 6>>[b + 1]]
MCAncestors ==
  [b \in MCBlocks |->
     <<{0}, {0, 1}, {0, 1, 2}, {0, 3}, {0, 3, 4}, {0, 3, 4, 5}, {0, 3, 6}>>[b + 1]]
MCNotBefore == [b \in MCBlocks |-> IF b = 5 THEN 1 ELSE 0]

\* The two usual ways of breaking a tie in work.
FirstSeen == {bc \in MCBlocks \X MCBlocks : MCWork[bc[1]] > MCWork[bc[2]]}
LowestHash == {bc \in MCBlocks \X MCBlocks :
                 \/ MCWork[bc[1]] > MCWork[bc[2]]
                 \/ MCWork[bc[1]] = MCWork[bc[2]] /\ bc[1] < bc[2]}

\* Without block 5, for the run in which a write fails.
SmallBlocks == MCBlocks \ {5}
SmallParent == Restrict(MCParent, SmallBlocks \ {0})
SmallHeight == Restrict(MCHeight, SmallBlocks)
SmallAncestors == Restrict(MCAncestors, SmallBlocks)
SmallNotBefore == Restrict(MCNotBefore, SmallBlocks)
SmallBetter == LowestHash \cap (SmallBlocks \X SmallBlocks)
=============================================================================
