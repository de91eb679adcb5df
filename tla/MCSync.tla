------------------------------- MODULE MCSync -------------------------------
(* The node may find 1, 2 and 3; the peer's chain forks off at genesis:       *)
(*                                                                            *)
(*      0 --- 1 --- 2 --- 3                                                   *)
(*      `---- 4 --- 5 --- 6 --- 7 --- 8                                       *)
(*                                                                            *)
(* A higher block has more work.  The clock of the peer runs ahead: block 6   *)
(* is dated after this node's second poll.                                     *)
EXTENDS Sync

MCBlocks == 0..8
MCParent == <<0, 1, 2, 0, 4, 5, 6, 7>>
MCHeight == [b \in MCBlocks |-> IF b <= 3 THEN b ELSE b - 3]
MCAncestors == [b \in MCBlocks |-> IF b <= 3 THEN 0..b ELSE {0} \cup 4..b]
MCNotBefore == [b \in MCBlocks |-> IF b = 6 THEN 2 ELSE 0]
MCBetter == {bc \in MCBlocks \X MCBlocks : MCHeight[bc[1]] > MCHeight[bc[2]]}
=============================================================================
