------------------------------ MODULE MCStorage ------------------------------
(* Two branches, with the same transactions at different heights:             *)
(*                                                                            *)
(*      0 --- 1 <t> --- 2 <u>                                                 *)
(*      `---- 3 <u> --- 4 <v, t> --- 5                                        *)
(*      `---- 6 <t>                                                           *)
(*                                                                            *)
(* 1 has more work than 3, 2 and 4 tie, 5 beats them and 6, the shortest      *)
(* branch, beats everything.  u is a payment to oneself.                      *)
EXTENDS Storage

MCBlocks == 0..6
MCParent == <<0, 1, 0, 3, 4, 0>>
MCHeight == [b \in MCBlocks |-> <<0, 1, 2, 1, 2, 3, 1>>[b + 1]]
MCAncestors ==
  [b \in MCBlocks |->
     <<{0}, {0, 1}, {0, 1, 2}, {0, 3}, {0, 3, 4}, {0, 3, 4, 5}, {0, 6}>>[b + 1]]
MCNotBefore == [b \in MCBlocks |-> 0]
MCWork == [b \in MCBlocks |-> <<0, 2, 4, 1, 4, 5, 6>>[b + 1]]
MCBetter == {bc \in MCBlocks \X MCBlocks :
               \/ MCWork[bc[1]] > MCWork[bc[2]]
               \/ MCWork[bc[1]] = MCWork[bc[2]] /\ bc[1] > bc[2]}

MCContents ==
  [b \in MCBlocks |-> <<<<>>, <<"t">>, <<"u">>, <<"u">>, <<"v", "t">>, <<>>, <<"t">>>>[b + 1]]
MCSender == [t \in {"t", "u", "v"} |-> IF t = "u" THEN "carol" ELSE "alice"]
MCReceiver == [t \in {"t", "u", "v"} |-> "carol"]
=============================================================================
