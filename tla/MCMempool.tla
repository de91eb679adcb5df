----------------------------- MODULE MCMempool -----------------------------
(* Two senders.  Sender 1 has three transactions: 1 (nonce 0, a low fee), 2   *)
(* (the same nonce, a higher fee, a bigger one) and 3 (nonce 1, a market fee);*)
(* its balance does not cover 2 and 3 together, nor the byte limit 2 and 4.   *)
(* Sender 2 has 4, dated one tick ahead.                                      *)
EXTENDS Mempool

MCTxs == 1..4
MCSender  == <<1, 1, 1, 2>>
MCNonce   == <<0, 0, 1, 0>>
MCFee     == <<1, 3, 2, 2>>
MCCost    == <<2, 5, 3, 2>>
MCSize    == <<1, 3, 1, 2>>
MCStamp   == <<0, 0, 0, 1>>
MCBalance == <<7, 3>>
=============================================================================
