------------------------------ MODULE Follower ------------------------------
(* What a node promises about the blocks it has accepted, without the orphan  *)
(* pool, the request queue, the threads and the layout of the database: it    *)
(* accepts valid blocks on top of known ones, moves its head to a block that  *)
(* beats everything it knows and never otherwise, and comes back after a      *)
(* crash with what it had made durable, which is everything unless a write    *)
(* failed.                                                                    *)
EXTENDS BlockTree

VARIABLES
  known,        \* the accepted blocks,
  head,         \* and the one the ledger stands on
  durable,      \* what a restart finds of the two
  durableHead,
  lossy         \* whether a write has ever failed

followerVars == <<known, head, durable, durableHead, lossy>>

\* The blocks of S that can be linked down to genesis within S.
Linked(S) == {b \in S : Ancestors[b] \subseteq S}

Init ==
  /\ known = {Genesis} /\ head = Genesis
  /\ durable = {Genesis} /\ durableHead = Genesis
  /\ lossy = FALSE

\* Blocks are only ever added to the database, its head is the old or the new
\* one, and without a failed write it is up to date.
Persist ==
  /\ durable \subseteq durable' /\ durable' \subseteq durable \cup known'
  /\ durableHead' \in {durableHead, head'}
  /\ Ancestors[durableHead'] \subseteq durable'
  /\ lossy => lossy'
  /\ ~lossy' => durable' = known' /\ durableHead' = head'

Adopt(b) ==
  /\ b \in Valid \ known
  /\ Parent[b] \in known
  /\ known' = known \cup {b}
  /\ head' = IF \A c \in known : <<b, c>> \in Better THEN b ELSE head
  /\ Persist

Save ==
  /\ UNCHANGED <<known, head>>
  /\ Persist

Recover ==
  /\ known' = Linked(durable)
  /\ head' = durableHead
  /\ UNCHANGED <<durable, durableHead, lossy>>

Next == (\E b \in Blocks \ {Genesis} : Adopt(b)) \/ Save \/ Recover

Spec == Init /\ [][Next]_followerVars
=============================================================================
