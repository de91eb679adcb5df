------------------------------ MODULE BlockTree ------------------------------
(* The blocks a node can ever be shown, and the facts about them that do not  *)
(* depend on the node's state.  A block is identified by its hash, and hashes *)
(* are naturals so that the order of the BTreeMaps keyed by them is <.        *)
(*                                                                            *)
(* ForkChoice, Consensus and Ledger come from the `paqus` crate, which is not *)
(* part of this repository: they are described by how node.rs uses them.      *)
EXTENDS Integers, FiniteSets

CONSTANTS
  Blocks,     \* every block, the genesis block and invalid blocks included
  Genesis,
  Parent,     \* previous_hash of every block but Genesis
  Height,     \* the height a block's header claims
  Ancestors,  \* a block together with everything below it (ancestor_hashes)
  Sealed,     \* the blocks whose header is right: difficulty, proof of work, checkpoint
  Valid,      \* of these, the ones whose transactions and state root are right
  NotBefore,  \* the first time at which a block's timestamp is not in the future
  Better      \* <<b, c>>: best_tip() prefers b to c once it has seen both

ASSUME TreeAssumption ==
  /\ Blocks \subseteq Nat
  /\ IsFiniteSet(Blocks)
  /\ Genesis \in Blocks
  /\ Parent \in [Blocks \ {Genesis} -> Blocks]
  /\ Height \in [Blocks -> Nat]
  /\ NotBefore \in [Blocks -> Nat]
  /\ Sealed \subseteq Blocks
  /\ Valid \subseteq Sealed
  /\ Genesis \in Valid

ASSUME AncestorsAssumption ==
  /\ Ancestors \in [Blocks -> SUBSET Blocks]
  /\ Ancestors[Genesis] = {Genesis}
  /\ \A b \in Blocks \ {Genesis} :
       /\ b \notin Ancestors[Parent[b]]
       /\ Ancestors[b] = Ancestors[Parent[b]] \cup {b}
  /\ \A b \in Blocks : \A a \in Ancestors[b] : Ancestors[a] \subseteq Ancestors[b]

ASSUME HeightAssumption ==
  /\ Height[Genesis] = 0
  /\ \A b \in Blocks \ {Genesis} : Height[b] > 0
  /\ \A b \in Valid \ {Genesis} : Height[b] = Height[Parent[b]] + 1

(* best_tip() follows cumulative work.  How it breaks a tie between tips of   *)
(* equal work is not visible from this repository, so Better is any strict    *)
(* weak order in which a valid block beats its parent: first-seen and         *)
(* smallest-hash are two instances.                                           *)
ASSUME BetterAssumption ==
  /\ Better \subseteq Blocks \X Blocks
  /\ \A a \in Blocks : <<a, a>> \notin Better
  /\ \A a, b, c \in Blocks :
       <<a, b>> \in Better /\ <<b, c>> \in Better => <<a, c>> \in Better
  /\ \A a, b, c \in Blocks :
       <<a, b>> \notin Better /\ <<b, c>> \notin Better => <<a, c>> \notin Better
  /\ \A b \in Valid \ {Genesis} : <<b, Parent[b]>> \in Better
=============================================================================
