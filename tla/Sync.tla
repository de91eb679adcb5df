-------------------------------- MODULE Sync --------------------------------
(* The main thread of main.rs, run(): it brings the node of Node up to a      *)
(* peer's chain (p2p.rs, poll_peer_connection) and mines on it.               *)
(*                                                                            *)
(* A poll asks for the peer's tip, reads the local height once, asks for at   *)
(* most MaxBlocksPerSync blocks above it, height by height, and then for the  *)
(* missing parents that were queued before it drained the queue: a branch     *)
(* that forks off below the local tip is walked down one block per poll.      *)
(*                                                                            *)
(* Requests go through one stream, on which the peer also pushes each block   *)
(* it accepts.  request_on_stream takes the next message for the answer: a    *)
(* pushed block stands in for the one that was asked for, and every answer    *)
(* after it comes one request late.  The blocks are also pushed through an    *)
(* inbound connection, answers get lost and the process may die.  A peer      *)
(* whose polls fail MaxFailures times in a row is dropped from the table and  *)
(* not polled until it is heard of again.  The first poll of a run stands for *)
(* the one of preflight too.  The peer does not reorganise: see the hazard of *)
(* p2p.rs:281 in the README.                                                  *)
EXTENDS Node, Sequences

CONSTANTS
  PeerStart,         \* the peer's tip at the beginning
  Mineable,          \* the blocks this node may find
  PeerBlocks,        \* the blocks that may extend the peer's chain
  MaxBlocksPerSync,  \* MAX_BLOCKS_PER_SYNC
  MaxFailures,       \* MAX_PEER_FAILURES
  MaxDisturbances    \* bound of `disturbances`

ASSUME SyncAssumption ==
  /\ PeerStart \in Valid /\ Ancestors[PeerStart] \subseteq Valid
  /\ Mineable \subseteq Valid \ {Genesis}
  /\ PeerBlocks \subseteq Valid \ (Mineable \cup {Genesis})
  /\ MaxBlocksPerSync \in Nat \ {0}
  /\ MaxFailures \in Nat \ {0}
  /\ MaxDisturbances \in Nat
  /\ MaxFaults = 0     \* writes do not fail here: that is Node's own subject

VARIABLES
  peerTip,
  main,          \* "idle", a phase of a poll, "polled", "mining"
  remote,        \* the tip height that the peer answered,
  next,          \* the next height to ask it for,
  target,        \* and the last one
  known,         \* whether the table has the peer,
  failures,      \* how many polls in a row failed,
  seen,          \* and its last_tip, in a set that is empty before the first poll
  connected,     \* whether peer_connections has the peer,
  wire,          \* and the messages that wait on the stream when nothing is asked
  onto,          \* the parent of the candidate block being mined, in a set
  disturbances   \* pushed blocks, lost answers and crashes so far

pollVars == <<main, remote, next, target>>
entryVars == <<known, failures, seen>>
streamVars == <<connected, wire>>
mainVars == <<pollVars, entryVars, streamVars, onto>>
syncVars == <<vars, peerTip, mainVars, disturbances>>

PeerChain == Ancestors[peerTip]

(********************************* polling *********************************)

EndPoll ==
  /\ main' = "polled"
  /\ remote' = 0 /\ next' = 0 /\ target' = 0
  /\ UNCHANGED onto

\* Mutant of PollFails: the connection is kept.
PollFailsOpen == EndPoll /\ UNCHANGED <<entryVars, streamVars>>

\* An Err of the poll: mark_failed leaves last_tip alone, after MaxFailures in a
\* row the entry is removed with all it says, and the connection is removed with
\* whatever waits on it.
PollFails ==
  /\ EndPoll
  /\ connected' = FALSE /\ wire' = <<>>
  /\ IF failures + 1 >= MaxFailures
       THEN known' = FALSE /\ failures' = 0 /\ seen' = {}
       ELSE failures' = failures + 1 /\ UNCHANGED <<known, seen>>

\* Mutant of PollSucceeds: the tip is taken for a number of blocks.
PollSucceedsBelow ==
  EndPoll /\ failures' = 0 /\ seen' = {remote - 1} /\ UNCHANGED <<known, streamVars>>

\* mark_ok, and request_peers_connection: when something waits on the stream, the
\* list of peers takes its place there and the error is ignored.
PollSucceeds ==
  EndPoll /\ failures' = 0 /\ seen' = {remote} /\ UNCHANGED <<known, streamVars>>

\* sync_peers finds nobody to poll.
NoPeer ==
  /\ main = "idle" /\ holder = "none" /\ ~known
  /\ Tick
  /\ EndPoll
  /\ UNCHANGED <<peerTip, entryVars, streamVars, disturbances>>

\* handshake_peer, on the connection there is or on a new one.  sync_peers polls
\* a peer every DEFAULT_SYNC_INTERVAL, which is the unit of time here.
Handshake ==
  /\ main = "idle" /\ holder = "none" /\ known
  /\ Tick
  /\ IF wire = <<>>
       THEN /\ main' = "tip" /\ connected' = TRUE
            /\ UNCHANGED <<remote, next, target, entryVars, wire, onto>>
       ELSE PollFails
  /\ UNCHANGED <<peerTip, disturbances>>

RequestTip ==
  /\ main = "tip"
  /\ IF wire = <<>>
       THEN /\ main' = "local" /\ remote' = Height[peerTip]
            /\ UNCHANGED <<next, target, entryVars, streamVars, onto>>
       ELSE PollFails
  /\ UNCHANGED <<vars, peerTip, disturbances>>

\* local_height, under a lock of its own.
CompareHeights ==
  /\ main = "local" /\ holder = "none"
  /\ IF remote <= Height[tip]
       THEN main' = "parents" /\ UNCHANGED <<next, target>>
       ELSE /\ main' = "heights"
            /\ next' = Height[tip] + 1
            /\ target' = Min2(remote, Height[tip] + MaxBlocksPerSync)
  /\ UNCHANGED <<vars, peerTip, remote, entryVars, streamVars, onto, disturbances>>

\* Mutant of RequestBlock: a block that does not extend the tip ends the poll.
RequestBlockOnTip ==
  /\ main = "heights" /\ next <= target
  /\ \E asked \in PeerChain :
       LET b == Head(Append(wire, asked)) IN
       /\ Height[asked] = next
       /\ IF Parent[b] = tip
            THEN /\ ApplyBlock(b, "main", b)
                 /\ next' = next + 1 /\ wire' = Tail(Append(wire, asked))
                 /\ UNCHANGED <<main, remote, target, entryVars, connected, onto>>
            ELSE holder = "none" /\ UNCHANGED vars /\ PollFails
  /\ UNCHANGED <<peerTip, disturbances>>

\* request_block for the next height: the first block on the stream is applied,
\* whatever its height.  An error of apply_block ends the poll.
RequestBlock ==
  /\ main = "heights" /\ next <= target
  /\ \E asked \in PeerChain :
       LET b == Head(Append(wire, asked)) IN
       /\ Height[asked] = next
       /\ ApplyBlock(b, "main", b)
       /\ IF Verdict(b) = "error" THEN PollFails
          ELSE /\ next' = next + 1 /\ wire' = Tail(Append(wire, asked))
               /\ UNCHANGED <<main, remote, target, entryVars, connected, onto>>
  /\ UNCHANGED <<peerTip, disturbances>>

HeightsDone ==
  /\ main = "heights" /\ next > target /\ holder = "none"
  /\ main' = "parents"
  /\ UNCHANGED <<vars, peerTip, remote, next, target, entryVars, streamVars, onto, disturbances>>

\* request_missing_parent_blocks: what is ready is drained once.
DrainParents ==
  /\ main = "parents"
  /\ Drain
  /\ main' = "hashes"
  /\ UNCHANGED <<peerTip, remote, next, target, entryVars, streamVars, onto, disturbances>>

NothingToDrain ==
  /\ main = "parents" /\ holder = "none"
  /\ \A h \in requests : retryIn[h] > 0
  /\ PollSucceeds
  /\ UNCHANGED <<vars, peerTip, disturbances>>

\* What waits on the stream after the peer was asked for the hash h.  It serves
\* the blocks of its active chain; for another hash it sends nothing.
Answered(h) == IF h \in PeerChain THEN Append(wire, h) ELSE wire

\* request_block_by_hash: again the first block on the stream is applied, and
\* without one the request times out.
RequestByHash(h) ==
  /\ main = "hashes"
  /\ h \in inflight
  /\ IF Answered(h) # <<>>
       THEN LET b == Head(Answered(h)) IN
            /\ ApplyBlock(b, "main", h)
            /\ IF Verdict(b) = "error" THEN PollFails
               ELSE wire' = Tail(Answered(h)) /\ UNCHANGED <<pollVars, entryVars, connected, onto>>
       ELSE RequestFails(h) /\ PollFails
  /\ UNCHANGED <<peerTip, disturbances>>

HashesDone ==
  /\ main = "hashes" /\ inflight = {} /\ holder = "none"
  /\ PollSucceeds
  /\ UNCHANGED <<vars, peerTip, disturbances>>

Poll ==
  \/ NoPeer
  \/ Handshake
  \/ RequestTip
  \/ CompareHeights
  \/ RequestBlock
  \/ HeightsDone
  \/ DrainParents
  \/ NothingToDrain
  \/ \E h \in Blocks : RequestByHash(h)
  \/ HashesDone

(********************************** mining *********************************)

HasPendingSyncWork == orphans # {} \/ requests # {}

\* mining_wait_reason: sync_pending, handshake_pending or peer_ahead.
MustWait ==
  \/ HasPendingSyncWork
  \/ known /\ seen = {}
  \/ \E h \in seen : h > Height[tip]

\* mine_once_unlocked prepares a block on the tip and releases the node.
StartMining ==
  /\ main = "polled" /\ holder = "none"
  /\ ~MustWait
  /\ main' = "mining"
  /\ onto' = {tip}
  /\ UNCHANGED <<vars, peerTip, remote, next, target, entryVars, streamVars, disturbances>>

\* It waits, or its interval has not passed.
SkipMining ==
  /\ main = "polled" /\ holder = "none"
  /\ main' = "idle"
  /\ UNCHANGED <<vars, peerTip, remote, next, target, entryVars, streamVars, onto, disturbances>>

\* Mutant of FinishMining: the tip is not compared again.
FinishMiningStale(b) ==
  /\ main = "mining" /\ Parent[b] \in onto /\ NotBefore[b] <= clock
  /\ ApplyBlock(b, "main", b)
  /\ main' = "polled" /\ onto' = {}
  /\ UNCHANGED <<peerTip, remote, next, target, entryVars, streamVars, disturbances>>

\* A block was found, dated by this node's clock, and the tip is still the one it
\* was prepared on.
FinishMining(b) ==
  /\ main = "mining" /\ Parent[b] \in onto /\ NotBefore[b] <= clock
  /\ onto = {tip}
  /\ ApplyBlock(b, "main", b)
  /\ main' = "polled" /\ onto' = {}
  /\ UNCHANGED <<peerTip, remote, next, target, entryVars, streamVars, disturbances>>

\* The attempts are exhausted, or the block is discarded (tip_changed).
NothingMined ==
  /\ main = "mining" /\ holder = "none"
  /\ main' = "idle" /\ onto' = {}
  /\ UNCHANGED <<vars, peerTip, remote, next, target, entryVars, streamVars, disturbances>>

Mine ==
  \/ StartMining
  \/ SkipMining
  \/ \E b \in Mineable : FinishMining(b)
  \/ NothingMined

(******************************* disturbances ******************************)

Disturb ==
  /\ disturbances < MaxDisturbances
  /\ disturbances' = disturbances + 1

\* The connection fails while the main thread waits for an answer.
AnswerLost ==
  /\ main \in {"tip", "heights", "hashes"} /\ holder = "none"
  /\ Disturb
  /\ IF inflight = {} THEN UNCHANGED vars ELSE \E h \in Blocks : RequestFails(h)
  /\ PollFails
  /\ UNCHANGED peerTip

\* The peer broadcasts a block of its chain on a connection of its own.
Push(b) ==
  /\ b \in PeerChain
  /\ Disturb
  /\ ApplyBlock(b, "inbound", b)
  /\ UNCHANGED <<peerTip, mainVars>>

\* The process dies and starts again; the peer is given with --peer.
RestartNode ==
  /\ Disturb
  /\ Restart
  /\ main' = "idle" /\ remote' = 0 /\ next' = 0 /\ target' = 0
  /\ known' = TRUE /\ failures' = 0 /\ seen' = {} /\ onto' = {}
  /\ connected' = FALSE /\ wire' = <<>>
  /\ UNCHANGED peerTip

\* The peer accepts another block on its tip, and broadcasts it to its inbound
\* connections.
PeerExtends(b) ==
  /\ Parent[b] = peerTip
  /\ peerTip' = b
  /\ wire' = IF connected THEN Append(wire, b) ELSE wire
  /\ UNCHANGED <<vars, pollVars, entryVars, connected, onto, disturbances>>

\* A peer that was dropped is in a list of the gateway, of another peer or of an
\* inbound connection.
PeerLearned ==
  /\ ~known
  /\ known' = TRUE
  /\ UNCHANGED <<vars, peerTip, pollVars, failures, seen, streamVars, onto, disturbances>>

(****************************** specification ******************************)

\* The thread inside apply_block goes on.
Apply ==
  /\ \/ \E b \in Blocks : TakeChildren(b) \/ ConnectChild(b)
     \/ Return(TRUE)
  /\ UNCHANGED <<peerTip, mainVars, disturbances>>

SyncInit ==
  /\ Init
  /\ peerTip = PeerStart
  /\ main = "idle" /\ remote = 0 /\ next = 0 /\ target = 0
  /\ known = TRUE /\ failures = 0 /\ seen = {} /\ onto = {}
  /\ connected = FALSE /\ wire = <<>>
  /\ disturbances = 0

SyncNext ==
  \/ Poll
  \/ Mine
  \/ Apply
  \/ AnswerLost
  \/ \E b \in Blocks : Push(b)
  \/ \E b \in PeerBlocks : PeerExtends(b)
  \/ PeerLearned
  \/ RestartNode

\* The loop of run() goes round and round: it waits for nothing but answers,
\* which come or time out, and the node's mutex, which is always released.
SyncSpec ==
  /\ SyncInit /\ [][SyncNext]_syncVars
  /\ WF_syncVars(Poll) /\ WF_syncVars(Mine) /\ WF_syncVars(Apply)

(******************************* properties ********************************)

SyncTypeOK ==
  /\ TypeOK
  /\ peerTip \in Valid
  /\ main \in {"idle", "tip", "local", "heights", "parents", "hashes", "polled", "mining"}
  /\ remote \in Nat /\ next \in Nat /\ target \in Nat
  /\ known \in BOOLEAN /\ failures \in 0..(MaxFailures - 1) /\ seen \subseteq Nat
  /\ connected \in BOOLEAN /\ wire \in Seq(Blocks)
  /\ onto \subseteq Blocks
  /\ disturbances \in 0..MaxDisturbances

\* However far below the local tip the peer's branch forks off, and although
\* orphans expire, are evicted and lose the request for their parent, the node
\* ends on a chain that the peer's does not beat.  It takes that a peer which
\* wrong or lost answers got dropped is always heard of again: sync_peers never
\* comes back to it by itself.  (Here a heavier chain is a higher one:
\* poll_peer_connection asks for no other.)
CatchesUp == []<>known => <>[](<<peerTip, tip>> \notin Better)

\* A stream out of step stays in use only until the next handshake: the wrong
\* answer makes the poll fail, and the connection goes with what waits on it.
StreamRecovers == wire # <<>> ~> wire = <<>>

\* Mining is not held back for ever: when the peer's chain goes on growing, the
\* sync_pending, handshake_pending and peer_ahead of mining_wait_reason go away,
\* again for a peer that is always heard of.  (Not so when it stands still: an orphan whose parent was not asked for again
\* expires, but is removed only when the next block comes.)
MiningResumes ==
  []<>known /\ <>(\A b \in PeerBlocks : Parent[b] # peerTip) => <>[](main = "polled" => ~MustWait)

\* The candidate is prepared and applied under two locks, and a block found on a
\* tip that has moved in between is discarded: what this node mines becomes its
\* tip, whatever arrives while it mines.
MinedBlockIsTip ==
  [][main = "mining" /\ holder = "none" /\ holder' = "main" =>
       \E b \in Mineable : tip' = b /\ onto = {Parent[b]}]_syncVars
=============================================================================
