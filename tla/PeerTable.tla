----------------------------- MODULE PeerTable -----------------------------
(* main.rs: the table of known peers, the cache file that outlives it, and    *)
(* the gate that keeps a miner waiting until it has caught up.                *)
(*                                                                            *)
(* The main thread runs preflight() and then the loop of run(); `main` is     *)
(* where it is in it.  Inbound connection threads add peers and deliver       *)
(* blocks at any time: the gate looks at the node and at the table under      *)
(* different locks, one after the other.  The node itself is reduced to its   *)
(* height; whether it has pending sync work is open.  The writes of the cache *)
(* file may fail; but for the one that ends preflight, nobody looks at the    *)
(* error.                                                                     *)
EXTENDS Integers, FiniteSets

CONSTANTS
  Peers,          \* socket addresses, as naturals
  Own,            \* the node's public and listen addresses
  ConfigPeers,    \* --peer
  Gateway,        \* whether --gateway is given
  MaxPeers,       \* max_peers
  MaxFailures,    \* MAX_PEER_FAILURES
  Lists,          \* the lists of peers, and
  Tips,           \* the tip heights, that others send
  MaxHeight,      \* bound: heights
  Watched         \* the peers that DuePolled follows; to sync_peers all are alike

ASSUME PeerAssumption ==
  /\ Peers \subseteq Nat /\ IsFiniteSet(Peers)
  /\ Own \subseteq Peers
  /\ ConfigPeers \subseteq Peers \ Own
  /\ MaxPeers \in Nat /\ Cardinality(ConfigPeers) <= MaxPeers
  /\ Gateway \in BOOLEAN
  /\ MaxFailures \in Nat \ {0, 1}
  /\ Lists \subseteq SUBSET Peers /\ {} \in Lists
  /\ MaxHeight \in Nat /\ Tips \subseteq 0..MaxHeight
  /\ Watched \subseteq Peers

VARIABLES
  main,       \* where the main thread is
  known,      \* the keys of `peers`,
  failures,   \* and of every one: failures,
  lastTip,    \* last_tip (NoTip for None),
  waiting,    \* and whether next_attempt lies ahead
  toPoll,     \* the peers still to poll in this pass
  looked,     \* local_height of peer_ahead_of_local_tip, 0 when it is not in use
  height,     \* the ledger's height
  required,   \* requires_peer_sync_before_mining, for a node started with --mine
  shaken,     \* history: a handshake has succeeded since the start
  saving,     \* the threads about to write, or writing, the cache file
  file,       \* the peers in the cache file,
  torn,       \* whether it was left half written,
  lost        \* and, for the properties, whether the last write failed

tableVars == <<known, failures, lastTip, waiting>>
diskVars  == <<file, torn, lost>>
fileVars  == <<saving, diskVars>>
vars == <<main, tableVars, toPoll, looked, height, required, shaken, fileVars>>

NoTip == -1
Running == {"sync", "polling", "gateway", "gate", "handshake", "ahead", "compare", "mining"}

\* save_peers is a call of the main thread: it goes on when the write is over.
MainAt(place) == main = place /\ "main" \notin saving

(****************************** the cache file *****************************)

\* save_peers_from writes the table as it is now, and holds its lock meanwhile.
Written == file' = known /\ torn' = FALSE

\* fs::write truncates the file before it writes.  What an error or a crash in
\* the middle leaves is the old file, an empty one (which loads as no peers), or
\* one that does not parse.
Broken ==
  \/ UNCHANGED <<file, torn>>
  \/ file' = {} /\ torn' \in BOOLEAN

\* The write of a thread that ignores its error.  ("inbound" stands for all the
\* inbound threads: another one may be waiting to write.)
Save(who) ==
  /\ who \in saving
  /\ saving' \in {saving \ {who}} \cup (IF who = "inbound" THEN {saving} ELSE {})
  /\ \/ Written /\ lost' = FALSE
     \/ Broken /\ lost' = TRUE
  /\ UNCHANGED <<main, tableVars, toPoll, looked, height, required, shaken>>

(******************************** the table ********************************)

\* Mutant of Added: the limit is read before the list arrived.
AddedUnlimited(infos) == {infos \ (known \cup Own)}

\* add_peer_infos_to: the unknown addresses of the list, in its order, until the
\* table is full.
Added(infos) ==
  LET new  == infos \ (known \cup Own)
      room == MaxPeers - Cardinality(known)
      n    == IF Cardinality(new) <= room THEN Cardinality(new) ELSE room
  IN {A \in SUBSET new : Cardinality(A) = n}

\* Its effect, and the save_peers() that follows when the table has changed.
AddPeers(who, infos) ==
  \E A \in Added(infos) :
    /\ known' = known \cup A
    /\ saving' = IF A # {} THEN saving \cup {who} ELSE saving

\* Mutant of MarkOk: the next height to ask for is recorded as the tip.
MarkOkNext(p, tip) ==
  /\ failures' = [failures EXCEPT ![p] = 0]
  /\ lastTip' = [lastTip EXCEPT ![p] = tip + 1]
  /\ waiting' = waiting \cup {p}

MarkOk(p, tip) ==
  /\ failures' = [failures EXCEPT ![p] = 0]
  /\ lastTip' = [lastTip EXCEPT ![p] = tip]
  /\ waiting' = waiting \cup {p}

\* Mutant of MarkFailed: the cache file is not written.
MarkFailedUnsaved(p) ==
  IF failures[p] + 1 >= MaxFailures
    THEN /\ known' = known \ {p}
         /\ failures' = [failures EXCEPT ![p] = 0]
         /\ lastTip' = [lastTip EXCEPT ![p] = NoTip]
         /\ waiting' = waiting \ {p}
         /\ UNCHANGED saving
    ELSE /\ failures' = [failures EXCEPT ![p] = @ + 1]
         /\ waiting' = waiting \cup {p}
         /\ UNCHANGED <<known, lastTip, saving>>

\* mark_failed, and the removal after too many failures with the save_peers()
\* that follows it.
MarkFailed(p) ==
  IF failures[p] + 1 >= MaxFailures
    THEN /\ known' = known \ {p}
         /\ failures' = [failures EXCEPT ![p] = 0]
         /\ lastTip' = [lastTip EXCEPT ![p] = NoTip]
         /\ waiting' = waiting \ {p}
         /\ saving' = saving \cup {"main"}
    ELSE /\ failures' = [failures EXCEPT ![p] = @ + 1]
         /\ waiting' = waiting \cup {p}
         /\ UNCHANGED <<known, lastTip, saving>>

(********************************* starting ********************************)

\* run_node: --peer first, then the cache file, cut to MaxPeers.  A file that
\* does not parse ends the start.
Start ==
  /\ main = "down"
  /\ IF torn
       THEN main' = "refused" /\ UNCHANGED <<known, required>>
       ELSE LET cached == file \ ConfigPeers
                room   == MaxPeers - Cardinality(ConfigPeers)
            IN /\ known' = ConfigPeers \cup
                             {p \in cached : Cardinality({q \in cached : q < p}) < room}
               /\ required' = (known' # {} \/ Gateway)
               /\ main' = "discover"
  /\ UNCHANGED <<failures, lastTip, waiting, toPoll, looked, height, shaken, fileVars>>

\* The first half of preflight: the gateway is asked, and the peers to poll are
\* listed.
Discover(infos) ==
  /\ MainAt("discover")
  /\ ~Gateway => infos = {}
  /\ AddPeers("main", infos)
  /\ toPoll' = known'
  /\ main' = "preflight"
  /\ UNCHANGED <<failures, lastTip, waiting, looked, height, required, shaken, diskVars>>

\* Blocks arrive: the ledger stays, grows, or moves to a heavier branch, which
\* may be a shorter one.
NodeMoves == height' \in {height} \cup 1..MaxHeight

PreflightOk(p, tip) ==
  /\ MainAt("preflight")
  /\ p \in toPoll
  /\ toPoll' = toPoll \ {p}
  /\ MarkOk(p, tip)
  /\ NodeMoves
  /\ shaken' = TRUE
  /\ UNCHANGED <<main, known, looked, required, fileVars>>

\* A poll may fail before its handshake, or after it and some of the blocks.
\* Preflight drops nobody.
FailedPoll(shook) ==
  /\ shaken' = (shaken \/ shook)
  /\ IF shook THEN NodeMoves ELSE UNCHANGED height

PreflightFail(p, shook) ==
  /\ MainAt("preflight")
  /\ p \in toPoll
  /\ toPoll' = toPoll \ {p}
  /\ failures' = [failures EXCEPT ![p] = @ + 1]
  /\ waiting' = waiting \cup {p}
  /\ FailedPoll(shook)
  /\ UNCHANGED <<main, known, lastTip, looked, required, fileVars>>

\* Nothing of the process is left.
ForgetAll ==
  /\ main' = "down"
  /\ known' = {}
  /\ failures' = [p \in Peers |-> 0]
  /\ lastTip' = [p \in Peers |-> NoTip]
  /\ waiting' = {} /\ toPoll' = {}
  /\ looked' = 0
  /\ required' = FALSE /\ shaken' = FALSE
  /\ saving' = {} /\ lost' = FALSE
  /\ UNCHANGED height

\* Preflight ends with a save, and the process when it fails.
PreflightDone ==
  /\ MainAt("preflight")
  /\ toPoll = {}
  /\ \/ /\ main' = "sync"
        /\ Written /\ lost' = FALSE
        /\ UNCHANGED <<tableVars, toPoll, looked, height, required, shaken, saving>>
     \/ ForgetAll /\ Broken

(******************************* the main loop *****************************)

\* sync_peers lists the peers that are due,
BeginSync ==
  /\ MainAt("sync")
  /\ toPoll' = known \ waiting
  /\ main' = "polling"
  /\ UNCHANGED <<tableVars, looked, height, required, shaken, fileVars>>

\* polls them, and asks those that answer for more peers.
PollOk(p, tip, infos) ==
  /\ MainAt("polling")
  /\ p \in toPoll
  /\ toPoll' = toPoll \ {p}
  /\ MarkOk(p, tip)
  /\ NodeMoves
  /\ shaken' = TRUE
  /\ AddPeers("main", infos)
  /\ UNCHANGED <<main, looked, required, diskVars>>

\* Mutant of PollFail: an error ends the pass.
PollFailLast(p, shook) ==
  /\ MainAt("polling")
  /\ p \in toPoll
  /\ toPoll' = {}
  /\ FailedPoll(shook)
  /\ UNCHANGED <<main, tableVars, looked, required, fileVars>>

PollFail(p, shook) ==
  /\ MainAt("polling")
  /\ p \in toPoll
  /\ toPoll' = toPoll \ {p}
  /\ MarkFailed(p)
  /\ FailedPoll(shook)
  /\ UNCHANGED <<main, looked, required, diskVars>>

SyncDone ==
  /\ MainAt("polling")
  /\ toPoll = {}
  /\ main' = "gateway"
  /\ UNCHANGED <<tableVars, toPoll, looked, height, required, shaken, fileVars>>

\* refresh_gateway_peers, when the heartbeat is due.
RefreshGateway(infos) ==
  /\ MainAt("gateway")
  /\ ~Gateway => infos = {}
  /\ AddPeers("main", infos)
  /\ main' = "gate"
  /\ UNCHANGED <<failures, lastTip, waiting, toPoll, looked, height, required, shaken, diskVars>>

\* mining_wait_reason: four looks at the shared state, each under its own lock.
\* The loop starts over when one of them finds a reason to wait, and pending
\* orphans or requests of the node are the first.
GatePending ==
  /\ MainAt("gate")
  /\ main' \in {"sync", "handshake"}
  /\ UNCHANGED <<tableVars, toPoll, looked, height, required, shaken, fileVars>>

\* Mutant of NeedsHandshake: a peer that was tried counts, whatever came of it.
NeedsTrial ==
  required /\ known # {} /\ \A p \in known : lastTip[p] = NoTip /\ failures[p] = 0

NeedsHandshake == required /\ known # {} /\ \A p \in known : lastTip[p] = NoTip

GateHandshake ==
  /\ MainAt("handshake")
  /\ main' = IF NeedsHandshake THEN "sync" ELSE "ahead"
  /\ UNCHANGED <<tableVars, toPoll, looked, height, required, shaken, fileVars>>

\* peer_ahead_of_local_tip reads the height,
GateLook ==
  /\ MainAt("ahead")
  /\ looked' = height
  /\ main' = "compare"
  /\ UNCHANGED <<tableVars, toPoll, height, required, shaken, fileVars>>

\* Mutant of PeerAhead: one block is within tolerance.
PeerFarAhead == \E p \in known : lastTip[p] > looked + 1

PeerAhead == \E p \in known : lastTip[p] > looked

\* releases the node, and compares it with the table.
GateAhead ==
  /\ MainAt("compare")
  /\ IF PeerAhead THEN main' = "sync" /\ looked' = 0
                  ELSE main' = "mining" /\ UNCHANGED looked
  /\ UNCHANGED <<tableVars, toPoll, height, required, shaken, fileVars>>

\* mine_once_unlocked finds a block, or not.
Mine ==
  /\ MainAt("mining")
  /\ height' \in height..(height + 1) \cap 0..MaxHeight
  /\ main' = "sync" /\ looked' = 0
  /\ UNCHANGED <<tableVars, toPoll, required, shaken, fileVars>>

(****************************** other threads ******************************)

\* An inbound connection sends a list of peers, or a block.
InboundPeers(infos) ==
  /\ main \in Running
  /\ AddPeers("inbound", infos)
  /\ UNCHANGED <<main, failures, lastTip, waiting, toPoll, looked, height, required, shaken, diskVars>>

InboundBlock ==
  /\ main \in Running
  /\ NodeMoves
  /\ UNCHANGED <<main, tableVars, toPoll, looked, required, shaken, fileVars>>

\* next_attempt is reached.
AttemptDue(p) ==
  /\ p \in waiting
  /\ waiting' = waiting \ {p}
  /\ UNCHANGED <<main, known, failures, lastTip, toPoll, looked, height, required, shaken, fileVars>>

(********************************* stopping ********************************)

\* The shutdown file ends run() with a last save.  When it fails, or an inbound
\* thread still writes when the process ends, the file is left broken.
Shutdown ==
  /\ MainAt("sync")
  /\ ForgetAll
  /\ Written \/ Broken

\* The process dies, perhaps in the middle of a write.
Crash ==
  /\ main \notin {"down", "refused"}
  /\ ForgetAll
  /\ IF saving = {} THEN UNCHANGED <<file, torn>> ELSE Broken

\* The operator removes the file that stopped the start.
RemoveFile ==
  /\ main = "refused"
  /\ main' = "down"
  /\ file' = {}
  /\ torn' = FALSE
  /\ UNCHANGED <<tableVars, toPoll, looked, height, required, shaken, saving, lost>>

(****************************** specification ******************************)

Init ==
  /\ main = "down"
  /\ known = {} /\ failures = [p \in Peers |-> 0] /\ lastTip = [p \in Peers |-> NoTip]
  /\ waiting = {} /\ toPoll = {}
  /\ looked = 0 /\ height = 0
  /\ required = FALSE /\ shaken = FALSE
  /\ saving = {} /\ file = {} /\ torn = FALSE /\ lost = FALSE

MainLoop ==
  \/ BeginSync
  \/ \E p \in Peers, tip \in Tips, infos \in Lists : PollOk(p, tip, infos)
  \/ \E p \in Peers, shook \in BOOLEAN : PollFail(p, shook)
  \/ SyncDone
  \/ \E infos \in Lists : RefreshGateway(infos)
  \/ GatePending \/ GateHandshake \/ GateLook \/ GateAhead \/ Mine

Preflight ==
  \/ \E infos \in Lists : Discover(infos)
  \/ \E p \in Peers, tip \in Tips : PreflightOk(p, tip)
  \/ \E p \in Peers, shook \in BOOLEAN : PreflightFail(p, shook)
  \/ PreflightDone

Next ==
  \/ Start
  \/ Preflight
  \/ MainLoop
  \/ \E infos \in Lists : InboundPeers(infos)
  \/ InboundBlock
  \/ \E p \in Peers : AttemptDue(p)
  \/ \E who \in {"main", "inbound"} : Save(who)
  \/ Shutdown \/ Crash \/ RemoveFile

Spec == Init /\ [][Next]_vars

\* The main thread never waits for anything but timeouts and its own writes.
LiveSpec == Spec /\ WF_vars(Preflight \/ MainLoop \/ Save("main"))

(******************************* properties ********************************)

TypeOK ==
  /\ main \in Running \cup {"down", "refused", "discover", "preflight"}
  /\ known \subseteq Peers /\ waiting \subseteq Peers /\ toPoll \subseteq Peers
  /\ failures \in [Peers -> 0..MaxFailures]
  /\ lastTip \in [Peers -> NoTip..MaxHeight]
  /\ height \in 0..MaxHeight /\ looked \in 0..MaxHeight
  /\ {required, shaken, torn, lost} \subseteq BOOLEAN
  /\ saving \subseteq {"main", "inbound"}
  /\ file \subseteq Peers

\* The table never outgrows max_peers, whoever adds to it: the cache file, the
\* gateway, a polled peer, inbound connections.
TableBounded == Cardinality(known) <= MaxPeers

\* Whichever threads change the table and write the file, in whatever order:
\* once nobody has a write to do and the last one did not fail, the file holds
\* the table.  No learned peer is lost by a restart and no dropped one comes
\* back, and the next write repairs what failed ones left.
FileCurrent == main \in Running /\ saving = {} /\ ~lost => file = known /\ ~torn

\* The miner only works when no peer's last tip is above the height the gate
\* read, although the table is compared with it after the node was released and
\* the search begins after the table was: nobody else records tips.  (The height
\* itself may fall meanwhile, in a reorg to a heavier and shorter branch.)
MinesCaughtUp == main = "mining" => \A p \in known : lastTip[p] <= looked

\* A node that needs a handshake and never had one mines only when each peer it
\* polled has been dropped for failing: whom it still knows it has not polled.
MinesUnshakenAlone ==
  main = "mining" /\ required /\ ~shaken =>
    \A p \in known : failures[p] = 0 /\ lastTip[p] = NoTip

\* A peer that is due is polled: one that fails does not keep the others from
\* their turn.
DuePolled ==
  \A p \in Watched : p \in known \ waiting ~> p \in waiting \/ p \notin known

\* The README on mining with --peer or --gateway: the node must complete at
\* least one successful peer handshake before it can produce a block.
MinesAfterHandshake == main = "mining" /\ required => shaken

\* The README on peers.json: on the next startup, the node loads this cache.
CacheLoads == main # "refused"
=============================================================================
