------------------------------- MODULE Locks -------------------------------
(* The four mutexes that the threads of a running node share (main.rs,        *)
(* p2p.rs, gossip.rs): the node, the peer table, the outbound connections and *)
(* the inbound ones.  Every function that takes one is a script of lock and   *)
(* unlock steps, in the order and with the nesting of the code; what is done  *)
(* between them (network traffic under a timeout, disk, mining) ends by       *)
(* itself.  A guard bound by `let` lives to the end of its block, one in a    *)
(* `match` or an `if let` to the end of that statement, any other temporary   *)
(* to the end of its own statement.                                           *)
EXTENDS Integers, Sequences, FiniteSets

CONSTANTS
  Inbound,    \* inbound connection threads
  Handlers,   \* threads that serve RPC requests
  Routes      \* the RPC requests that are made

\* The threads are named apart from the main thread and from no thread.
ASSUME ThreadNames == {"main", "nobody"} \cap (Inbound \cup Handlers) = {}

Node == "node"
Table == "peers"
Out == "peer_connections"
In == "inbound_connections"
Mutexes == {Node, Table, Out, In}

L(m) == <<"lock", m>>
U(m) == <<"unlock", m>>
Use(m) == <<L(m), U(m)>>

(******************************* main thread *******************************)

\* The steps of a poll that look at the node: the tip for the handshake, the
\* height, a block by height, and the drained parent requests with a block by
\* hash (or its retry).
HandshakePeer == Use(Node)
RequestBlock == Use(Node)
RequestMissingParentBlocks == Use(Node) \o Use(Node)
PollPeerConnection == HandshakePeer \o Use(Node) \o RequestBlock \o RequestMissingParentBlocks

\* poll_persistent_peer keeps the outbound connections for the whole of it.
PollPeer == <<L(Out)>> \o PollPeerConnection \o <<U(Out)>>

\* sync_peers: the due peers; a poll that succeeds is recorded and followed by
\* a request for peers (and a save), or one that fails is recorded and its
\* connection removed (with a save when the peer is dropped).
SyncOk   == Use(Table) \o PollPeer \o Use(Table) \o Use(Out) \o Use(Table) \o Use(Table)
SyncFail == Use(Table) \o PollPeer \o Use(Table) \o Use(Out) \o Use(Table)

AcceptP2p == Use(In)

RefreshGatewayPeers == Use(Node) \o Use(Table) \o Use(Table) \o Use(Table)

\* log_activity, mining_wait_reason and mine_once_unlocked, then broadcast.
NeedsHandshake == Use(Table)
PeerAhead == Use(Node) \o Use(Table)
LogActivity == Use(Node) \o Use(Table) \o NeedsHandshake \o PeerAhead
MiningWaitReason == Use(Node) \o NeedsHandshake \o PeerAhead
MineOnce == Use(Node) \o Use(Node)
Broadcast == Use(Table) \o Use(Out) \o Use(Out) \o Use(In) \o Use(In) \o Use(In)

\* The status line every 30 seconds: the node stays locked.
StatusLine == <<L(Node)>> \o Use(Table) \o Use(Out) \o Use(In) \o <<U(Node)>>

\* shutdown: the flush, the peers file and the count under the node's lock.
Shutdown == <<L(Node)>> \o Use(Table) \o Use(Table) \o <<U(Node)>>

MainScripts ==
  {AcceptP2p, SyncOk, SyncFail, RefreshGatewayPeers, LogActivity, MiningWaitReason,
   MineOnce \o Broadcast, StatusLine, Shutdown}

(****************************** other threads ******************************)

\* handle_p2p_stream_task: GetPeers, Peers with the save that follows, and every
\* other message; at the end the connection is removed.
InboundScripts == {Use(Table), Use(Table) \o Use(Table), Use(Node), Use(In)}

\* Mutant of RpcSubmitTx: the guard of the node outlives its match.
RpcSubmitTxNested == <<L(Node)>> \o Broadcast \o <<U(Node)>>

\* rpc_submit_tx submits and flushes, then broadcast_to_peers.
RpcSubmitTx == Use(Node) \o Broadcast

\* rpc_status: the four guards are the parts of one tuple.
RpcStatus ==
  <<L(Node), L(Table), L(Out), L(In), U(In), U(Out), U(Table), U(Node)>>

\* The other queries look at the peer table, or at the node.
RpcPeers == Use(Table)
RpcQuery == Use(Node)

Script(route) ==
  CASE route = "submit_tx" -> RpcSubmitTx
    [] route = "peers"     -> RpcPeers
    [] route = "status"    -> RpcStatus
    [] OTHER               -> RpcQuery

(****************************** specification ******************************)

VARIABLES
  script,   \* what every thread still has to do
  owner     \* of every mutex, Nobody if it is free

vars == <<script, owner>>

Nobody == "nobody"
Threads == {"main"} \cup Inbound \cup Handlers

Scripts(t) ==
  IF t = "main" THEN MainScripts
  ELSE IF t \in Inbound THEN InboundScripts
  ELSE {Script(route) : route \in Routes}

Init ==
  /\ script = [t \in Threads |-> <<>>]
  /\ owner = [m \in Mutexes |-> Nobody]

\* The main thread takes its functions in turn; here, in any order.
Begin(t) ==
  /\ script[t] = <<>>
  /\ \E s \in Scripts(t) : script' = [script EXCEPT ![t] = s]
  /\ UNCHANGED owner

Lock(t) ==
  /\ script[t] # <<>>
  /\ Head(script[t])[1] = "lock"
  /\ owner[Head(script[t])[2]] = Nobody
  /\ owner' = [owner EXCEPT ![Head(script[t])[2]] = t]
  /\ script' = [script EXCEPT ![t] = Tail(@)]

Unlock(t) ==
  /\ script[t] # <<>>
  /\ Head(script[t])[1] = "unlock"
  /\ owner' = [owner EXCEPT ![Head(script[t])[2]] = Nobody]
  /\ script' = [script EXCEPT ![t] = Tail(@)]

Next == \E t \in Threads : Begin(t) \/ Lock(t) \/ Unlock(t)

Spec == Init /\ [][Next]_vars

\* A mutex that is released again and again lets every waiting thread in.
LiveSpec == Spec /\ \A t \in Threads : SF_vars(Lock(t) \/ Unlock(t))

(******************************* properties ********************************)

Waits(t, u) ==
  /\ script[t] # <<>>
  /\ Head(script[t])[1] = "lock"
  /\ owner[Head(script[t])[2]] = u

\* No threads wait for each other in a circle (nor one for itself): of those
\* that wait, one waits for a thread that runs.
NoCircularWait ==
  \A S \in (SUBSET Threads) \ {{}} : \E t \in S : \A u \in S : ~Waits(t, u)

\* The README starts a node and then checks it "from another terminal" with
\* /status: the request is answered.
StatusAnswered ==
  \A h \in Handlers : script[h] = RpcStatus ~> script[h] = <<>>
=============================================================================
