------------------------------ MODULE MCDownload ------------------------------
(***************************************************************************)
(* How shares get from node to node: the requests of a client at the bound *)
(* of its queue (module BlockRequests), whole downloads, blocks that are   *)
(* broadcast, the search for missing shares, and the encoding of a share.  *)
(* A behaviour is of one of them, named by "part"; the variables of the    *)
(* others stay as they are.                                                *)
(***************************************************************************)
EXTENDS MCBlockRequests, TLC

CONSTANT None

VARIABLES
    part,
    held, heldSeen, heldCached, synced, queue, marked, sending, arriving, bans, tasks,
    pool, want, broadcasted, seenBy, ring, outbox, channel, requests, asked,
    stored, awaited,
    pc, sent, store, pruned, compact, windowKnown, wire, got, result

-----------------------------------------------------------------------------
(* Downloads with the bounds of the code.                                  *)

\* One peer, no other sender, notifications and a cached block.
C == INSTANCE BlockRequests WITH
    Downloads <- FALSE, Cached <- {"u"}, Notifies <- TRUE, Bound <- 80, NotifyBound <- 25,
    Capacity <- 100, RequestedSize <- 16,
    have <- held, seen <- heldSeen, cached <- heldCached, preCalc <- synced, pendingIds <- queue,
    requested <- marked, toPeer <- sending, fromPeer <- arriving, banned <- bans, work <- tasks

\* Three blocks in a row, two peers of which one has only the first, and the download loop.
T == INSTANCE BlockRequests WITH
    Clients <- {"p", "q"}, Downloads <- TRUE, Blocks <- {"g", "a", "b"},
    Links <- [g |-> <<"zero">>, a |-> <<"g">>, b |-> <<"a">>],
    PeerHas <- [p |-> {"g"}, q |-> {"g", "a", "b"}], PeerTip <- [p |-> "g", q |-> "b"],
    Cached <- {}, Notifies <- FALSE, Bound <- 80, NotifyBound <- 25,
    Capacity <- 100, RequestedSize <- 16,
    have <- held, seen <- heldSeen, cached <- heldCached, preCalc <- synced, pendingIds <- queue,
    requested <- marked, toPeer <- sending, fromPeer <- arriving, banned <- bans, work <- tasks

\* One sender, and a channel with room for no more than the bound.
N == INSTANCE BlockRequests WITH
    Downloads <- FALSE, Notifies <- FALSE, Bound <- 1, NotifyBound <- 1, Capacity <- 1,
    have <- held, seen <- heldSeen, cached <- heldCached, preCalc <- synced, pendingIds <- queue,
    requested <- marked, toPeer <- sending, fromPeer <- arriving, banned <- bans, work <- tasks

-----------------------------------------------------------------------------
(* Blocks that spread between nodes.                                       *)

V == INSTANCE Protocol

\* Along a line of three, two blocks at one height, found at the ends, and one on top of both; nodes of three versions.
G == INSTANCE Broadcast WITH
    Nodes <- {"x", "y", "z"}, Peers <- [x |-> {"y"}, y |-> {"x", "z"}, z |-> {"y"}],
    Version <- [x |-> V!ProtocolVersion_1_1, y |-> V!ProtocolVersion_1_0, z |-> V!ProtocolVersion_0_0],
    Blocks <- {"a", "u", "b"}, Genesis <- "g", Parent <- [a |-> "g", u |-> "g", b |-> "a"],
    Uncles <- [a |-> {}, u |-> {}, b |-> {"u"}], Height <- [g |-> 0, a |-> 1, u |-> 1, b |-> 2],
    Miner <- [a |-> "x", u |-> "z", b |-> "y"], Held <- [n \in {"x", "y", "z"} |-> {}],
    RingSize <- 2, seen <- seenBy, requested <- asked

\* Along the same line, two blocks in a row, found at one end; the other end speaks the newest
\* version.
R == INSTANCE Broadcast WITH
    Nodes <- {"x", "y", "z"}, Peers <- [x |-> {"y"}, y |-> {"x", "z"}, z |-> {"y"}],
    Version <- [x |-> V!ProtocolVersion_1_0, y |-> V!ProtocolVersion_1_0, z |-> V!ProtocolVersion_1_2],
    Blocks <- {"a", "b"}, Genesis <- "g", Parent <- [a |-> "g", b |-> "a"],
    Uncles <- [a |-> {}, b |-> {}], Height <- [g |-> 0, a |-> 1, b |-> 2],
    Miner <- [a |-> "x", b |-> "x"], Held <- [n \in {"x", "y", "z"} |-> {}],
    RingSize <- 2, seen <- seenBy, requested <- asked

\* Two nodes with gaps: one has b without a below it, the other c without b, and finds another
\* block on a.
H == INSTANCE Broadcast WITH
    Nodes <- {"y", "z"}, Peers <- [y |-> {"z"}, z |-> {"y"}],
    Version <- [n \in {"y", "z"} |-> V!ProtocolVersion_1_2],
    Blocks <- {"a", "b", "c", "d"}, Genesis <- "g",
    Parent <- [a |-> "g", b |-> "a", c |-> "b", d |-> "a"],
    Uncles <- [b \in {"a", "b", "c", "d"} |-> {}],
    Height <- [g |-> 0, a |-> 1, b |-> 2, c |-> 3, d |-> 2],
    Miner <- [a |-> "z", b |-> "y", c |-> "z", d |-> "z"],
    Held <- [y |-> {"b"}, z |-> {"a", "c"}], RingSize <- 3, seen <- seenBy, requested <- asked

-----------------------------------------------------------------------------
\* Two shares arrive: 7 with three uncles that are missing, and 8, whose parent is missing.
M == INSTANCE MissingBlocks WITH
    Blocks <- 1 .. 8, Parent <- <<0, 1, 1, 1, 1, 5, 1, 6>>,
    Uncles <- <<<<>>, <<>>, <<>>, <<>>, <<>>, <<3>>, <<2, 3, 4>>, <<>>>>,
    Received <- {7, 8}, Cached <- {5}, asked <- awaited

\* Shares on both sides of the forks; hashes and keys are numbers above every tag and count.
S == INSTANCE ShareTransfer WITH
    Network <- "mainnet", TxIds <- {101, 102}, MaxTxs <- 2, Heights <- {2688887, 2689608},
    Times <- {1679173199, 1679173200}, KeyOf <- 111 :> 121 @@ 113 :> 123, Zero <- 100,
    ParentId <- 131, GrandId <- 132, ShareId <- 133, UncleId <- 134,
    Spend <- 111, View <- 112, Seed <- 113, PreviousId <- 135

-----------------------------------------------------------------------------
Parts == {"bound", "chain", "peers", "channel", "gossip", "relay", "gaps", "missing", "transfer"}

download == <<held, heldSeen, heldCached, synced, queue, marked, sending, arriving, bans, tasks>>
broadcast == <<pool, want, broadcasted, seenBy, ring, outbox, channel, requests, asked>>
missing == <<stored, awaited>>
transfer == <<pc, sent, store, pruned, compact, windowKnown, wire, got, result>>
allVars == <<part, vars, download, broadcast, missing, transfer>>

AllInit ==
    /\ part \in Parts
    /\ Init
    /\ IF part = "peers" THEN T!Init ELSE IF part = "channel" THEN N!Init ELSE C!Init
    /\ IF part = "gaps" THEN H!Init ELSE G!Init
    /\ M!Init
    /\ IF part = "transfer" THEN S!Init
       ELSE /\ pc = "done" /\ sent = None /\ store = <<>> /\ pruned = FALSE /\ compact = FALSE
            /\ windowKnown = FALSE /\ wire = <<>> /\ got = None /\ result = "none"

AllNext ==
    /\ UNCHANGED part
    /\ IF part = "bound" THEN Next ELSE UNCHANGED vars
    /\ IF part = "chain" THEN C!Next
       ELSE IF part = "peers" THEN T!Next
       ELSE IF part = "channel" THEN N!Next ELSE UNCHANGED download
    /\ IF part = "gossip" THEN G!Next
       ELSE IF part = "relay" THEN R!Next
       ELSE IF part = "gaps" THEN H!Next ELSE UNCHANGED broadcast
    /\ IF part = "missing" THEN M!Next ELSE UNCHANGED missing
    /\ IF part = "transfer" THEN S!Next ELSE UNCHANGED transfer

\* The fairness of the modules, each in its part.
ChainFairness ==
    /\ WF_download(part = "chain" /\ C!Answer("p"))
    /\ WF_download(part = "chain" /\ C!Reader("p"))
    /\ WF_download(part = "chain" /\ C!Sending("p"))

PeersFairness ==
    /\ \A c \in {"p", "q"} : /\ WF_download(part = "peers" /\ T!Answer(c))
                             /\ WF_download(part = "peers" /\ T!Reader(c))
    /\ \A s \in {"p", "q", "loop"} : WF_download(part = "peers" /\ T!Sending(s))
    /\ WF_download(part = "peers" /\ T!DownloadMissingBlocks)
    /\ WF_download(part = "peers" /\ T!SendUniqueBlockRequest)

MissingFairness ==
    /\ WF_missing(part = "missing" /\ M!DownloadMissingBlocks)
    /\ \A b \in 1 .. 8 : WF_missing(part = "missing" /\ M!Answer(b))

AllSpec ==
    /\ AllInit /\ [][AllNext]_allVars
    /\ ChainFairness /\ PeersFairness /\ MissingFairness
    /\ WF_broadcast(part = "relay" /\ R!Delivers)
    /\ WF_broadcast(part = "gaps" /\ H!Delivers)
    /\ \A n \in {"y", "z"} : WF_broadcast(part = "gaps" /\ H!DownloadMissingBlocks(n))

-----------------------------------------------------------------------------
(* What the modules promise, each on the part it is about.                 *)

\* No goroutine waits for room in the queue of a client (NoSenderWaits), be it one whose channel
\* ends at the bound or two that race for it, and with one sender no peer that answers is banned
\* (HonestPeerIsKept) (client.go:189-248, 485-569).
RequestsGoThrough ==
    /\ NoSenderWaits
    /\ part = "channel" => N!NoSenderWaits
    /\ part = "chain" => C!HonestPeerIsKept

\* What a broadcast leaves out can be restored, by nodes with gaps too unless the sender was told
\* of blocks by an answer (PartialBlocksAreRestored), since a peer has the blocks in its
\* BroadcastedHashes, or ones that build on them (KnownIsNamed) (server.go:799-895,
\* client.go:474-482, 816); and a share arrives as it was sent, whenever its parent and window
\* are known (ArrivesAsSent, ArrivesWhenKnown of ShareTransfer; poolblock.go:485-626).
SharesArriveWhole ==
    /\ part = "gossip" => G!PartialBlocksAreRestored /\ G!KnownIsNamed
    /\ part = "relay" => R!PartialBlocksAreRestored /\ R!KnownIsNamed
    /\ part = "gaps" => H!PartialBlocksAreRestored /\ H!KnownIsNamed
    /\ part = "transfer" => S!ArrivesAsSent /\ S!ArrivesWhenKnown

\* Every block of the peers arrives and stays, unless one is banned (Downloaded), and the node
\* ends up with every share that received ones build on (CaughtUp); a block that a node finds
\* reaches every node (BlocksSpread), and nodes with gaps fill them from each other (client.go:189-219, server.go:466-492, 799-895,
\* sidechain.go:1021-1054).
BlocksArrive ==
    /\ <>[](part = "chain" => C!Downloaded)
    /\ <>[](part = "peers" => T!Downloaded)
    /\ <>[](part = "missing" => M!CaughtUp)
    /\ <>[](part = "relay" => \A b \in {"a", "b"} : R!Found(b) => R!Everywhere(b))
    /\ <>[](part = "gaps" => \A b \in {"a", "b", "c"} : H!Everywhere(b))
====
