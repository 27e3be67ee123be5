---------------------------- MODULE Handshake ----------------------------
(***************************************************************************)
(* How two P2Pool nodes set up their connections: dialling and accepting   *)
(* (p2pool/p2p/server.go), the challenge and solution exchange, the search *)
(* for another connection to the same peer, closing and banning            *)
(* (p2pool/p2p/client.go, challenge.go).                                   *)
(*                                                                         *)
(* A connection has two ends, one Client object in each node; an end's     *)
(* reader goroutine is a process, and so are every DirectConnect call and  *)
(* each node's accept loop.  The ends exchange messages through a FIFO     *)
(* stream per direction.  A node stands for its address and its peer id.   *)
(***************************************************************************)
EXTENDS Integers, Sequences

CONSTANTS
    Nodes,        \* the nodes, none at a loopback address
    Conns,        \* the connection attempts of the run
    Initiator,    \* Conns -> Nodes: who dials
    Acceptor,     \* Conns -> Nodes: who is dialled (may be the initiator itself)
    ConsensusId,  \* Nodes -> the pool a node belongs to
    Syncing,      \* the nodes that have missing blocks to download
    MaxTimeouts,  \* bound: how many idle connections are closed
    MaxWire       \* bound: how far a downloading node fills a stream

\* Every connection attempt is between two nodes.
HandshakeAssumption ==
    /\ Initiator \in [Conns -> Nodes]
    /\ Acceptor \in [Conns -> Nodes]
    /\ MaxTimeouts \in Nat

VARIABLES
    state,        \* of an end: none, dialing, dialed, backlog, accepted, open,
                  \* closed
    stage,        \* of an end's reader: read, stored, solve
    expected,     \* Client.expectedMessage
    complete,     \* Client.HandshakeComplete
    sent,         \* Client.SentHandshakeSolution
    peerId,       \* Client.PeerId, NoPeer until a challenge tells it
    listenPort,   \* Client.ListenPort is known
    wire,         \* the messages on their way to an end
    pending,      \* Server.PendingOutgoingConnections, as a set
    peerList,     \* Server.peerList, as a set
    banned,       \* Server.bans
    bans,         \* every ban so far: who, whom and why
    timeouts      \* idle connections closed so far

conn == <<state, stage, expected, complete, sent, peerId, listenPort>>
server == <<pending, peerList, banned, bans>>
vars == <<conn, wire, server, timeouts>>

NoPeer == "nobody"

Ends == Conns \X {"out", "in"}

Out(c) == <<c, "out">>
In(c) == <<c, "in">>
IsIncoming(e) == e[2] = "in"
Peer(e) == IF IsIncoming(e) THEN Out(e[1]) ELSE In(e[1])
Owner(e) == IF IsIncoming(e) THEN Acceptor[e[1]] ELSE Initiator[e[1]]
Remote(e) == Owner(Peer(e))

Challenge(n) == [type |-> "challenge", from |-> n]
Solution(e, id, pow) == [type |-> "solution", to |-> e, id |-> id, pow |-> pow]
ListenPort == [type |-> "port"]
BlockRequest == [type |-> "request"]
Messages == {Challenge(n) : n \in Nodes} \cup 
    {Solution(e, ConsensusId[n], p) : e \in Ends, n \in Nodes, p \in BOOLEAN} \cup {ListenPort, BlockRequest}

TypeOK ==
    /\ state \in [Ends -> {"none", "dialing", "dialed", "backlog", "accepted", "open", "closed"}]
    /\ stage \in [Ends -> {"read", "stored", "solve"}]
    /\ expected \in [Ends -> {"challenge", "solution"}]
    /\ complete \in [Ends -> BOOLEAN]
    /\ sent \in [Ends -> BOOLEAN]
    /\ peerId \in [Ends -> Nodes \cup {NoPeer}]
    /\ listenPort \in [Ends -> BOOLEAN]
    /\ wire \in [Ends -> Seq(Messages)]
    /\ pending \in [Nodes -> SUBSET Nodes]
    /\ peerList \in [Nodes -> SUBSET Nodes]
    /\ banned \in [Nodes -> SUBSET Nodes]
    /\ timeouts \in 0 .. MaxTimeouts

Init ==
    /\ state = [e \in Ends |-> "none"]
    /\ stage = [e \in Ends |-> "read"]
    /\ expected = [e \in Ends |-> "challenge"]
    /\ complete = [e \in Ends |-> FALSE]
    /\ sent = [e \in Ends |-> FALSE]
    /\ peerId = [e \in Ends |-> NoPeer]
    /\ listenPort = [e \in Ends |-> FALSE]
    /\ wire = [e \in Ends |-> <<>>]
    /\ pending = [n \in Nodes |-> {}]
    /\ peerList = [n \in Nodes |-> {}]
    /\ banned = [n \in Nodes |-> {}]
    /\ bans = {}
    /\ timeouts = 0

---------------------------------------------------------------------------
(* Server.clients of a node are its open ends.                             *)

Clients(n) == {e \in Ends : state[e] = "open" /\ Owner(e) = n}

GetAddressConnected(n, m) == {e \in Clients(n) : Remote(e) = m}

IsGood(e) == state[e] = "open" /\ complete[e] /\ listenPort[e]

\* Mutant: the ban closes only the connection it was raised on.
BanClosesOnlyThis(e) == {e}

\* The connections that Server.Ban closes; a peer that is banned already is left alone.
BanCloses(e) ==
    {e} \cup IF Remote(e) \in banned[Owner(e)] THEN {}
             ELSE GetAddressConnected(Owner(e), Remote(e))

\* Client.Close on each of the ends in S: out of the list, out of the pending dials.
Closed(S) ==
    /\ state' = [e \in Ends |-> IF e \in S THEN "closed" ELSE state[e]]
    /\ pending' = [n \in Nodes |->
                     pending[n] \ {Remote(e) : e \in {d \in S : Owner(d) = n /\ ~IsIncoming(d)}}]

\* Client.Ban: the peer is banned, all its connections closed, its address forgotten.
Ban(e, why) ==
    /\ Closed(BanCloses(e))
    /\ banned' = [banned EXCEPT ![Owner(e)] = @ \cup {Remote(e)}]
    /\ bans' = bans \cup {<<Owner(e), Remote(e), why>>}
    /\ peerList' = [peerList EXCEPT ![Owner(e)] = @ \ {Remote(e)}]

\* Client.Close: an end whose handshake is not complete bans the peer first.
Close(e) ==
    IF complete'[e] THEN Closed({e}) /\ UNCHANGED <<peerList, banned, bans>>
    ELSE Ban(e, "disconnected before finishing handshake")

Send(e, msgs) == wire' = [wire EXCEPT ![Peer(e)] = @ \o msgs]

---------------------------------------------------------------------------
(* Dialling and accepting.                                                 *)

\* Connect and DirectConnect up to the dial.
Dial(c) ==
    /\ state[Out(c)] = "none"
    /\ Acceptor[c] \notin banned[Initiator[c]]
    /\ GetAddressConnected(Initiator[c], Acceptor[c]) = {}
    /\ Acceptor[c] \notin pending[Initiator[c]]
    /\ pending' = [pending EXCEPT ![Initiator[c]] = @ \cup {Acceptor[c]}]
    /\ state' = [state EXCEPT ![Out(c)] = "dialing"]
    /\ UNCHANGED <<stage, expected, complete, sent, peerId, listenPort, wire,
                   peerList, banned, bans, timeouts>>

\* The dial fails: DirectConnect takes the address out of the pending ones.
DialFails(c) ==
    /\ state[Out(c)] = "dialing"
    /\ Closed({Out(c)})
    /\ UNCHANGED <<stage, expected, complete, sent, peerId, listenPort, wire,
                   peerList, banned, bans, timeouts>>

\* The network connects the two: the accept loop may run before the dialler goes on.
Connected(c) ==
    /\ state[Out(c)] = "dialing"
    /\ state' = [state EXCEPT ![Out(c)] = "dialed", ![In(c)] = "backlog"]
    /\ UNCHANGED <<stage, expected, complete, sent, peerId, listenPort, wire, server, timeouts>>

\* The dial succeeded: a Client is added and its OnConnection sends the challenge.
DialDone(c) ==
    /\ state[Out(c)] = "dialed"
    /\ state' = [state EXCEPT ![Out(c)] = "open"]
    /\ Send(Out(c), <<Challenge(Initiator[c])>>)
    /\ UNCHANGED <<stage, expected, complete, sent, peerId, listenPort, server, timeouts>>

\* The checks of the accept loop; a connection they refuse is closed.
AcceptCheck(c) ==
    /\ state[In(c)] = "backlog"
    /\ \A d \in Conns : Acceptor[d] = Acceptor[c] => state[In(d)] # "accepted"
    /\ state' = [state EXCEPT ![In(c)] =
                   IF \/ GetAddressConnected(Acceptor[c], Initiator[c]) # {}
                      \/ Initiator[c] \in banned[Acceptor[c]]
                   THEN "closed" ELSE "accepted"]
    /\ UNCHANGED <<stage, expected, complete, sent, peerId, listenPort, wire, server, timeouts>>

\* The accept loop adds the Client, and its OnConnection sends the challenge.
AcceptAppend(c) ==
    /\ state[In(c)] = "accepted"
    /\ state' = [state EXCEPT ![In(c)] = "open"]
    /\ Send(In(c), <<Challenge(Acceptor[c])>>)
    /\ UNCHANGED <<stage, expected, complete, sent, peerId, listenPort, server, timeouts>>

---------------------------------------------------------------------------
(* The reader of an end: one message at a time.                            *)

Reading(e) == state[e] = "open" /\ stage[e] = "read"

Receives(e, type) == Reading(e) /\ wire[e] # <<>> /\ Head(wire[e]).type = type

\* The message comes when it may not: an honest node bans.
OutOfTurn(e, type) ==
    \/ ~complete[e] /\ type # expected[e]
    \/ complete[e] /\ type \in {"challenge", "solution"}
    \/ type = "port" /\ listenPort[e]

ReadOutOfTurn(e) ==
    /\ Reading(e)
    /\ wire[e] # <<>>
    /\ OutOfTurn(e, Head(wire[e]).type)
    /\ Ban(e, "unexpected message")
    /\ wire' = [wire EXCEPT ![e] = Tail(@)]
    /\ UNCHANGED <<stage, expected, complete, sent, peerId, listenPort, timeouts>>

\* Mutant: the challenge and the peer id are read in the wrong order.
SwappedPeerId(m) == m.type

\* The peer id a challenge carries.
ChallengePeerId(m) == m.from

\* HANDSHAKE_CHALLENGE, first half: our own id closes the connection, another is stored.
ReadChallenge(e) ==
    /\ Receives(e, "challenge")
    /\ ~OutOfTurn(e, "challenge")
    /\ LET id == ChallengePeerId(Head(wire[e])) IN
       \/ /\ id = Owner(e)
          /\ complete' = [complete EXCEPT ![e] = TRUE]
          /\ Close(e)
          /\ UNCHANGED <<peerId, stage>>
       \/ /\ id # Owner(e)
          /\ peerId' = [peerId EXCEPT ![e] = id]
          /\ stage' = [stage EXCEPT ![e] = "stored"]
          /\ UNCHANGED <<complete, state, server>>
    /\ wire' = [wire EXCEPT ![e] = Tail(@)]
    /\ UNCHANGED <<expected, sent, listenPort, timeouts>>

\* Mutant: only connections that finished their handshake count as the same peer.
SamePeerFinished(e) == {f \in Clients(Owner(e)) \ {e} : peerId[f] = peerId[e] /\ complete[f]}

\* The other connections of the node with the peer id of e.
SamePeer(e) == {f \in Clients(Owner(e)) \ {e} : peerId[f] = peerId[e]}

\* HANDSHAKE_CHALLENGE, second half: under the clients' lock, look for the same peer.
LookForSamePeer(e) ==
    /\ state[e] = "open"
    /\ stage[e] = "stored"
    /\ \/ /\ SamePeer(e) # {}
          /\ complete' = [complete EXCEPT ![e] = TRUE]
          /\ Close(e)
          /\ UNCHANGED stage
       \/ /\ SamePeer(e) = {}
          /\ stage' = [stage EXCEPT ![e] = "solve"]
          /\ UNCHANGED <<complete, state, server>>
    /\ UNCHANGED <<expected, sent, peerId, listenPort, wire, timeouts>>

\* Mutant: LISTEN_PORT is sent with the solution, before the peer's own is checked.
SendSolutionAndPort(e) ==
    /\ state[e] = "open"
    /\ stage[e] = "solve"
    /\ Send(e, <<Solution(Peer(e), ConsensusId[Owner(e)], TRUE), ListenPort>>)
    /\ sent' = [sent EXCEPT ![e] = TRUE]
    /\ expected' = [expected EXCEPT ![e] = "solution"]
    /\ stage' = [stage EXCEPT ![e] = "read"]
    /\ UNCHANGED <<state, complete, peerId, listenPort, server, timeouts>>

\* sendHandshakeSolution: the dialling side searches for a proof of work, the accepting
\* side answers with the first salt it tries.
SendSolution(e) ==
    /\ state[e] = "open"
    /\ stage[e] = "solve"
    /\ \E pow \in BOOLEAN :
          /\ ~IsIncoming(e) => pow
          /\ Send(e, <<Solution(Peer(e), ConsensusId[Owner(e)], pow)>>)
    /\ sent' = [sent EXCEPT ![e] = TRUE]
    /\ expected' = [expected EXCEPT ![e] = "solution"]
    /\ stage' = [stage EXCEPT ![e] = "read"]
    /\ UNCHANGED <<state, complete, peerId, listenPort, server, timeouts>>

\* Mutant: both sides ask for proof of work.
SolvesWithWork(e, m) == m.to = e /\ m.id = ConsensusId[Owner(e)] /\ m.pow

\* Mutant: the pool is left out of the hash.
SolvesAnyPool(e, m) == m.to = e /\ (IsIncoming(e) => m.pow)

\* CalculateChallengeHash gives the hash of the message: the challenge, the pool and the salt
\* are the same.  Only the accepting side also asks for proof of work.
Solves(e, m) == m.to = e /\ m.id = ConsensusId[Owner(e)] /\ (IsIncoming(e) => m.pow)

\* HANDSHAKE_SOLUTION with a right answer, and OnAfterHandshake.
ReadSolution(e) ==
    /\ Receives(e, "solution")
    /\ ~OutOfTurn(e, "solution")
    /\ Solves(e, Head(wire[e]))
    /\ complete' = [complete EXCEPT ![e] = TRUE]
    /\ wire' = [wire EXCEPT ![e] = Tail(@),
                  ![Peer(e)] = IF sent[e] THEN @ \o <<ListenPort, BlockRequest>> ELSE @]
    /\ UNCHANGED <<state, stage, expected, sent, peerId, listenPort, server, timeouts>>

\* Mutant: a wrong solution is dropped.
IgnoreBadSolution(e) ==
    /\ Receives(e, "solution")
    /\ ~OutOfTurn(e, "solution")
    /\ ~Solves(e, Head(wire[e]))
    /\ wire' = [wire EXCEPT ![e] = Tail(@)]
    /\ UNCHANGED <<conn, server, timeouts>>

\* HANDSHAKE_SOLUTION with a wrong one.
ReadBadSolution(e) ==
    /\ Receives(e, "solution")
    /\ ~OutOfTurn(e, "solution")
    /\ ~Solves(e, Head(wire[e]))
    /\ Ban(e, "wrong solution")
    /\ wire' = [wire EXCEPT ![e] = Tail(@)]
    /\ UNCHANGED <<stage, expected, complete, sent, peerId, listenPort, timeouts>>

\* LISTEN_PORT, and UpdateInPeerList.
ReadListenPort(e) ==
    /\ Receives(e, "port")
    /\ ~OutOfTurn(e, "port")
    /\ listenPort' = [listenPort EXCEPT ![e] = TRUE]
    /\ peerList' = [peerList EXCEPT ![Owner(e)] = @ \cup {Remote(e)}]
    /\ wire' = [wire EXCEPT ![e] = Tail(@)]
    /\ UNCHANGED <<state, stage, expected, complete, sent, peerId, pending, banned, bans, timeouts>>

\* BLOCK_REQUEST after the handshake: answered outside this module.
ReadBlockRequest(e) ==
    /\ Receives(e, "request")
    /\ ~OutOfTurn(e, "request")
    /\ wire' = [wire EXCEPT ![e] = Tail(@)]
    /\ UNCHANGED <<conn, server, timeouts>>

\* Mutant: a failed read ends the reader without Close once the handshake is complete.
ReadErrorNoClose(e) ==
    /\ Reading(e)
    /\ state[Peer(e)] = "closed"
    /\ ~complete[e]
    /\ UNCHANGED <<stage, expected, complete, sent, peerId, listenPort, wire, timeouts>>
    /\ Close(e)

\* The read fails: the other end is closed (data that was under way may be lost with it).
ReadError(e) ==
    /\ Reading(e)
    /\ state[Peer(e)] = "closed"
    /\ UNCHANGED <<stage, expected, complete, sent, peerId, listenPort, wire, timeouts>>
    /\ Close(e)

---------------------------------------------------------------------------
(* Other goroutines of a node that touch a connection.                     *)

\* UpdateClientConnections closes a connection that was idle for too long.
IdleTimeout(e) ==
    /\ state[e] = "open"
    /\ timeouts < MaxTimeouts
    /\ timeouts' = timeouts + 1
    /\ UNCHANGED <<stage, expected, complete, sent, peerId, listenPort, wire>>
    /\ Close(e)

\* DownloadMissingBlocks asks any client of the list for a block.
DownloadMissing(e) ==
    /\ state[e] = "open"
    /\ Owner(e) \in Syncing
    /\ Len(wire[Peer(e)]) < MaxWire
    /\ Send(e, <<BlockRequest>>)
    /\ UNCHANGED <<conn, server, timeouts>>

Reader(e) ==
    \/ ReadOutOfTurn(e) \/ ReadChallenge(e) \/ LookForSamePeer(e) \/ SendSolution(e)
    \/ ReadSolution(e) \/ ReadBadSolution(e) \/ ReadListenPort(e) \/ ReadBlockRequest(e)
    \/ ReadError(e)

Dialler(c) == DialFails(c) \/ Connected(c) \/ DialDone(c)
Listener(c) == AcceptCheck(c) \/ AcceptAppend(c)

Next ==
    \/ \E c \in Conns : Dial(c) \/ Dialler(c) \/ Listener(c)
    \/ \E e \in Ends : Reader(e) \/ IdleTimeout(e) \/ DownloadMissing(e)

\* Goroutines that can run do run, and a dial ends one way or the other within its timeout.
Fairness ==
    /\ \A c \in Conns : WF_vars(Dialler(c)) /\ WF_vars(Listener(c))
    /\ \A e \in Ends : WF_vars(Reader(e))

Spec == Init /\ [][Next]_vars /\ Fairness

---------------------------------------------------------------------------
(* Properties.                                                             *)

\* The end has passed the search for another connection to its peer.
Passed(e) == state[e] = "open" /\ peerId[e] # NoPeer /\ stage[e] # "stored"

\* However the two halves of HANDSHAKE_CHALLENGE interleave (PeerId.Store, then the search
\* under clientsLock, client.go:361-379), a node never keeps two connections to the same
\* peer id past the search.
OneConnectionPerPeer ==
    \A e, f \in Ends :
        Passed(e) /\ Passed(f) /\ Owner(e) = Owner(f) /\ peerId[e] = peerId[f] => e = f

\* An end that counts its peer as good (IsGood, client.go:310-312) is talking to an end that
\* has accepted its own solution, in the same pool: LISTEN_PORT is only sent by
\* OnAfterHandshake.
GoodMeansAccepted ==
    \A e \in Ends : 
        IsGood(e) => /\ complete[Peer(e)]
                     /\ sent[e]
                     /\ peerId[e] = Remote(e)
                     /\ ConsensusId[Owner(e)] = ConsensusId[Remote(e)]

\* Nodes of one pool that follow the protocol only ever ban each other for a connection that ended in
\* the middle of the handshake (client.go:952-954): never for a message out of turn
\* (client.go:330-333, 337-340, 390-393, 430-433) nor for a wrong solution (client.go:406-422).
OnlyDisconnectsAreBanned ==
    \A b \in bans :
        ConsensusId[b[1]] = ConsensusId[b[2]] => b[3] = "disconnected before finishing handshake"

\* When Server.Ban adds a ban (server.go:738-770), no connection to that address is left in
\* the list, whichever of them it was raised on.
BanClosesEveryConnection ==
    \A n, m \in Nodes : m \in banned'[n] \ banned[n] => GetAddressConnected(n, m)' = {}

\* No connection is stuck in the middle of the handshake, or open at one end only: once the
\* attempts of the run are over, each end is good with the other end still open, or closed.
ConnectionsSettle ==
    <>[](\A e \in Ends : state[e] = "open" => IsGood(e) /\ state[Peer(e)] # "closed")
====
