------------------------------- MODULE MCPeers -------------------------------
(***************************************************************************)
(* How nodes find each other: the connections one server keeps (module     *)
(* Connections), the handshake between two nodes and the exchange of peer  *)
(* lists.  A behaviour is of one of them, named by "part"; the variables   *)
(* of the others stay as they are.                                         *)
(***************************************************************************)
EXTENDS Connections

VARIABLES
    part,
    state, stage, expected, complete, sent, peerId, listenPort, wire, dialled, known, banned,
    reasons, timeouts,
    peers, addresses, protocol, told, message, learned, version

-----------------------------------------------------------------------------
\* A node that nobody dials; monerod knows one of the two addresses.
A == INSTANCE Connections WITH
    MoneroPeers <- {"b"}, Callers <- {}, MaxOutgoingPeers <- 1, MaxIncomingPeers <- 0, MaxFailed <- 1

\* Two nodes of one pool dial each other.
X == INSTANCE Handshake WITH
    Nodes <- {"a", "b"}, Conns <- {1, 2}, Initiator <- <<"a", "b">>, Acceptor <- <<"b", "a">>,
    ConsensusId <- [a |-> "main", b |-> "main"], Syncing <- {}, MaxTimeouts <- 1, MaxWire <- 2,
    pending <- dialled, peerList <- known, bans <- reasons

\* A node that downloads blocks dials one of another pool, and itself.
Y == INSTANCE Handshake WITH
    Nodes <- {"a", "b"}, Conns <- {1, 2}, Initiator <- <<"a", "a">>, Acceptor <- <<"b", "a">>,
    ConsensusId <- [a |-> "main", b |-> "mini"], Syncing <- {"a"}, MaxTimeouts <- 0, MaxWire <- 2,
    pending <- dialled, peerList <- known, bans <- reasons

\* The responder's clients are the requester, a private and a public address, one that has not
\* shaken hands and loopback; or the requester alone.
E == INSTANCE PeerExchange WITH
    V4 <- {"r", "p", "a", "b", "n", "l"}, V6 <- {"x", "y"}, Loopback <- {"l"}, Private <- {"p"},
    NotGood <- {"n"}, Requester <- "r", ClientLists <- {<<"r", "p", "a", "n", "l">>, <<"r">>},
    PeerLists <- SUBSET {"r", "a", "b", "x", "y"} \ {{}}, PeerListResponseMaxPeers <- 3,
    clients <- peers, peerList <- addresses

ASSUME X!HandshakeAssumption /\ Y!HandshakeAssumption /\ E!ListAssumption

-----------------------------------------------------------------------------
Parts == {"connections", "alone", "cross", "strangers", "exchange"}

handshake == <<state, stage, expected, complete, sent, peerId, listenPort, wire, dialled, known,
               banned, reasons, timeouts>>
exchange == <<peers, addresses, protocol, told, message, learned, version>>
allVars == <<part, vars, handshake, exchange>>

AllInit ==
    /\ part \in Parts
    /\ IF part = "alone" THEN A!Init ELSE Init
    /\ X!Init
    /\ IF part = "exchange" THEN E!Init
       ELSE /\ peers = <<>> /\ addresses = {} /\ protocol = 0 /\ told = FALSE
            /\ message = <<>> /\ learned = {} /\ version = 0

AllNext ==
    /\ UNCHANGED part
    /\ IF part = "connections" THEN Next ELSE IF part = "alone" THEN A!Next ELSE UNCHANGED vars
    /\ IF part = "cross" THEN X!Next ELSE IF part = "strangers" THEN Y!Next ELSE UNCHANGED handshake
    /\ IF part = "exchange" THEN E!Next ELSE UNCHANGED exchange

\* The fairness of the modules, each in its part.
AloneFairness ==
    /\ WF_vars(part = "alone" /\ (A!CopyPeerList \/ A!WritePeerList \/ A!StartDials \/ A!UpdateReturns))
    /\ \A t \in Tasks : WF_vars(part = "alone" /\ A!Dialing(t))
    /\ \A a \in Addrs : WF_vars(part = "alone" /\ A!BanExpires(a))
    /\ SF_vars(part = "alone" /\ A!MonerodAnswers)

Dialler(c) == \/ part = "cross" /\ X!Dialler(c)
              \/ part = "strangers" /\ Y!Dialler(c)
Listener(c) == \/ part = "cross" /\ X!Listener(c)
               \/ part = "strangers" /\ Y!Listener(c)
Reader(e) == \/ part = "cross" /\ X!Reader(e)
             \/ part = "strangers" /\ Y!Reader(e)

HandshakeFairness ==
    /\ \A c \in {1, 2} : WF_handshake(Dialler(c)) /\ WF_handshake(Listener(c))
    /\ \A e \in X!Ends : WF_handshake(Reader(e))

AllSpec ==
    /\ AllInit /\ [][AllNext]_allVars
    /\ AloneFairness /\ HandshakeFairness

-----------------------------------------------------------------------------
(* What the modules promise, each on the part it is about.                 *)
(* ConnectionsAreCounted of Connections holds in every part.               *)

\* Dials lead to one connection and no more: without the peers of monerod a server never dials an
\* address twice at a time (Connections!OneDialPerAddress); however the dials of two nodes cross,
\* one connection survives the search for the same peer id (OneConnectionPerPeer), a good peer has
\* accepted us, in the same pool (GoodMeansAccepted), and nodes of one pool ban each other for
\* nothing but a broken connection (OnlyDisconnectsAreBanned) (server.go:376-438, 602-679,
\* client.go:315-447).
DialsAreSafe ==
    /\ part = "connections" => OneDialPerAddress
    /\ part = "cross" => X!TypeOK /\ X!OneConnectionPerPeer /\ X!OnlyDisconnectsAreBanned
                         /\ X!GoodMeansAccepted
    /\ part = "strangers" => Y!GoodMeansAccepted

\* Every request for peers has a response that is accepted (RequestsAreAnswered), and it holds
\* addresses that the responder knows (LearnsWhatIsKnown) (client.go:673-806).
PeersAreTold ==
    [][part = "exchange" => E!RequestsAreAnswered /\ E!LearnsWhatIsKnown']_exchange

\* Connections do not stay half open: each end becomes good or is closed (ConnectionsSettle), and
\* a ban closes all of that address (BanClosesEveryConnection); a node without connections keeps
\* dialling (KeepsTrying) (client.go:315-447, server.go:289-440, 738-770).
NodesConnect ==
    /\ [][part = "cross" => X!BanClosesEveryConnection]_handshake
    /\ part \in {"cross", "strangers"} => X!ConnectionsSettle
    /\ part = "alone" => A!KeepsTrying
====
