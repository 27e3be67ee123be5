---------------------------- MODULE HandshakeProofs ----------------------------
(***************************************************************************)
(* What the handshake guarantees between any number of nodes, over any     *)
(* number of connections, however their goroutines interleave: a node      *)
(* keeps one connection to a peer, a good peer has accepted us, a ban      *)
(* closes every connection to its address, and nodes of one pool never     *)
(* take each other for misbehaving.                                        *)
(***************************************************************************)
EXTENDS Handshake, TLAPS

---------------------------------------------------------------------------
(* Streams, ends and messages.                                             *)

\* Taking the first element of a sequence.
LEMMA SeqFacts ==
    ASSUME NEW S, NEW s \in Seq(S)
    PROVE  /\ Len(s) \in Nat
           /\ \A i \in 1 .. Len(s) : s[i] \in S
           /\ s # <<>> => /\ Len(s) \in Nat \ {0}
                          /\ Head(s) = s[1] /\ Head(s) \in S
                          /\ Tail(s) \in Seq(S) /\ Len(Tail(s)) = Len(s) - 1
                          /\ \A i \in 1 .. Len(s) - 1 : Tail(s)[i] = s[i + 1]
  OBVIOUS

\* Joining two.
LEMMA JoinFacts ==
    ASSUME NEW S, NEW s \in Seq(S), NEW t \in Seq(S)
    PROVE  /\ s \o t \in Seq(S)
           /\ Len(s \o t) = Len(s) + Len(t)
           /\ \A i \in 1 .. Len(s) + Len(t) :
                 (s \o t)[i] = IF i <= Len(s) THEN s[i] ELSE t[i - Len(s)]
  OBVIOUS

\* The two ends of a connection, and whose they are.
LEMMA EndFacts ==
    ASSUME HandshakeAssumption, NEW e \in Ends
    PROVE  /\ Peer(e) \in Ends
           /\ Peer(e) # e
           /\ Peer(Peer(e)) = e
           /\ Owner(e) \in Nodes
           /\ Remote(e) \in Nodes
           /\ Remote(Peer(e)) = Owner(e)
           /\ IsIncoming(Peer(e)) => ~IsIncoming(e)
<1>1. PICK c \in Conns, d \in {"out", "in"} : e = <<c, d>>
  BY DEF Ends
<1>2. e[1] = c /\ e[2] = d
  BY <1>1, Zenon
<1>3. Out(c) \in Ends /\ In(c) \in Ends /\ Out(c) # In(c)
  BY Zenon DEF Ends, Out, In
<1>4. Initiator[c] \in Nodes /\ Acceptor[c] \in Nodes
  BY Zenon DEF HandshakeAssumption
<1>5. /\ Peer(Out(c)) = In(c)
      /\ Peer(In(c)) = Out(c)
      /\ Owner(Out(c)) = Initiator[c]
      /\ Owner(In(c)) = Acceptor[c]
      /\ ~IsIncoming(Out(c))
  BY Zenon DEF Peer, Owner, IsIncoming, Out, In
<1>6. e = Out(c) \/ e = In(c)
  BY <1>1, Zenon DEF Out, In
<1> QED
  BY <1>3, <1>4, <1>5, <1>6, Zenon DEF Remote

\* The ends of one connection.
LEMMA ConnFacts ==
    ASSUME NEW c \in Conns
    PROVE  /\ Out(c) \in Ends
           /\ In(c) \in Ends
           /\ Out(c) # In(c)
           /\ Peer(Out(c)) = In(c)
           /\ Peer(In(c)) = Out(c)
           /\ Owner(Out(c)) = Initiator[c]
           /\ Owner(In(c)) = Acceptor[c]
           /\ IsIncoming(In(c))
           /\ ~IsIncoming(Out(c))
  BY Zenon DEF Ends, Out, In, Peer, Owner, IsIncoming

\* Different connections have different ends.
LEMMA EndsDiffer ==
    ASSUME NEW c \in Conns, NEW d \in Conns
    PROVE  /\ Out(c) # In(d)
           /\ Out(c) = Out(d) => c = d
           /\ In(c) = In(d) => c = d
  BY Zenon DEF Out, In

\* What the kind of a message says of it.
LEMMA MessageKinds ==
    ASSUME NEW m \in Messages
    PROVE  /\ m.type \in {"challenge", "solution", "port", "request"}
           /\ m.type = "challenge" => \E n \in Nodes : m = Challenge(n) /\ m.from = n
           /\ m.type = "solution" =>
                 \E f \in Ends, n \in Nodes, p \in BOOLEAN : m = Solution(f, ConsensusId[n], p)
           /\ m.type = "port" => m = ListenPort
           /\ m.type = "request" => m = BlockRequest
<1>1. \/ \E n \in Nodes : m = Challenge(n)
      \/ \E f \in Ends, n \in Nodes, p \in BOOLEAN : m = Solution(f, ConsensusId[n], p)
      \/ m = ListenPort
      \/ m = BlockRequest
  BY DEF Messages
<1>2. \A n : Challenge(n).type = "challenge" /\ Challenge(n).from = n
  BY Zenon DEF Challenge
<1>3. \A f, i, p : Solution(f, i, p).type = "solution"
  BY Zenon DEF Solution
<1>4. ListenPort.type = "port" /\ BlockRequest.type = "request"
  BY Zenon DEF ListenPort, BlockRequest
<1> QED
  BY <1>1, <1>2, <1>3, <1>4

\* The messages an end sends are messages.
LEMMA SentMessages ==
    ASSUME HandshakeAssumption, NEW e \in Ends
    PROVE  /\ Challenge(Owner(e)) \in Messages
           /\ \A p \in BOOLEAN : Solution(Peer(e), ConsensusId[Owner(e)], p) \in Messages
           /\ ListenPort \in Messages
           /\ BlockRequest \in Messages
  BY EndFacts DEF Messages

---------------------------------------------------------------------------
(* Types.                                                                  *)

\* What a step does to the states of the ends when it closes some of them.
OnlyCloses == \A f \in Ends :
    \/ state'[f] = state[f]
    \/ state[f] \in {"open", "dialing"} /\ state'[f] = "closed"

\* The tables of a node have their types.
ServerType ==
    /\ pending \in [Nodes -> SUBSET Nodes]
    /\ peerList \in [Nodes -> SUBSET Nodes]
    /\ banned \in [Nodes -> SUBSET Nodes]

States == {"none", "dialing", "dialed", "backlog", "accepted", "open", "closed"}

\* Closing ends that are open keeps the types.
LEMMA ClosedTypes ==
    ASSUME TypeOK, NEW S, \A f \in S : state[f] \in {"open", "dialing"}, Closed(S)
    PROVE  /\ state' \in [Ends -> States]
           /\ pending' \in [Nodes -> SUBSET Nodes]
           /\ OnlyCloses
           /\ \A f \in S \cap Ends : state'[f] = "closed"
<1>1. state' = [f \in Ends |-> IF f \in S THEN "closed" ELSE state[f]]
  BY Zenon DEF Closed
<1>2. state \in [Ends -> States]
  BY Zenon DEF TypeOK, States
<1>3. state' \in [Ends -> States]
  BY <1>1, <1>2, Zenon DEF States
<1>4. OnlyCloses /\ \A f \in S \cap Ends : state'[f] = "closed"
  BY <1>1, Zenon DEF OnlyCloses
<1>5. \A n \in Nodes : pending[n] \subseteq Nodes
  BY Zenon DEF TypeOK
<1>6. pending' \in [Nodes -> SUBSET Nodes]
  <2> DEFINE Dialled(n) == {Remote(f) : f \in {d \in S : Owner(d) = n /\ ~IsIncoming(d)}}
  <2>1. pending' = [n \in Nodes |-> pending[n] \ Dialled(n)]
    BY Zenon DEF Closed
  <2> HIDE DEF Dialled
  <2> QED
    BY <1>5, <2>1, Zenon
<1> QED
  BY <1>3, <1>4, <1>6, Zenon

\* A ban, or the end of a connection, keeps the types.
LEMMA BanTypes ==
    ASSUME HandshakeAssumption, TypeOK, NEW e \in Ends, state[e] = "open",
           (\E why : Ban(e, why)) \/ Close(e)
    PROVE  /\ state' \in [Ends -> States]
           /\ ServerType'
           /\ OnlyCloses
           /\ state'[e] = "closed"
<1>1. Owner(e) \in Nodes /\ Remote(e) \in Nodes
  BY EndFacts, Zenon
<1>2. ASSUME NEW why, Ban(e, why)
      PROVE  /\ state' \in [Ends -> States]
             /\ ServerType'
             /\ OnlyCloses
             /\ state'[e] = "closed"
  <2>1. Closed(BanCloses(e)) /\ e \in BanCloses(e)
    BY <1>2, Zenon DEF Ban, BanCloses
  <2>2. \A f \in BanCloses(e) : state[f] \in {"open", "dialing"}
    BY DEF BanCloses, GetAddressConnected, Clients
  <2>3. /\ state' \in [Ends -> States]
        /\ pending' \in [Nodes -> SUBSET Nodes]
        /\ OnlyCloses
        /\ state'[e] = "closed"
    BY <2>1, <2>2, ClosedTypes, Zenon
  <2>4. banned' \in [Nodes -> SUBSET Nodes] /\ peerList' \in [Nodes -> SUBSET Nodes]
    BY <1>1, <1>2, Zenon DEF Ban, TypeOK
  <2> QED
    BY <2>3, <2>4, Zenon DEF ServerType
<1>3. ASSUME Closed({e}), UNCHANGED <<peerList, banned, bans>>
      PROVE  /\ state' \in [Ends -> States]
             /\ ServerType'
             /\ OnlyCloses
             /\ state'[e] = "closed"
  <2>1. /\ state' \in [Ends -> States]
        /\ pending' \in [Nodes -> SUBSET Nodes]
        /\ OnlyCloses
        /\ state'[e] = "closed"
    BY <1>3, ClosedTypes, Zenon
  <2> QED
    BY <1>3, <2>1, Zenon DEF ServerType, TypeOK
<1> QED
  BY <1>2, <1>3, Zenon DEF Close
\* Reading a message, and sending some, keeps the type of the streams.
LEMMA WireTypes ==
    ASSUME HandshakeAssumption, TypeOK, NEW e \in Ends
    PROVE  /\ wire[e] \in Seq(Messages)
           /\ wire[e] # <<>> => /\ Head(wire[e]) \in Messages
                                /\ Tail(wire[e]) \in Seq(Messages)
                                /\ [wire EXCEPT ![e] = Tail(@)] \in [Ends -> Seq(Messages)]
           /\ \A q \in Seq(Messages) : wire[e] \o q \in Seq(Messages)
<1>1. wire \in [Ends -> Seq(Messages)]
  BY Zenon DEF TypeOK
<1>2. wire[e] \in Seq(Messages)
  BY <1>1, Zenon
<1>3. wire[e] # <<>> => Head(wire[e]) \in Messages /\ Tail(wire[e]) \in Seq(Messages)
  BY <1>2, SeqFacts, Zenon
<1>4. \A q \in Seq(Messages) : wire[e] \o q \in Seq(Messages)
  BY <1>2, JoinFacts, Zenon
<1> QED
  BY <1>1, <1>2, <1>3, <1>4, Zenon

\* What an end sends is added to the stream of the other end.
LEMMA SendTypes ==
    ASSUME HandshakeAssumption, TypeOK, NEW e \in Ends, NEW q \in Seq(Messages), Send(e, q)
    PROVE  /\ wire' \in [Ends -> Seq(Messages)]
           /\ wire'[Peer(e)] = wire[Peer(e)] \o q
           /\ \A f \in Ends : f # Peer(e) => wire'[f] = wire[f]
<1>1. Peer(e) \in Ends
  BY EndFacts, Zenon
<1>2. wire \in [Ends -> Seq(Messages)]
  BY Zenon DEF TypeOK
<1>3. wire[Peer(e)] \o q \in Seq(Messages)
  BY <1>1, WireTypes, Zenon
<1>4. wire' = [wire EXCEPT ![Peer(e)] = wire[Peer(e)] \o q]
  BY Zenon DEF Send
<1> QED
  BY <1>1, <1>2, <1>3, <1>4, Zenon

\* Dialling and accepting keep the types.
LEMMA ConnectTypes ==
    ASSUME HandshakeAssumption, TypeOK, NEW c \in Conns, Dial(c) \/ Dialler(c) \/ Listener(c)
    PROVE  TypeOK'
<1>1. Out(c) \in Ends /\ In(c) \in Ends /\ Initiator[c] \in Nodes /\ Acceptor[c] \in Nodes
  BY ConnFacts, Zenon DEF HandshakeAssumption
<1>2. CASE Dial(c)
  BY <1>1, <1>2, ZenonT(30) DEF Dial, TypeOK
<1>3. CASE DialFails(c)
  <2>1. state[Out(c)] \in {"open", "dialing"} /\ Closed({Out(c)})
    BY <1>3, Zenon DEF DialFails
  <2>2. state' \in [Ends -> States] /\ pending' \in [Nodes -> SUBSET Nodes]
    BY <2>1, ClosedTypes, Zenon
  <2> QED
    BY <1>3, <2>2, Zenon DEF DialFails, TypeOK, States
<1>4. CASE Connected(c)
  BY <1>1, <1>4, Zenon DEF Connected, TypeOK, server
<1>5. CASE DialDone(c)
  <2>1. <<Challenge(Initiator[c])>> \in Seq(Messages) /\ Peer(Out(c)) \in Ends
    BY <1>1, SentMessages, EndFacts, ConnFacts
  <2>2. wire' \in [Ends -> Seq(Messages)]
    <3>1. Send(Out(c), <<Challenge(Initiator[c])>>)
      BY <1>5, Zenon DEF DialDone
    <3> QED
      BY <1>1, <2>1, <3>1, SendTypes, Zenon
  <2> QED
    BY <1>1, <1>5, <2>2, Zenon DEF DialDone, TypeOK, server
<1>6. CASE AcceptCheck(c)
  <2>1. PICK s \in {"closed", "accepted"} : state' = [state EXCEPT ![In(c)] = s]
    BY <1>6, Zenon DEF AcceptCheck
  <2> QED
    BY <1>1, <1>6, <2>1, Zenon DEF AcceptCheck, TypeOK, server
<1>7. CASE AcceptAppend(c)
  <2>1. <<Challenge(Acceptor[c])>> \in Seq(Messages) /\ Peer(In(c)) \in Ends
    BY <1>1, SentMessages, EndFacts, ConnFacts
  <2>2. wire' \in [Ends -> Seq(Messages)]
    <3>1. Send(In(c), <<Challenge(Acceptor[c])>>)
      BY <1>7, Zenon DEF AcceptAppend
    <3> QED
      BY <1>1, <2>1, <3>1, SendTypes, Zenon
  <2> QED
    BY <1>1, <1>7, <2>2, Zenon DEF AcceptAppend, TypeOK, server
<1> QED
  BY <1>2, <1>3, <1>4, <1>5, <1>6, <1>7, Zenon DEF Dialler, Listener

\* A reader that takes a message, or is done with one, keeps the types.
LEMMA ReaderTypes ==
    ASSUME HandshakeAssumption, TypeOK, NEW e \in Ends,
           Reader(e) \/ IdleTimeout(e) \/ DownloadMissing(e)
    PROVE  TypeOK'
<1>1. Owner(e) \in Nodes /\ Remote(e) \in Nodes /\ Peer(e) \in Ends /\ Peer(e) # e
  BY EndFacts, Zenon
<1>2. CASE ReadOutOfTurn(e)
  <2>1. state' \in [Ends -> States] /\ ServerType'
    BY <1>2, BanTypes, Zenon DEF ReadOutOfTurn, Reading
  <2>2. wire' \in [Ends -> Seq(Messages)]
    BY <1>2, WireTypes, Zenon DEF ReadOutOfTurn
  <2> QED
    BY <1>2, <2>1, <2>2, Zenon DEF ReadOutOfTurn, TypeOK, ServerType, States
<1>3. CASE ReadChallenge(e)
  <2>1. wire' \in [Ends -> Seq(Messages)]
    BY <1>3, WireTypes, Zenon DEF ReadChallenge, Receives
  <2>2. UNCHANGED <<expected, sent, listenPort, timeouts>>
    BY <1>3, Zenon DEF ReadChallenge
  <2>3. CASE complete' = [complete EXCEPT ![e] = TRUE] /\ Close(e) /\ UNCHANGED <<peerId, stage>>
    <3>1. state' \in [Ends -> States] /\ ServerType'
      BY <1>3, <2>3, BanTypes, Zenon DEF ReadChallenge, Receives, Reading
    <3> QED
      BY <2>1, <2>2, <2>3, <3>1, Zenon DEF TypeOK, ServerType, States
  <2>4. CASE /\ peerId' = [peerId EXCEPT ![e] = ChallengePeerId(Head(wire[e]))]
             /\ stage' = [stage EXCEPT ![e] = "stored"]
             /\ UNCHANGED <<complete, state, server>>
    <3>1. Head(wire[e]) \in Messages /\ Head(wire[e]).type = "challenge"
      BY <1>3, WireTypes, Zenon DEF ReadChallenge, Receives
    <3>2. ChallengePeerId(Head(wire[e])) \in Nodes
      BY <3>1, MessageKinds, Zenon DEF ChallengePeerId
    <3> QED
      BY <2>1, <2>2, <2>4, <3>2, Zenon DEF TypeOK, server
  <2> QED
    BY <1>3, <2>3, <2>4, Zenon DEF ReadChallenge
<1>4. CASE LookForSamePeer(e)
  <2>1. CASE complete' = [complete EXCEPT ![e] = TRUE] /\ Close(e) /\ UNCHANGED stage
    <3>1. state' \in [Ends -> States] /\ ServerType'
      BY <1>4, <2>1, BanTypes, Zenon DEF LookForSamePeer
    <3> QED
      BY <1>4, <2>1, <3>1, Zenon DEF LookForSamePeer, TypeOK, ServerType, States
  <2>2. CASE stage' = [stage EXCEPT ![e] = "solve"] /\ UNCHANGED <<complete, state, server>>
    BY <1>4, <2>2, Zenon DEF LookForSamePeer, TypeOK, server
  <2> QED
    BY <1>4, <2>1, <2>2, Zenon DEF LookForSamePeer
<1>5. CASE SendSolution(e)
  <2>1. PICK p \in BOOLEAN : Send(e, <<Solution(Peer(e), ConsensusId[Owner(e)], p)>>)
    BY <1>5, Zenon DEF SendSolution
  <2>2. <<Solution(Peer(e), ConsensusId[Owner(e)], p)>> \in Seq(Messages)
    BY SentMessages
  <2>3. wire' \in [Ends -> Seq(Messages)]
    BY <2>1, <2>2, SendTypes, Zenon
  <2> QED
    BY <1>5, <2>3, Zenon DEF SendSolution, TypeOK, server
<1>6. CASE ReadSolution(e)
  <2>1. <<ListenPort, BlockRequest>> \in Seq(Messages)
    BY SentMessages
  <2>2. wire[e] # <<>> /\ Tail(wire[e]) \in Seq(Messages)
    BY <1>6, WireTypes, Zenon DEF ReadSolution, Receives
  <2>3. wire[Peer(e)] \o <<ListenPort, BlockRequest>> \in Seq(Messages)
    BY <1>1, <2>1, WireTypes, Zenon
  <2>4. wire' \in [Ends -> Seq(Messages)]
    BY <1>1, <1>6, <2>2, <2>3, Zenon DEF ReadSolution, TypeOK
  <2> QED
    BY <1>6, <2>4, Zenon DEF ReadSolution, TypeOK, server
<1>7. CASE ReadBadSolution(e)
  <2>1. state' \in [Ends -> States] /\ ServerType'
    BY <1>7, BanTypes, Zenon DEF ReadBadSolution, Receives, Reading
  <2>2. wire' \in [Ends -> Seq(Messages)]
    BY <1>7, WireTypes, Zenon DEF ReadBadSolution, Receives
  <2> QED
    BY <1>7, <2>1, <2>2, Zenon DEF ReadBadSolution, TypeOK, ServerType, States
<1>8. CASE ReadListenPort(e)
  <2>1. wire' \in [Ends -> Seq(Messages)]
    BY <1>8, WireTypes, Zenon DEF ReadListenPort, Receives
  <2> QED
    BY <1>1, <1>8, <2>1, Zenon DEF ReadListenPort, TypeOK
<1>9. CASE ReadBlockRequest(e)
  <2>1. wire' \in [Ends -> Seq(Messages)]
    BY <1>9, WireTypes, Zenon DEF ReadBlockRequest, Receives
  <2> QED
    BY <1>9, <2>1, Zenon DEF ReadBlockRequest, TypeOK, conn, server
<1>10. CASE ReadError(e)
  <2>1. state' \in [Ends -> States] /\ ServerType'
    BY <1>10, BanTypes, Zenon DEF ReadError, Reading
  <2> QED
    BY <1>10, <2>1, Zenon DEF ReadError, TypeOK, ServerType, States
<1>11. CASE IdleTimeout(e)
  <2>1. state' \in [Ends -> States] /\ ServerType'
    BY <1>11, BanTypes, Zenon DEF IdleTimeout
  <2>2. timeouts' \in 0 .. MaxTimeouts
    BY <1>11 DEF IdleTimeout, TypeOK, HandshakeAssumption
  <2> QED
    BY <1>11, <2>1, <2>2, Zenon DEF IdleTimeout, TypeOK, ServerType, States
<1>12. CASE DownloadMissing(e)
  <2>1. <<BlockRequest>> \in Seq(Messages)
    BY SentMessages
  <2>2. wire' \in [Ends -> Seq(Messages)]
    BY <1>12, <2>1, SendTypes, Zenon DEF DownloadMissing
  <2> QED
    BY <1>12, <2>2, Zenon DEF DownloadMissing, TypeOK, conn, server
<1> QED
  BY <1>2, <1>3, <1>4, <1>5, <1>6, <1>7, <1>8, <1>9, <1>10, <1>11, <1>12, Zenon DEF Reader
---------------------------------------------------------------------------
(* The inductive invariant.                                                *)

\* An end before its Client is added to the list.
Before == {"none", "dialing", "dialed", "backlog", "accepted"}

\* Its reader has not begun.
FreshAt(e) == state[e] \in Before =>
    /\ peerId[e] = NoPeer
    /\ stage[e] = "read"
    /\ expected[e] = "challenge"
    /\ ~complete[e]

\* The accepting end exists once the dial has gone through.
NotYet == \A c \in Conns : state[Out(c)] \in {"none", "dialing"} => state[In(c)] = "none"

\* A message says who sent it, in which pool, and that the sender finished its handshake; a solution
\* is of the challenge of e, and from the dialling side it has proof of work.
Truthful(e, m) ==
    /\ m.type = "challenge" => m.from = Remote(e)
    /\ m.type = "solution" => /\ m.to = e
                              /\ m.id = ConsensusId[Remote(e)]
                              /\ IsIncoming(e) => m.pow
    /\ m.type = "port" => complete[Peer(e)]

Told == \A e \in Ends : \A i \in 1 .. Len(wire[e]) : Truthful(e, wire[e][i])

\* What an end has learned of the other end so far.
KnownAt(e) ==
    /\ peerId[e] \in {NoPeer, Remote(e)}
    /\ stage[e] # "read" => peerId[e] = Remote(e)
    /\ expected[e] = "solution" => sent[e] /\ peerId[e] = Remote(e)
    /\ complete[e] /\ state[e] = "open" =>
          expected[e] = "solution" /\ ConsensusId[Owner(e)] = ConsensusId[Remote(e)]
    /\ listenPort[e] => complete[Peer(e)]

IInv ==
    /\ TypeOK
    /\ \A e \in Ends : FreshAt(e)
    /\ NotYet
    /\ Told
    /\ \A e \in Ends : KnownAt(e)
    /\ OneConnectionPerPeer

\* The next message of an end is truthful.
LEMMA HeadIsTruthful ==
    ASSUME HandshakeAssumption, TypeOK, Told, NEW e \in Ends, wire[e] # <<>>
    PROVE  Head(wire[e]) \in Messages /\ Truthful(e, Head(wire[e]))
<1>1. wire[e] \in Seq(Messages) /\ Head(wire[e]) \in Messages
  BY WireTypes, Zenon
<1>2. Head(wire[e]) = wire[e][1] /\ 1 \in 1 .. Len(wire[e])
  BY <1>1, SeqFacts
<1> QED
  BY <1>1, <1>2, Zenon DEF Told

\* Streams lose their first message or gain truthful ones.
LEMMA ToldStep ==
    ASSUME HandshakeAssumption, TypeOK, Told,
           \A f \in Ends : complete[f] => complete'[f],
           \A f \in Ends :
              \/ wire'[f] = wire[f]
              \/ wire[f] # <<>> /\ wire'[f] = Tail(wire[f])
              \/ \E q \in Seq(Messages) : /\ wire'[f] = wire[f] \o q
                                          /\ \A i \in 1 .. Len(q) : Truthful(f, q[i])'
    PROVE  Told'
<1> SUFFICES ASSUME NEW e \in Ends, NEW i \in 1 .. Len(wire'[e]), NEW m, m = wire'[e][i]
             PROVE  Truthful(e, m)'
  BY DEF Told, Truthful
<1>1. wire[e] \in Seq(Messages) /\ Len(wire[e]) \in Nat /\ Peer(e) \in Ends
  BY WireTypes, SeqFacts, EndFacts, Zenon
<1>2. ASSUME NEW j \in 1 .. Len(wire[e]), m = wire[e][j]
      PROVE  Truthful(e, m)'
  <2>1. Truthful(e, m)
    BY <1>2, Zenon DEF Told
  <2> QED
    BY <1>1, <2>1, Zenon DEF Truthful
<1>3. CASE wire'[e] = wire[e]
  BY <1>2, <1>3, Zenon
<1>4. CASE wire[e] # <<>> /\ wire'[e] = Tail(wire[e])
  <2>1. Len(wire'[e]) = Len(wire[e]) - 1 /\ m = wire[e][i + 1]
    BY <1>1, <1>4, SeqFacts
  <2>2. i + 1 \in 1 .. Len(wire[e])
    BY <1>1, <2>1
  <2> QED
    BY <1>2, <2>1, <2>2, Zenon
<1>5. ASSUME NEW q \in Seq(Messages), wire'[e] = wire[e] \o q,
             \A k \in 1 .. Len(q) : Truthful(e, q[k])'
      PROVE  Truthful(e, m)'
  <2>1. /\ Len(wire'[e]) = Len(wire[e]) + Len(q)
        /\ m = IF i <= Len(wire[e]) THEN wire[e][i] ELSE q[i - Len(wire[e])]
    BY <1>1, <1>5, JoinFacts
  <2>2. Len(q) \in Nat
    BY SeqFacts, Zenon
  <2>3. CASE i <= Len(wire[e])
    BY <1>1, <1>2, <2>1, <2>3
  <2>4. CASE i > Len(wire[e])
    <3>1. PICK k \in 1 .. Len(q) : m = q[k]
      BY <1>1, <2>1, <2>2, <2>4
    <3>2. Truthful(e, q[k])'
      BY <1>5, Zenon
    <3> QED
      BY <3>1, <3>2, Zenon
  <2> QED
    BY <1>1, <2>3, <2>4
<1> QED
  BY <1>3, <1>4, <1>5, Zenon

\* A step after which no end has newly passed the search keeps one connection per peer.
LEMMA NobodyPasses ==
    ASSUME OneConnectionPerPeer,
           \A f \in Ends : Passed(f)' => Passed(f) /\ peerId'[f] = peerId[f]
    PROVE  OneConnectionPerPeer'
  BY Zenon DEF OneConnectionPerPeer

\* A step that only closes ends and reads messages keeps the invariant.
LEMMA ClosingKeeps ==
    ASSUME HandshakeAssumption, IInv, TypeOK', OnlyCloses,
           UNCHANGED <<stage, expected, sent, peerId, listenPort>>,
           \A f \in Ends : \/ complete'[f] = complete[f]
                           \/ complete'[f] = TRUE /\ state'[f] = "closed",
           \A f \in Ends : \/ wire'[f] = wire[f]
                           \/ wire[f] # <<>> /\ wire'[f] = Tail(wire[f])
    PROVE  IInv'
<1>1. \A f \in Ends : complete[f] => complete'[f]
  BY Zenon DEF IInv, TypeOK
<1>2. Told'
  BY <1>1, ToldStep, Zenon DEF IInv
<1>3. \A f \in Ends : FreshAt(f)'
  BY Zenon DEF IInv, FreshAt, Before, OnlyCloses
<1>4. NotYet'
  BY ConnFacts DEF IInv, NotYet, OnlyCloses
<1>5. \A f \in Ends : KnownAt(f)'
  BY <1>1, EndFacts, Zenon DEF IInv, KnownAt, OnlyCloses
<1>6. OneConnectionPerPeer'
  BY NobodyPasses, Zenon DEF IInv, Passed, OnlyCloses
<1> QED
  BY <1>2, <1>3, <1>4, <1>5, <1>6, Zenon DEF IInv
---------------------------------------------------------------------------
(* One step per action.                                                    *)

\* Dialling and accepting.
LEMMA ConnectKeeps ==
    ASSUME HandshakeAssumption, IInv, NEW c \in Conns, Dial(c) \/ Dialler(c) \/ Listener(c)
    PROVE  IInv'
<1>1. TypeOK'
  BY ConnectTypes, Zenon DEF IInv
<1>2. /\ Out(c) \in Ends /\ In(c) \in Ends /\ Out(c) # In(c)
      /\ \A d \in Conns : d # c => Out(d) # Out(c) /\ In(d) # In(c)
      /\ \A d \in Conns : Out(d) # In(c) /\ In(d) # Out(c) /\ Out(d) \in Ends /\ In(d) \in Ends
  BY ConnFacts, EndsDiffer, Zenon
<1>3. state \in [Ends -> States]
  BY Zenon DEF IInv, TypeOK, States
<1>4. UNCHANGED <<stage, expected, complete, sent, peerId, listenPort>>
  BY Zenon DEF Dial, Dialler, DialFails, Connected, DialDone, Listener, AcceptCheck, AcceptAppend
<1>5. ASSUME NEW S \in SUBSET {Out(c), In(c)},
             \A f \in Ends : f \notin S => state'[f] = state[f],
             \A f \in S : state[f] \in Before,
             NotYet', Told'
      PROVE  IInv'
  <2>1. \A f \in Ends : FreshAt(f)'
    BY <1>2, <1>4, <1>5, Zenon DEF IInv, FreshAt
  <2>2. \A f \in Ends : KnownAt(f)'
    BY <1>2, <1>4, <1>5, ZenonT(30) DEF IInv, FreshAt, KnownAt
  <2>3. \A f \in Ends : Passed(f)' => Passed(f) /\ peerId'[f] = peerId[f]
    BY <1>2, <1>4, <1>5, Zenon DEF IInv, FreshAt, Passed
  <2>4. OneConnectionPerPeer'
    BY <2>3, NobodyPasses, Zenon DEF IInv
  <2> QED
    BY <1>1, <1>5, <2>1, <2>2, <2>4, Zenon DEF IInv
<1>6. ASSUME wire' = wire PROVE Told'
  BY <1>4, <1>6, ToldStep, Zenon DEF IInv
<1>7. CASE Dial(c)
  <2>1. /\ \A f \in Ends : f \notin {Out(c)} => state'[f] = state[f]
        /\ state[Out(c)] = "none" /\ state'[Out(c)] = "dialing" /\ wire' = wire
    BY <1>2, <1>3, <1>7, Zenon DEF Dial
  <2>2. NotYet'
    BY <1>2, <2>1, Zenon DEF IInv, NotYet
  <2>3. Told' /\ {Out(c)} \in SUBSET {Out(c), In(c)} /\ \A f \in {Out(c)} : state[f] \in Before
    BY <1>6, <2>1, Zenon DEF Before
  <2> QED
    BY <1>5, <2>1, <2>2, <2>3, Zenon
<1>8. CASE DialFails(c)
  <2>1. /\ state[Out(c)] = "dialing" /\ Closed({Out(c)}) /\ wire' = wire
    BY <1>8, Zenon DEF DialFails
  <2>2. OnlyCloses
    BY <2>1, ClosedTypes, Zenon DEF IInv
  <2> QED
    BY <1>1, <1>4, <2>1, <2>2, ClosingKeeps, Zenon
<1>9. CASE Connected(c)
  <2>1. /\ \A f \in Ends : f \notin {Out(c), In(c)} => state'[f] = state[f]
        /\ state[Out(c)] = "dialing" /\ state'[Out(c)] = "dialed" /\ wire' = wire
    BY <1>2, <1>3, <1>9, Zenon DEF Connected
  <2>2. state[In(c)] = "none"
    BY <2>1, Zenon DEF IInv, NotYet
  <2>3. NotYet'
    BY <1>2, <2>1, Zenon DEF IInv, NotYet
  <2>4. /\ Told' /\ \A f \in {Out(c), In(c)} : state[f] \in Before
        /\ {Out(c), In(c)} \in SUBSET {Out(c), In(c)}
    BY <1>6, <2>1, <2>2, Zenon DEF Before
  <2> QED
    BY <1>5, <2>1, <2>3, <2>4, Zenon
<1>10. CASE DialDone(c)
  <2>1. /\ \A f \in Ends : f \notin {Out(c)} => state'[f] = state[f]
        /\ state[Out(c)] = "dialed" /\ state'[Out(c)] = "open"
        /\ Send(Out(c), <<Challenge(Initiator[c])>>)
    BY <1>2, <1>3, <1>10, Zenon DEF DialDone
  <2>2. NotYet'
    BY <1>2, <2>1, Zenon DEF IInv, NotYet
  <2>3. Told'
    <3> DEFINE q == <<Challenge(Initiator[c])>>
    <3>1. q \in Seq(Messages) /\ Len(q) = 1 /\ q[1] = Challenge(Initiator[c])
      <4>1. Challenge(Initiator[c]) \in Messages
        BY <1>2, SentMessages, ConnFacts, Zenon
      <4> QED
        BY <4>1, SMTT(30)
    <3>2. Remote(In(c)) = Initiator[c]
      BY ConnFacts, Zenon DEF Remote
    <3>3. \A i \in 1 .. Len(q) : Truthful(In(c), q[i])'
      BY <3>1, <3>2 DEF Truthful, Challenge
    <3>4. Send(Out(c), q) /\ Peer(Out(c)) = In(c)
      BY <2>1, ConnFacts, Zenon
    <3> HIDE DEF q
    <3>5. /\ wire'[In(c)] = wire[In(c)] \o q
          /\ \A f \in Ends : f # In(c) => wire'[f] = wire[f]
      BY <1>2, <3>1, <3>4, SendTypes, Zenon DEF IInv
    <3> QED
      BY <1>4, <3>1, <3>3, <3>5, ToldStep, Zenon DEF IInv
  <2>4. {Out(c)} \in SUBSET {Out(c), In(c)} /\ \A f \in {Out(c)} : state[f] \in Before
    BY <2>1, Zenon DEF Before
  <2> QED
    BY <1>5, <2>1, <2>2, <2>3, <2>4, Zenon
<1>11. CASE AcceptCheck(c)
  <2>1. /\ \A f \in Ends : f \notin {In(c)} => state'[f] = state[f]
        /\ state[In(c)] = "backlog" /\ wire' = wire
    BY <1>2, <1>3, <1>11, Zenon DEF AcceptCheck
  <2>2. NotYet'
    BY <1>2, <2>1, Zenon DEF IInv, NotYet
  <2>3. Told' /\ {In(c)} \in SUBSET {Out(c), In(c)} /\ \A f \in {In(c)} : state[f] \in Before
    BY <1>6, <2>1, Zenon DEF Before
  <2> QED
    BY <1>5, <2>1, <2>2, <2>3, Zenon
<1>12. CASE AcceptAppend(c)
  <2>1. /\ \A f \in Ends : f \notin {In(c)} => state'[f] = state[f]
        /\ state[In(c)] = "accepted" /\ state'[In(c)] = "open"
        /\ Send(In(c), <<Challenge(Acceptor[c])>>)
    BY <1>2, <1>3, <1>12, Zenon DEF AcceptAppend
  <2>2. NotYet'
    BY <1>2, <2>1, Zenon DEF IInv, NotYet
  <2>3. Told'
    <3> DEFINE q == <<Challenge(Acceptor[c])>>
    <3>1. q \in Seq(Messages) /\ Len(q) = 1 /\ q[1] = Challenge(Acceptor[c])
      <4>1. Challenge(Acceptor[c]) \in Messages
        BY <1>2, SentMessages, ConnFacts, Zenon
      <4> QED
        BY <4>1
    <3>2. Remote(Out(c)) = Acceptor[c]
      BY ConnFacts, Zenon DEF Remote
    <3>3. \A i \in 1 .. Len(q) : Truthful(Out(c), q[i])'
      BY <3>1, <3>2 DEF Truthful, Challenge
    <3>4. Send(In(c), q) /\ Peer(In(c)) = Out(c)
      BY <2>1, ConnFacts, Zenon
    <3> HIDE DEF q
    <3>5. /\ wire'[Out(c)] = wire[Out(c)] \o q
          /\ \A f \in Ends : f # Out(c) => wire'[f] = wire[f]
      BY <1>2, <3>1, <3>4, SendTypes, Zenon DEF IInv
    <3> QED
      BY <1>4, <3>1, <3>3, <3>5, ToldStep, Zenon DEF IInv
  <2>4. {In(c)} \in SUBSET {Out(c), In(c)} /\ \A f \in {In(c)} : state[f] \in Before
    BY <2>1, Zenon DEF Before
  <2> QED
    BY <1>5, <2>1, <2>2, <2>3, <2>4, Zenon
<1> QED
  BY <1>7, <1>8, <1>9, <1>10, <1>11, <1>12, Zenon DEF Dialler, Listener
\* A reader ends its connection: after a message out of turn, a wrong solution, its own id, another
\* connection to the same peer, a failed read or a long silence.
LEMMA EndingKeeps ==
    ASSUME HandshakeAssumption, IInv, TypeOK', NEW e \in Ends, state[e] = "open",
           (\E why : Ban(e, why)) \/ Close(e),
           UNCHANGED <<stage, expected, sent, peerId, listenPort>>,
           complete' = complete \/ complete' = [complete EXCEPT ![e] = TRUE],
           wire' = wire \/ (wire[e] # <<>> /\ wire' = [wire EXCEPT ![e] = Tail(@)])
    PROVE  IInv'
<1>1. OnlyCloses /\ state'[e] = "closed"
  BY BanTypes, Zenon DEF IInv
<1>2. DOMAIN complete = Ends /\ DOMAIN wire = Ends
  BY Zenon DEF IInv, TypeOK
<1>3. \A f \in Ends : complete'[f] = complete[f] \/ (complete'[f] = TRUE /\ state'[f] = "closed")
  BY <1>1, <1>2, Zenon
<1>4. \A f \in Ends : wire'[f] = wire[f] \/ (wire[f] # <<>> /\ wire'[f] = Tail(wire[f]))
  BY <1>2, Zenon
<1> QED
  BY <1>1, <1>3, <1>4, ClosingKeeps, Zenon

\* HANDSHAKE_CHALLENGE.
LEMMA ChallengeKeeps ==
    ASSUME HandshakeAssumption, IInv, TypeOK', NEW e \in Ends, ReadChallenge(e)
    PROVE  IInv'
<1>1. /\ state[e] = "open" /\ stage[e] = "read" /\ wire[e] # <<>>
      /\ Head(wire[e]).type = "challenge"
      /\ wire' = [wire EXCEPT ![e] = Tail(@)]
      /\ UNCHANGED <<expected, sent, listenPort>>
  BY Zenon DEF ReadChallenge, Receives, Reading
<1>2. CASE /\ complete' = [complete EXCEPT ![e] = TRUE]
           /\ Close(e)
           /\ UNCHANGED <<peerId, stage>>
  BY <1>1, <1>2, EndingKeeps, Zenon
<1>3. CASE /\ peerId' = [peerId EXCEPT ![e] = ChallengePeerId(Head(wire[e]))]
           /\ stage' = [stage EXCEPT ![e] = "stored"]
           /\ UNCHANGED <<complete, state, server>>
  <2>1. ChallengePeerId(Head(wire[e])) = Remote(e)
    BY <1>1, HeadIsTruthful, Zenon DEF IInv, Truthful, ChallengePeerId
  <2>2. /\ peerId'[e] = Remote(e) /\ stage'[e] = "stored"
        /\ \A f \in Ends : f # e => peerId'[f] = peerId[f] /\ stage'[f] = stage[f]
        /\ \A f \in Ends : wire'[f] = wire[f] \/ (wire[f] # <<>> /\ wire'[f] = Tail(wire[f]))
    BY <1>1, <1>3, <2>1 DEF IInv, TypeOK
  <2>3. Told'
    BY <1>3, <2>2, ToldStep, Zenon DEF IInv
  <2>4. \A f \in Ends : FreshAt(f)'
    BY <1>1, <1>3, <2>2, SMTT(30) DEF IInv, FreshAt, Before
  <2>5. \A f \in Ends : KnownAt(f)'
    BY <1>1, <1>3, <2>2 DEF IInv, KnownAt
  <2>6. OneConnectionPerPeer'
    BY <1>3, <2>2, NobodyPasses, Zenon DEF IInv, Passed
  <2>7. NotYet'
    BY <1>3, Zenon DEF IInv, NotYet
  <2> QED
    BY <2>3, <2>4, <2>5, <2>6, <2>7, Zenon DEF IInv
<1> QED
  BY <1>2, <1>3, Zenon DEF ReadChallenge

\* The search for another connection to the same peer id.
LEMMA SearchKeeps ==
    ASSUME HandshakeAssumption, IInv, TypeOK', NEW e \in Ends, LookForSamePeer(e)
    PROVE  IInv'
<1>1. /\ state[e] = "open" /\ stage[e] = "stored"
      /\ UNCHANGED <<expected, sent, peerId, listenPort, wire>>
  BY Zenon DEF LookForSamePeer
<1>2. CASE complete' = [complete EXCEPT ![e] = TRUE] /\ Close(e) /\ UNCHANGED stage
  BY <1>1, <1>2, EndingKeeps, Zenon
<1>3. CASE /\ SamePeer(e) = {}
           /\ stage' = [stage EXCEPT ![e] = "solve"]
           /\ UNCHANGED <<complete, state, server>>
  <2>1. stage'[e] = "solve" /\ \A f \in Ends : f # e => stage'[f] = stage[f]
    BY <1>3, ZenonT(30) DEF IInv, TypeOK
  <2>2. Told'
    BY <1>1, <1>3, ToldStep, Zenon DEF IInv
  <2>3. \A f \in Ends : FreshAt(f)'
    BY <1>1, <1>3, <2>1, Zenon DEF IInv, FreshAt, Before
  <2>4. \A f \in Ends : KnownAt(f)'
    BY <1>1, <1>3, <2>1, Zenon DEF IInv, KnownAt
  <2>5. OneConnectionPerPeer'
    <3>1. \A f \in Ends : f # e /\ Passed(f)' => Passed(f)
      BY <1>1, <1>3, <2>1, Zenon DEF Passed
    <3>2. \A f \in Ends : f # e /\ Passed(f) /\ Owner(f) = Owner(e) => peerId[f] # peerId[e]
      BY <1>3, Zenon DEF SamePeer, Clients, Passed
    <3> QED
      BY <1>1, <3>1, <3>2, Zenon DEF IInv, OneConnectionPerPeer
  <2>6. NotYet'
    BY <1>3, Zenon DEF IInv, NotYet
  <2> QED
    BY <2>2, <2>3, <2>4, <2>5, <2>6, Zenon DEF IInv
<1> QED
  BY <1>2, <1>3, Zenon DEF LookForSamePeer

\* sendHandshakeSolution.
LEMMA SolutionKeeps ==
    ASSUME HandshakeAssumption, IInv, TypeOK', NEW e \in Ends, SendSolution(e)
    PROVE  IInv'
<1>1. /\ state[e] = "open" /\ stage[e] = "solve"
      /\ sent' = [sent EXCEPT ![e] = TRUE]
      /\ expected' = [expected EXCEPT ![e] = "solution"]
      /\ stage' = [stage EXCEPT ![e] = "read"]
      /\ UNCHANGED <<state, complete, peerId, listenPort>>
  BY Zenon DEF SendSolution
<1>2. /\ sent'[e] = TRUE /\ expected'[e] = "solution" /\ stage'[e] = "read"
      /\ \A f \in Ends : f # e => /\ sent'[f] = sent[f] /\ expected'[f] = expected[f]
                                  /\ stage'[f] = stage[f]
  BY <1>1 DEF IInv, TypeOK
<1>3. Told'
  <2>1. PICK p \in BOOLEAN : /\ ~IsIncoming(e) => p
                             /\ Send(e, <<Solution(Peer(e), ConsensusId[Owner(e)], p)>>)
    BY Zenon DEF SendSolution
  <2> DEFINE m == Solution(Peer(e), ConsensusId[Owner(e)], p)
             q == <<m>>
  <2>2. /\ m \in Messages /\ m.type = "solution" /\ m.to = Peer(e)
        /\ m.id = ConsensusId[Owner(e)] /\ m.pow = p
    BY SentMessages, Zenon DEF Solution
  <2>3. /\ Peer(e) \in Ends /\ Remote(Peer(e)) = Owner(e)
        /\ IsIncoming(Peer(e)) => ~IsIncoming(e)
    BY EndFacts, Zenon
  <2>4. Truthful(Peer(e), m)'
    BY <2>1, <2>2, <2>3, Zenon DEF Truthful
  <2> HIDE DEF m
  <2>5. q \in Seq(Messages) /\ \A i \in 1 .. Len(q) : Truthful(Peer(e), q[i])'
    BY <2>2, <2>4
  <2>6. Send(e, q)
    BY <2>1, Zenon DEF m
  <2> HIDE DEF q
  <2>7. /\ wire'[Peer(e)] = wire[Peer(e)] \o q
        /\ \A f \in Ends : f # Peer(e) => wire'[f] = wire[f]
    BY <2>5, <2>6, SendTypes, Zenon DEF IInv
  <2> QED
    BY <1>1, <2>3, <2>5, <2>7, ToldStep, Zenon DEF IInv
<1>4. \A f \in Ends : FreshAt(f)'
  BY <1>1, <1>2, SMTT(30) DEF IInv, FreshAt, Before
<1>5. \A f \in Ends : KnownAt(f)'
  BY <1>1, <1>2 DEF IInv, KnownAt
<1>6. OneConnectionPerPeer'
  BY <1>1, <1>2, NobodyPasses, Zenon DEF IInv, Passed
<1>7. NotYet'
  BY <1>1, Zenon DEF IInv, NotYet
<1> QED
  BY <1>3, <1>4, <1>5, <1>6, <1>7, Zenon DEF IInv

\* HANDSHAKE_SOLUTION with a right answer.
LEMMA AcceptanceKeeps ==
    ASSUME HandshakeAssumption, IInv, TypeOK', NEW e \in Ends, ReadSolution(e)
    PROVE  IInv'
<1>1. /\ state[e] = "open" /\ wire[e] # <<>> /\ Head(wire[e]).type = "solution"
      /\ expected[e] = "solution"
      /\ complete' = [complete EXCEPT ![e] = TRUE]
      /\ UNCHANGED <<state, stage, expected, sent, peerId, listenPort>>
  BY Zenon DEF ReadSolution, Receives, Reading, OutOfTurn
<1>2. ConsensusId[Owner(e)] = ConsensusId[Remote(e)]
  BY <1>1, HeadIsTruthful, Zenon DEF IInv, Truthful, ReadSolution, Solves
<1>3. complete'[e] = TRUE /\ \A f \in Ends : f # e => complete'[f] = complete[f]
  BY <1>1, ZenonT(30) DEF IInv, TypeOK
<1>4. Peer(e) \in Ends /\ Peer(e) # e /\ Peer(Peer(e)) = e
  BY EndFacts, Zenon
<1>5. Told'
  <2> DEFINE q == <<ListenPort, BlockRequest>>
  <2>1. q \in Seq(Messages) /\ Len(q) = 2 /\ q[1] = ListenPort /\ q[2] = BlockRequest
    BY SentMessages
  <2>2. \A i \in 1 .. 2 : i = 1 \/ i = 2
    OBVIOUS
  <2>3. \A i \in 1 .. Len(q) : Truthful(Peer(e), q[i])'
    BY <1>3, <1>4, <2>1, <2>2 DEF Truthful, ListenPort, BlockRequest
  <2>4. wire' = [wire EXCEPT ![e] = Tail(@), ![Peer(e)] = IF sent[e] THEN @ \o q ELSE @]
    BY Zenon DEF ReadSolution
  <2> HIDE DEF q
  <2>5. /\ wire'[e] = Tail(wire[e])
        /\ wire'[Peer(e)] = wire[Peer(e)] \/ wire'[Peer(e)] = wire[Peer(e)] \o q
        /\ \A f \in Ends : f # e /\ f # Peer(e) => wire'[f] = wire[f]
    BY <1>4, <2>4, ZenonT(30) DEF IInv, TypeOK
  <2>6. \A f \in Ends : complete[f] => complete'[f]
    BY <1>3, Zenon
  <2> QED
    BY <1>1, <2>1, <2>3, <2>5, <2>6, ToldStep, Zenon DEF IInv
<1>6. \A f \in Ends : FreshAt(f)'
  BY <1>1, <1>3, Zenon DEF IInv, FreshAt, Before
<1>7. \A f \in Ends : KnownAt(f)'
  BY <1>1, <1>2, <1>3, EndFacts, SMTT(30) DEF IInv, KnownAt
<1>8. OneConnectionPerPeer'
  BY <1>1, NobodyPasses, Zenon DEF IInv, Passed
<1>9. NotYet'
  BY <1>1, Zenon DEF IInv, NotYet
<1> QED
  BY <1>5, <1>6, <1>7, <1>8, <1>9, Zenon DEF IInv

\* LISTEN_PORT.
LEMMA PortKeeps ==
    ASSUME HandshakeAssumption, IInv, TypeOK', NEW e \in Ends, ReadListenPort(e)
    PROVE  IInv'
<1>1. /\ wire[e] # <<>> /\ Head(wire[e]).type = "port"
      /\ wire' = [wire EXCEPT ![e] = Tail(@)]
      /\ listenPort' = [listenPort EXCEPT ![e] = TRUE]
      /\ UNCHANGED <<state, stage, expected, complete, sent, peerId>>
  BY Zenon DEF ReadListenPort, Receives
<1>2. complete[Peer(e)]
  BY <1>1, HeadIsTruthful, Zenon DEF IInv, Truthful
<1>3. /\ \A f \in Ends : f # e => listenPort'[f] = listenPort[f]
      /\ \A f \in Ends : wire'[f] = wire[f] \/ (wire[f] # <<>> /\ wire'[f] = Tail(wire[f]))
  BY <1>1 DEF IInv, TypeOK
<1>4. Told'
  BY <1>1, <1>3, ToldStep, Zenon DEF IInv
<1>5. \A f \in Ends : FreshAt(f)'
  BY <1>1, Zenon DEF IInv, FreshAt
<1>6. \A f \in Ends : KnownAt(f)'
  BY <1>1, <1>2, <1>3, Zenon DEF IInv, KnownAt
<1>7. OneConnectionPerPeer'
  BY <1>1, NobodyPasses, Zenon DEF IInv, Passed
<1>8. NotYet'
  BY <1>1, Zenon DEF IInv, NotYet
<1> QED
  BY <1>4, <1>5, <1>6, <1>7, <1>8, Zenon DEF IInv
\* A step of a reader, of the idle check or of DownloadMissingBlocks.
LEMMA ReaderKeeps ==
    ASSUME HandshakeAssumption, IInv, NEW e \in Ends,
           Reader(e) \/ IdleTimeout(e) \/ DownloadMissing(e)
    PROVE  IInv'
<1>1. TypeOK'
  BY ReaderTypes, Zenon DEF IInv
<1>2. CASE ReadOutOfTurn(e)
  BY <1>1, <1>2, EndingKeeps, Zenon DEF ReadOutOfTurn, Reading
<1>3. CASE ReadChallenge(e)
  BY <1>1, <1>3, ChallengeKeeps, Zenon
<1>4. CASE LookForSamePeer(e)
  BY <1>1, <1>4, SearchKeeps, Zenon
<1>5. CASE SendSolution(e)
  BY <1>1, <1>5, SolutionKeeps, Zenon
<1>6. CASE ReadSolution(e)
  BY <1>1, <1>6, AcceptanceKeeps, Zenon
<1>7. CASE ReadBadSolution(e)
  BY <1>1, <1>7, EndingKeeps, Zenon DEF ReadBadSolution, Receives, Reading
<1>8. CASE ReadListenPort(e)
  BY <1>1, <1>8, PortKeeps, Zenon
<1>9. CASE ReadBlockRequest(e)
  <2>1. /\ UNCHANGED <<state, stage, expected, complete, sent, peerId, listenPort>>
        /\ wire[e] # <<>> /\ wire' = [wire EXCEPT ![e] = Tail(@)]
    BY <1>9, Zenon DEF ReadBlockRequest, Receives, conn
  <2>2. \A f \in Ends : wire'[f] = wire[f] \/ (wire[f] # <<>> /\ wire'[f] = Tail(wire[f]))
    BY <2>1, Zenon DEF IInv, TypeOK
  <2>3. OnlyCloses
    BY <2>1, Zenon DEF OnlyCloses
  <2> QED
    BY <1>1, <2>1, <2>2, <2>3, ClosingKeeps, Zenon
<1>10. CASE ReadError(e)
  BY <1>1, <1>10, EndingKeeps, Zenon DEF ReadError, Reading
<1>11. CASE IdleTimeout(e)
  BY <1>1, <1>11, EndingKeeps, Zenon DEF IdleTimeout
<1>12. CASE DownloadMissing(e)
  <2>1. UNCHANGED <<state, stage, expected, complete, sent, peerId, listenPort>>
    BY <1>12, Zenon DEF DownloadMissing, conn
  <2>2. Told'
    <3> DEFINE q == <<BlockRequest>>
    <3>1. q \in Seq(Messages) /\ Len(q) = 1 /\ q[1] = BlockRequest
      BY SentMessages
    <3>2. \A i \in 1 .. Len(q) : Truthful(Peer(e), q[i])'
      BY <3>1 DEF Truthful, BlockRequest
    <3>3. Send(e, q)
      BY <1>12, Zenon DEF DownloadMissing
    <3> HIDE DEF q
    <3>4. /\ wire'[Peer(e)] = wire[Peer(e)] \o q
          /\ \A f \in Ends : f # Peer(e) => wire'[f] = wire[f]
      BY <3>1, <3>3, SendTypes, Zenon DEF IInv
    <3> QED
      BY <2>1, <3>1, <3>2, <3>4, ToldStep, Zenon DEF IInv
  <2>3. OneConnectionPerPeer'
    BY <2>1, NobodyPasses, Zenon DEF IInv, Passed
  <2> QED
    BY <1>1, <2>1, <2>2, <2>3, Zenon DEF IInv, FreshAt, KnownAt, NotYet
<1> QED
  BY <1>2, <1>3, <1>4, <1>5, <1>6, <1>7, <1>8, <1>9, <1>10, <1>11, <1>12, Zenon DEF Reader

LEMMA InitHolds ==
    ASSUME HandshakeAssumption, Init
    PROVE  IInv
<1>1. TypeOK
  BY DEF HandshakeAssumption, Init, TypeOK
<1>2. \A e \in Ends : FreshAt(e) /\ KnownAt(e) /\ Len(wire[e]) = 0 /\ ~Passed(e)
  BY Zenon DEF Init, FreshAt, KnownAt, Passed
<1>3. NotYet
  BY ConnFacts, Zenon DEF Init, NotYet
<1>4. Told /\ OneConnectionPerPeer
  BY <1>2 DEF Told, OneConnectionPerPeer
<1> QED
  BY <1>1, <1>2, <1>3, <1>4, Zenon DEF IInv

LEMMA NextKeeps ==
    ASSUME HandshakeAssumption, IInv, [Next]_vars
    PROVE  IInv'
<1>1. CASE UNCHANGED vars
  <2>1. UNCHANGED <<state, stage, expected, complete, sent, peerId, listenPort, wire,
                    pending, peerList, banned, timeouts>>
    BY <1>1, Zenon DEF vars, conn, server
  <2>2. TypeOK' /\ OnlyCloses
    BY <2>1, Zenon DEF IInv, TypeOK, OnlyCloses
  <2> QED
    BY <2>1, <2>2, ClosingKeeps, Zenon
<1>2. ASSUME NEW c \in Conns, Dial(c) \/ Dialler(c) \/ Listener(c)
      PROVE  IInv'
  BY <1>2, ConnectKeeps, Zenon
<1>3. ASSUME NEW e \in Ends, Reader(e) \/ IdleTimeout(e) \/ DownloadMissing(e)
      PROVE  IInv'
  BY <1>3, ReaderKeeps, Zenon
<1> QED
  BY <1>1, <1>2, <1>3, Zenon DEF Next

\* The invariant holds in every reachable state.
THEOREM HandshakeInvariance ==
    ASSUME HandshakeAssumption
    PROVE  Spec => []IInv
<1>1. Init => IInv
  BY InitHolds, Zenon
<1>2. IInv /\ [Next]_vars => IInv'
  BY NextKeeps, Zenon
<1> QED
  BY <1>1, <1>2, PTL DEF Spec
\* The state of every connection and of every server has its type.
THEOREM HandshakeTypes ==
    ASSUME HandshakeAssumption
    PROVE  Spec => []TypeOK
<1>1. IInv => TypeOK
  BY Zenon DEF IInv
<1> QED
  BY <1>1, HandshakeInvariance, PTL

\* However many dials of however many nodes cross, a node never keeps two connections to the same
\* peer id past the search of HANDSHAKE_CHALLENGE (client.go:361-379): of two readers that store the
\* same id, the one that takes the lock second finds the other.
THEOREM OneConnectionSurvives ==
    ASSUME HandshakeAssumption
    PROVE  Spec => []OneConnectionPerPeer
<1>1. IInv => OneConnectionPerPeer
  BY Zenon DEF IInv
<1> QED
  BY <1>1, HandshakeInvariance, PTL

\* A peer that counts as good (IsGood, client.go:310-312) has accepted our solution, is the node we
\* think it is and belongs to our pool, also while nodes download blocks over connections that are
\* not good yet.
THEOREM GoodPeersAccepted ==
    ASSUME HandshakeAssumption
    PROVE  Spec => []GoodMeansAccepted
<1>1. IInv => GoodMeansAccepted
  BY EndFacts, Zenon DEF IInv, KnownAt, GoodMeansAccepted, IsGood
<1> QED
  BY <1>1, HandshakeInvariance, PTL

---------------------------------------------------------------------------
(* Bans.                                                                   *)

\* A step that leaves the bans alone closes nothing it has to.
LEMMA NoBan ==
    ASSUME UNCHANGED banned
    PROVE  BanClosesEveryConnection
  BY Zenon DEF BanClosesEveryConnection

\* A ban closes every connection to its address.
LEMMA BanCloseAll ==
    ASSUME HandshakeAssumption, TypeOK, NEW e \in Ends, (\E why : Ban(e, why)) \/ Close(e)
    PROVE  BanClosesEveryConnection
<1>1. ASSUME NEW why, Ban(e, why)
      PROVE  BanClosesEveryConnection
  <2> SUFFICES ASSUME NEW n \in Nodes, NEW m \in Nodes, m \in banned'[n], m \notin banned[n],
                      NEW f \in Ends, Owner(f) = n, Remote(f) = m
               PROVE  state'[f] # "open"
    BY Zenon DEF BanClosesEveryConnection, GetAddressConnected, Clients
  <2>1. banned' = [banned EXCEPT ![Owner(e)] = @ \cup {Remote(e)}] /\ Owner(e) \in Nodes
    BY <1>1, EndFacts, Zenon DEF Ban
  <2>2. n = Owner(e) /\ m = Remote(e)
    BY <2>1, Zenon DEF TypeOK
  <2>3. state[f] = "open" => f \in BanCloses(e)
    BY <2>2, Zenon DEF BanCloses, GetAddressConnected, Clients
  <2>4. state' = [d \in Ends |-> IF d \in BanCloses(e) THEN "closed" ELSE state[d]]
    BY <1>1, Zenon DEF Ban, Closed
  <2> QED
    BY <2>3, <2>4, Zenon
<1> QED
  BY <1>1, NoBan, Zenon DEF Close

\* A ban that Server.Ban adds closes every connection of that node to the address, whichever of them
\* it was raised on (server.go:738-770): no step leaves one in the list.
THEOREM BansCloseAll ==
    ASSUME HandshakeAssumption
    PROVE  Spec => [][BanClosesEveryConnection]_vars
<1>1. ASSUME IInv, Next
      PROVE  BanClosesEveryConnection
  <2>1. ASSUME NEW c \in Conns, Dial(c) \/ Dialler(c) \/ Listener(c)
        PROVE  UNCHANGED banned
    BY <2>1, Zenon DEF Dial, Dialler, DialFails, Connected, DialDone, Listener, AcceptCheck,
                AcceptAppend, server
  <2>2. ASSUME NEW e \in Ends, Reader(e) \/ IdleTimeout(e) \/ DownloadMissing(e)
        PROVE  UNCHANGED banned \/ (\E why : Ban(e, why)) \/ Close(e)
    <3>1. CASE ReadOutOfTurn(e) \/ ReadBadSolution(e)
      BY <3>1, Zenon DEF ReadOutOfTurn, ReadBadSolution
    <3>2. CASE ReadChallenge(e) \/ LookForSamePeer(e)
      BY <3>2, Zenon DEF ReadChallenge, LookForSamePeer, server
    <3>3. CASE ReadError(e) \/ IdleTimeout(e)
      BY <3>3, Zenon DEF ReadError, IdleTimeout
    <3>4. CASE SendSolution(e) \/ ReadSolution(e) \/ ReadListenPort(e) \/ ReadBlockRequest(e)
               \/ DownloadMissing(e)
      BY <3>4, Zenon DEF SendSolution, ReadSolution, ReadListenPort, ReadBlockRequest, DownloadMissing,
                  server
    <3> QED
      BY <2>2, <3>1, <3>2, <3>3, <3>4, Zenon DEF Reader
  <2> QED
    BY <1>1, <2>1, <2>2, NoBan, BanCloseAll, Zenon DEF IInv, Next
<1>2. IInv /\ [Next]_vars => [BanClosesEveryConnection]_vars
  BY <1>1, Zenon
<1> QED
  BY <1>2, HandshakeInvariance, PTL DEF Spec
---------------------------------------------------------------------------
(* The order of the messages.                                              *)

\* The order in which a node sends the messages of a connection.
Rank == [challenge |-> 1, solution |-> 2, port |-> 3, request |-> 4]

\* How many of them an end has read (the last one leaves no trace).
At(e) ==
    IF stage[e] = "read" /\ expected[e] = "challenge" THEN 0
    ELSE IF ~complete[e] THEN 1
    ELSE IF ~listenPort[e] THEN 2 ELSE 3

\* The messages of w follow the first n in order.
Ranked(w, n) == \A i \in 1 .. Len(w) : Rank[w[i].type] = n + i

\* What is under way to an end follows what it has read, and is all that the other end has sent.
InOrder(e) == state[e] # "closed" /\ Remote(e) \notin Syncing =>
    /\ Ranked(wire[e], At(e))
    /\ state[Peer(e)] \in Before => At(e) + Len(wire[e]) = 0
    /\ state[Peer(e)] = "open" /\ ~sent[Peer(e)] => At(e) + Len(wire[e]) = 1
    /\ state[Peer(e)] = "open" /\ sent[Peer(e)] /\ ~complete[Peer(e)] => At(e) + Len(wire[e]) = 2

\* The solution is sent before anything but the challenge is read.
SentAt(e) ==
    /\ sent[e] => expected[e] = "solution" /\ stage[e] = "read"
    /\ listenPort[e] => complete[e]

Order == \A e \in Ends : InOrder(e) /\ SentAt(e)

\* Nodes of one pool only ban a peer that is not downloading blocks for a connection that ended in
\* the middle of the handshake.
QuietPeersAreNotBlamed ==
    \A b \in bans :
        b[2] \notin Syncing /\ ConsensusId[b[1]] = ConsensusId[b[2]]
            => b[3] = "disconnected before finishing handshake"
LEMMA RankFacts ==
    /\ Rank["challenge"] = 1 /\ Rank["solution"] = 2 /\ Rank["port"] = 3 /\ Rank["request"] = 4
    /\ \A m \in Messages : Rank[m.type] \in 1 .. 4
<1>1. /\ Rank["challenge"] = 1 /\ Rank["solution"] = 2 /\ Rank["port"] = 3
      /\ Rank["request"] = 4
  BY Zenon DEF Rank
<1> QED
  BY <1>1, MessageKinds

\* Taking the first message of an ordered stream.
LEMMA RankedTail ==
    ASSUME NEW w \in Seq(Messages), w # <<>>, NEW n \in Nat, Ranked(w, n)
    PROVE  /\ Rank[Head(w).type] = n + 1
           /\ Ranked(Tail(w), n + 1)
           /\ Len(w) \in Nat \ {0} /\ Len(Tail(w)) = Len(w) - 1
<1>1. /\ Head(w) = w[1] /\ Len(w) \in Nat \ {0} /\ Len(Tail(w)) = Len(w) - 1
      /\ \A i \in 1 .. Len(Tail(w)) : Tail(w)[i] = w[i + 1]
  BY SeqFacts, Zenon
<1>2. Rank[w[1].type] = n + 1
  BY <1>1 DEF Ranked
<1>3. ASSUME NEW i \in 1 .. Len(Tail(w))
      PROVE  Rank[Tail(w)[i].type] = n + 1 + i
  <2>1. i + 1 \in 1 .. Len(w) /\ Tail(w)[i] = w[i + 1]
    BY <1>1
  <2>2. Rank[w[i + 1].type] = n + (i + 1)
    BY <2>1, Zenon DEF Ranked
  <2> QED
    BY <2>1, <2>2
<1> QED
  BY <1>1, <1>2, <1>3, Zenon DEF Ranked

\* Adding the messages that come next.
LEMMA RankedConcat ==
    ASSUME NEW w \in Seq(Messages), NEW q \in Seq(Messages), NEW n \in Nat,
           Ranked(w, n), Ranked(q, n + Len(w))
    PROVE  Ranked(w \o q, n) /\ Len(w \o q) = Len(w) + Len(q)
<1>1. Len(w) \in Nat /\ Len(q) \in Nat
  BY SeqFacts, Zenon
<1>2. /\ Len(w \o q) = Len(w) + Len(q)
      /\ \A i \in 1 .. Len(w) + Len(q) :
            (w \o q)[i] = IF i <= Len(w) THEN w[i] ELSE q[i - Len(w)]
  BY JoinFacts, Zenon
<1>3. ASSUME NEW i \in 1 .. Len(w) + Len(q)
      PROVE  Rank[(w \o q)[i].type] = n + i
  <2>1. CASE i <= Len(w)
    BY <1>1, <1>2, <2>1 DEF Ranked
  <2>2. CASE ~(i <= Len(w))
    <3>1. i - Len(w) \in 1 .. Len(q) /\ (w \o q)[i] = q[i - Len(w)]
      BY <1>1, <1>2, <2>2
    <3>2. Rank[q[i - Len(w)].type] = n + Len(w) + (i - Len(w))
      BY <3>1, Zenon DEF Ranked
    <3> QED
      BY <1>1, <3>1, <3>2
  <2> QED
    BY <2>1, <2>2, Zenon
<1> QED
  BY <1>2, <1>3, Zenon DEF Ranked

LEMMA AtFacts ==
    ASSUME TypeOK, NEW e \in Ends
    PROVE  At(e) \in 0 .. 3
  BY SMTT(30) DEF At

\* The order at an end whose stream and progress stay, and whose other end closes, waits or stays.
LEMMA OrderElsewhere ==
    ASSUME NEW f \in Ends, InOrder(f),
           wire'[f] = wire[f],
           state'[f] # "closed" => state[f] # "closed" /\ At(f)' = At(f),
           \/ state'[Peer(f)] = "closed"
           \/ state[Peer(f)] \in Before /\ state'[Peer(f)] \in Before
           \/ /\ state'[Peer(f)] = state[Peer(f)]
              /\ sent'[Peer(f)] = sent[Peer(f)]
              /\ complete'[Peer(f)] = complete[Peer(f)]
    PROVE  InOrder(f)'
  BY Zenon DEF InOrder, Ranked, Before

\* The order at an end that reads the next message.
LEMMA OrderReads ==
    ASSUME HandshakeAssumption, TypeOK, NEW e \in Ends, InOrder(e), state[e] = "open",
           wire[e] # <<>>, wire'[e] = Tail(wire[e]),
           Remote(e) \notin Syncing => At(e)' = At(e) + 1 \/ (At(e) = 3 /\ At(e)' = 3),
           state'[Peer(e)] = state[Peer(e)],
           sent'[Peer(e)] = sent[Peer(e)],
           complete'[Peer(e)] = complete[Peer(e)]
    PROVE  InOrder(e)'
<1> SUFFICES ASSUME Remote(e) \notin Syncing
             PROVE  InOrder(e)'
  BY Zenon DEF InOrder
<1> DEFINE w == wire[e]
           a == At(e)
<1>1. w \in Seq(Messages) /\ Ranked(w, a) /\ a \in 0 .. 3
  BY WireTypes, AtFacts, Zenon DEF InOrder
<1>2. /\ Rank[Head(w).type] = a + 1 /\ Ranked(Tail(w), a + 1)
      /\ Len(w) \in Nat \ {0} /\ Len(Tail(w)) = Len(w) - 1
  BY <1>1, RankedTail, SMTT(30)
<1>3. CASE At(e)' = At(e) + 1
  <2>1. At(e)' + Len(wire'[e]) = At(e) + Len(wire[e])
    BY <1>1, <1>2, <1>3
  <2>2. Ranked(wire'[e], At(e)')
    BY <1>2, <1>3, Zenon
  <2> HIDE DEF w, a
  <2> QED
    BY <2>1, <2>2, Zenon DEF InOrder, Ranked
<1>4. CASE At(e) = 3 /\ At(e)' = 3
  <2>1. Len(w) = 1
    <3> HIDE DEF w, a
    <3>1. SUFFICES ASSUME Len(w) > 1 PROVE FALSE
      BY <1>2
    <3>2. 2 \in 1 .. Len(w)
      BY <1>2, <3>1, SMTT(30)
    <3>3. w[2] \in Messages
      BY <1>1, <3>2, SeqFacts, Zenon
    <3>4. a = 3
      BY <1>4, Zenon DEF a
    <3>5. Rank[w[2].type] = 5
      BY <1>1, <3>2, <3>4, SMTT(30) DEF Ranked
    <3> QED
      BY <3>3, <3>5, RankFacts
  <2>2. Ranked(wire'[e], At(e)')
    BY <1>2, <2>1, SMTT(30) DEF Ranked
  <2>3. At(e) + Len(wire[e]) = 4
    BY <1>4, <2>1, SMTT(30)
  <2> HIDE DEF w, a
  <2> QED
    BY <2>2, <2>3 DEF InOrder, Ranked
<1> QED
  BY <1>3, <1>4, ZenonT(30)

\* The order at the end that receives what the other end sends.
LEMMA OrderSends ==
    ASSUME HandshakeAssumption, TypeOK, NEW f \in Ends, InOrder(f), NEW q \in Seq(Messages),
           wire'[f] = wire[f] \o q,
           state'[f] = state[f], At(f)' = At(f),
           state[f] # "closed" /\ Remote(f) \notin Syncing =>
              /\ Ranked(q, At(f) + Len(wire[f]))
              /\ state'[Peer(f)] = "open" /\ sent'[Peer(f)] \in BOOLEAN
              /\ ~sent'[Peer(f)] => At(f) + Len(wire[f]) + Len(q) = 1
              /\ sent'[Peer(f)] /\ ~complete'[Peer(f)] => At(f) + Len(wire[f]) + Len(q) = 2
    PROVE  InOrder(f)'
<1> SUFFICES ASSUME Remote(f) \notin Syncing, state[f] # "closed"
             PROVE  InOrder(f)'
  BY ZenonT(30) DEF InOrder
<1>1. wire[f] \in Seq(Messages) /\ Ranked(wire[f], At(f)) /\ At(f) \in Nat
  BY WireTypes, AtFacts, SMTT(30) DEF InOrder
<1>2. Ranked(wire[f] \o q, At(f)) /\ Len(wire[f] \o q) = Len(wire[f]) + Len(q)
  BY <1>1, RankedConcat, Zenon
<1>3. Ranked(wire'[f], At(f)')
  BY <1>2, Zenon
<1>4. At(f)' + Len(wire'[f]) = At(f) + Len(wire[f]) + Len(q)
  BY <1>1, <1>2, SeqFacts
<1> QED
  BY <1>3, <1>4, Zenon DEF InOrder, Ranked, Before
\* Progress at an end whose reader does nothing.
LEMMA AtStays ==
    ASSUME NEW f,
           stage'[f] = stage[f], expected'[f] = expected[f],
           complete'[f] = complete[f], listenPort'[f] = listenPort[f]
    PROVE  At(f)' = At(f)
  BY Zenon DEF At

\* The next message of an open end is the one it waits for.
LEMMA NextInOrder ==
    ASSUME HandshakeAssumption, IInv, Order, NEW e \in Ends, Reading(e), wire[e] # <<>>,
           Remote(e) \notin Syncing
    PROVE  /\ Rank[Head(wire[e]).type] = At(e) + 1
           /\ Head(wire[e]) \in Messages
           /\ ~OutOfTurn(e, Head(wire[e]).type)
<1>1. wire[e] \in Seq(Messages) /\ Head(wire[e]) \in Messages /\ At(e) \in 0 .. 3
  BY WireTypes, AtFacts, Zenon DEF IInv
<1>2. Ranked(wire[e], At(e)) /\ SentAt(e) /\ KnownAt(e) /\ state[e] = "open" /\ stage[e] = "read"
  BY Zenon DEF IInv, Order, InOrder, Reading
<1>3. Rank[Head(wire[e]).type] = At(e) + 1
  BY <1>1, <1>2, RankedTail, SMTT(30)
<1>4. PICK t : t = Head(wire[e]).type /\ t \in {"challenge", "solution", "port", "request"}
  BY <1>1, MessageKinds, Zenon
<1>5. expected[e] \in {"challenge", "solution"} /\ complete[e] \in BOOLEAN
  BY Zenon DEF IInv, TypeOK
<1>6. CASE expected[e] = "challenge"
  <2>1. ~complete[e] /\ ~listenPort[e] /\ At(e) = 0
    BY <1>2, <1>6, Zenon DEF KnownAt, SentAt, At
  <2>2. t = "challenge"
    BY <1>3, <1>4, <2>1, RankFacts
  <2> QED
    BY <1>1, <1>3, <1>4, <1>6, <2>1, <2>2, Zenon DEF OutOfTurn
<1>7. CASE expected[e] = "solution" /\ ~complete[e]
  <2>1. ~listenPort[e] /\ At(e) = 1
    BY <1>2, <1>7, Zenon DEF SentAt, At
  <2>2. t = "solution"
    BY <1>3, <1>4, <2>1, RankFacts
  <2> QED
    BY <1>1, <1>3, <1>4, <1>7, <2>1, <2>2, Zenon DEF OutOfTurn
<1>8. CASE expected[e] = "solution" /\ complete[e] /\ ~listenPort[e]
  <2>1. At(e) = 2
    BY <1>8, Zenon DEF At
  <2>2. t = "port"
    BY <1>3, <1>4, <2>1, RankFacts, SMTT(30)
  <2> QED
    BY <1>1, <1>3, <1>4, <1>8, <2>1, <2>2, Zenon DEF OutOfTurn
<1>9. CASE expected[e] = "solution" /\ complete[e] /\ listenPort[e]
  <2>1. At(e) = 3
    BY <1>9, Zenon DEF At
  <2>2. t = "request"
    BY <1>3, <1>4, <2>1, RankFacts, SMTT(30)
  <2> QED
    BY <1>1, <1>3, <1>4, <1>9, <2>1, <2>2, Zenon DEF OutOfTurn
<1> QED
  BY <1>5, <1>6, <1>7, <1>8, <1>9, Zenon

\* An end is added to the list and sends its challenge.
LEMMA OpeningOrders ==
    ASSUME HandshakeAssumption, IInv, Order, NEW p \in Ends, state[p] \in Before,
           state' = [state EXCEPT ![p] = "open"],
           Send(p, <<Challenge(Owner(p))>>),
           UNCHANGED <<stage, expected, complete, sent, peerId, listenPort>>
    PROVE  Order'
<1> DEFINE q == <<Challenge(Owner(p))>>
<1>1. q \in Seq(Messages) /\ Len(q) = 1 /\ q[1].type = "challenge" /\ Send(p, q)
  BY SentMessages DEF Challenge
<1> HIDE DEF q
<1>2. Peer(p) \in Ends /\ Peer(p) # p /\ Peer(Peer(p)) = p
  BY EndFacts, Zenon
<1>3. /\ wire'[Peer(p)] = wire[Peer(p)] \o q
      /\ \A f \in Ends : f # Peer(p) => wire'[f] = wire[f]
  BY <1>1, SendTypes, Zenon DEF IInv
<1>4. state'[p] = "open" /\ \A f \in Ends : f # p => state'[f] = state[f]
  BY Zenon DEF IInv, TypeOK
<1>5. \A f \in Ends : At(f)' = At(f)
  BY AtStays, Zenon
<1>6. InOrder(Peer(p))'
  <2>1. ~sent[p]
    BY Zenon DEF IInv, FreshAt, Order, SentAt
  <2>2. state[Peer(p)] # "closed" /\ Remote(Peer(p)) \notin Syncing =>
           At(Peer(p)) + Len(wire[Peer(p)]) = 0
    BY <1>2, Zenon DEF Order, InOrder
  <2>3. Ranked(q, 0)
    BY <1>1, RankFacts DEF Ranked
  <2>4. InOrder(Peer(p)) /\ TypeOK
    BY <1>2, Zenon DEF Order, IInv
  <2> DEFINE g == Peer(p)
  <2>5. /\ g \in Ends /\ wire'[g] = wire[g] \o q /\ state'[g] = state[g] /\ At(g)' = At(g)
        /\ Peer(g) = p /\ state'[p] = "open" /\ sent'[p] \in BOOLEAN /\ ~sent'[p]
    BY <1>2, <1>3, <1>4, <1>5, <2>1, Zenon DEF IInv, TypeOK
  <2>6. state[g] # "closed" /\ Remote(g) \notin Syncing =>
           Ranked(q, At(g) + Len(wire[g])) /\ At(g) + Len(wire[g]) + Len(q) = 1
    BY <1>1, <2>2, <2>3
  <2> HIDE DEF g
  <2>7. InOrder(g)'
    BY <1>1, <2>4, <2>5, <2>6, OrderSends, Zenon DEF g
  <2> QED
    BY <2>7, Zenon DEF g
<1>7. ASSUME NEW f \in Ends, f # Peer(p)
      PROVE  InOrder(f)'
  <2>1. Peer(f) \in Ends /\ Peer(f) # p
    BY <1>2, <1>7, EndFacts, Zenon
  <2>2. state'[f] # "closed" => state[f] # "closed"
    BY <1>4, Zenon DEF Before
  <2> QED
    BY <1>3, <1>4, <1>5, <1>7, <2>1, <2>2, OrderElsewhere, Zenon DEF Order
<1> QED
  BY <1>6, <1>7, Zenon DEF Order, SentAt

\* Dialling and accepting.
LEMMA ConnectOrders ==
    ASSUME HandshakeAssumption, IInv, Order, NEW c \in Conns, Dial(c) \/ Dialler(c) \/ Listener(c)
    PROVE  Order'
<1>1. /\ Out(c) \in Ends /\ In(c) \in Ends /\ Out(c) # In(c)
      /\ Owner(Out(c)) = Initiator[c] /\ Owner(In(c)) = Acceptor[c]
  BY ConnFacts, Zenon
<1>2. state \in [Ends -> States]
  BY Zenon DEF IInv, TypeOK, States
<1>3. UNCHANGED <<stage, expected, complete, sent, peerId, listenPort>>
  BY Zenon DEF Dial, Dialler, DialFails, Connected, DialDone, Listener, AcceptCheck, AcceptAppend
<1>4. ASSUME wire' = wire,
             \A g \in Ends : \/ state'[g] = "closed"
                             \/ state[g] \in Before /\ state'[g] \in Before
                             \/ state'[g] = state[g]
      PROVE  Order'
  <2>1. ASSUME NEW f \in Ends
        PROVE  InOrder(f)'
    <3>1. At(f)' = At(f) /\ Peer(f) \in Ends
      BY <1>3, AtStays, EndFacts, Zenon
    <3>2. state'[f] # "closed" => state[f] # "closed"
      BY <1>4, Zenon DEF Before
    <3> QED
      BY <1>3, <1>4, <3>1, <3>2, OrderElsewhere, Zenon DEF Order
  <2> QED
    BY <1>3, <2>1, Zenon DEF Order, SentAt
<1>5. CASE Dial(c)
  BY <1>1, <1>2, <1>4, <1>5, Zenon DEF Dial, Before
<1>6. CASE DialFails(c)
  BY <1>1, <1>2, <1>4, <1>6, Zenon DEF DialFails, Closed
<1>7. CASE Connected(c)
  <2>1. state[In(c)] = "none"
    BY <1>7, Zenon DEF IInv, NotYet, Connected
  <2> QED
    BY <1>1, <1>2, <1>4, <1>7, <2>1, Zenon DEF Connected, Before
<1>8. CASE DialDone(c)
  BY <1>1, <1>3, <1>8, OpeningOrders, ZenonT(30) DEF DialDone, Before
<1>9. CASE AcceptCheck(c)
  BY <1>1, <1>2, <1>4, <1>9, Zenon DEF AcceptCheck, Before
<1>10. CASE AcceptAppend(c)
  BY <1>1, <1>3, <1>10, OpeningOrders, ZenonT(30) DEF AcceptAppend, Before
<1> QED
  BY <1>5, <1>6, <1>7, <1>8, <1>9, <1>10, Zenon DEF Dialler, Listener
\* A reader ends its connection.
LEMMA EndingOrders ==
    ASSUME HandshakeAssumption, IInv, Order, NEW e \in Ends, state[e] = "open",
           (\E why : Ban(e, why)) \/ Close(e),
           UNCHANGED <<stage, expected, sent, listenPort>>,
           complete' = complete \/ complete' = [complete EXCEPT ![e] = TRUE],
           wire' = wire \/ wire' = [wire EXCEPT ![e] = Tail(@)]
    PROVE  Order'
<1>1. OnlyCloses /\ state'[e] = "closed"
  BY BanTypes, Zenon DEF IInv
<1>2. \A f \in Ends : f # e => complete'[f] = complete[f] /\ wire'[f] = wire[f]
  BY Zenon DEF IInv, TypeOK
<1>3. \A f \in Ends : complete[f] => complete'[f]
  BY ZenonT(30) DEF IInv, TypeOK
<1>4. InOrder(e)'
  BY <1>1, Zenon DEF InOrder
<1>5. ASSUME NEW f \in Ends, f # e
      PROVE  InOrder(f)'
  <2>1. Peer(f) \in Ends
    BY EndFacts, Zenon
  <2>2. At(f)' = At(f)
    BY <1>2, <1>5, AtStays, Zenon
  <2>3. state'[f] # "closed" => state[f] # "closed"
    BY <1>1, Zenon DEF OnlyCloses
  <2>4. \/ state'[Peer(f)] = "closed"
        \/ /\ state'[Peer(f)] = state[Peer(f)]
           /\ sent'[Peer(f)] = sent[Peer(f)]
           /\ complete'[Peer(f)] = complete[Peer(f)]
    BY <1>1, <1>2, <2>1, Zenon DEF OnlyCloses
  <2> QED
    BY <1>2, <1>5, <2>2, <2>3, <2>4, OrderElsewhere, Zenon DEF Order
<1> QED
  BY <1>3, <1>4, <1>5, Zenon DEF Order, SentAt

\* A reader takes the next message and sends nothing.
LEMMA ReadingOrders ==
    ASSUME HandshakeAssumption, IInv, Order, NEW e \in Ends, state[e] = "open", wire[e] # <<>>,
           wire' = [wire EXCEPT ![e] = Tail(@)],
           Remote(e) \notin Syncing => At(e)' = At(e) + 1 \/ (At(e) = 3 /\ At(e)' = 3),
           UNCHANGED <<state, sent, complete, expected>>,
           \A f \in Ends : f # e => stage'[f] = stage[f] /\ listenPort'[f] = listenPort[f],
           SentAt(e)'
    PROVE  Order'
<1>1. wire'[e] = Tail(wire[e]) /\ \A f \in Ends : f # e => wire'[f] = wire[f]
  BY Zenon DEF IInv, TypeOK
<1>2. InOrder(e)'
  BY <1>1, OrderReads, ZenonT(30) DEF IInv, Order
<1>3. ASSUME NEW f \in Ends, f # e
      PROVE  InOrder(f)' /\ SentAt(f)'
  <2>1. At(f)' = At(f)
    BY <1>3, AtStays, Zenon
  <2>2. InOrder(f)'
    BY <1>1, <1>3, <2>1, OrderElsewhere, Zenon DEF Order
  <2> QED
    BY <1>3, <2>2, Zenon DEF Order, SentAt
<1> QED
  BY <1>2, <1>3, ZenonT(30) DEF Order

\* HANDSHAKE_CHALLENGE.
LEMMA ChallengeOrders ==
    ASSUME HandshakeAssumption, IInv, Order, NEW e \in Ends, ReadChallenge(e)
    PROVE  Order'
<1>1. /\ state[e] = "open" /\ stage[e] = "read" /\ wire[e] # <<>>
      /\ ~OutOfTurn(e, "challenge")
      /\ wire' = [wire EXCEPT ![e] = Tail(@)]
      /\ UNCHANGED <<expected, sent, listenPort>>
  BY Zenon DEF ReadChallenge, Receives, Reading
<1>2. CASE /\ complete' = [complete EXCEPT ![e] = TRUE]
           /\ Close(e)
           /\ UNCHANGED <<peerId, stage>>
  BY <1>1, <1>2, EndingOrders, Zenon
<1>3. CASE /\ peerId' = [peerId EXCEPT ![e] = ChallengePeerId(Head(wire[e]))]
           /\ stage' = [stage EXCEPT ![e] = "stored"]
           /\ UNCHANGED <<complete, state, server>>
  <2>1. ~complete[e] /\ expected[e] = "challenge"
    BY <1>1, Zenon DEF OutOfTurn
  <2>2. stage'[e] = "stored" /\ \A f \in Ends : f # e => stage'[f] = stage[f]
    BY <1>3, Zenon DEF IInv, TypeOK
  <2>3. At(e) = 0 /\ At(e)' = 1
    BY <1>1, <1>3, <2>1, <2>2, Zenon DEF At
  <2>4. SentAt(e)'
    BY <1>1, <1>3, <2>1, Zenon DEF Order, SentAt
  <2>5. UNCHANGED <<state, sent, complete, expected>> /\ At(e)' = At(e) + 1
    BY <1>1, <1>3, <2>3
  <2>6. \A f \in Ends : f # e => stage'[f] = stage[f] /\ listenPort'[f] = listenPort[f]
    BY <1>1, <2>2, Zenon
  <2> QED
    BY <1>1, <2>4, <2>5, <2>6, ReadingOrders, Zenon
<1> QED
  BY <1>2, <1>3, Zenon DEF ReadChallenge

\* The search for another connection to the same peer id.
LEMMA SearchOrders ==
    ASSUME HandshakeAssumption, IInv, Order, NEW e \in Ends, LookForSamePeer(e)
    PROVE  Order'
<1>1. /\ state[e] = "open" /\ stage[e] = "stored"
      /\ UNCHANGED <<expected, sent, listenPort, wire>>
  BY Zenon DEF LookForSamePeer
<1>2. CASE complete' = [complete EXCEPT ![e] = TRUE] /\ Close(e) /\ UNCHANGED stage
  BY <1>1, <1>2, EndingOrders, Zenon
<1>3. CASE stage' = [stage EXCEPT ![e] = "solve"] /\ UNCHANGED <<complete, state, server>>
  <2>1. stage'[e] = "solve" /\ \A f \in Ends : f # e => stage'[f] = stage[f]
    BY <1>3, Zenon DEF IInv, TypeOK
  <2>2. \A f \in Ends : At(f)' = At(f)
    BY <1>1, <1>3, <2>1, Zenon DEF At
  <2>3. ASSUME NEW f \in Ends
        PROVE  InOrder(f)' /\ SentAt(f)'
    <3>1. InOrder(f)'
      BY <1>1, <1>3, <2>2, OrderElsewhere, Zenon DEF Order
    <3>2. SentAt(f)'
      BY <1>1, <1>3, <2>1, ZenonT(30) DEF Order, SentAt
    <3> QED
      BY <3>1, <3>2, Zenon
  <2> QED
    BY <2>3, Zenon DEF Order
<1> QED
  BY <1>2, <1>3, Zenon DEF LookForSamePeer

\* sendHandshakeSolution.
LEMMA SolutionOrders ==
    ASSUME HandshakeAssumption, IInv, Order, NEW e \in Ends, SendSolution(e)
    PROVE  Order'
<1>1. /\ state[e] = "open" /\ stage[e] = "solve"
      /\ sent' = [sent EXCEPT ![e] = TRUE]
      /\ expected' = [expected EXCEPT ![e] = "solution"]
      /\ stage' = [stage EXCEPT ![e] = "read"]
      /\ UNCHANGED <<state, complete, listenPort>>
  BY Zenon DEF SendSolution
<1>2. /\ sent'[e] = TRUE /\ expected'[e] = "solution" /\ stage'[e] = "read"
      /\ \A f \in Ends : f # e => /\ sent'[f] = sent[f] /\ expected'[f] = expected[f]
                                  /\ stage'[f] = stage[f]
  BY <1>1, Zenon DEF IInv, TypeOK
<1>3. ~sent[e] /\ ~complete[e]
  BY <1>1, Zenon DEF IInv, KnownAt, Order, SentAt
<1>4. \A f \in Ends : At(f)' = At(f)
  BY <1>1, <1>2, <1>3, ZenonT(30) DEF At
<1>5. PICK p \in BOOLEAN : Send(e, <<Solution(Peer(e), ConsensusId[Owner(e)], p)>>)
  BY Zenon DEF SendSolution
<1> DEFINE q == <<Solution(Peer(e), ConsensusId[Owner(e)], p)>>
           g == Peer(e)
<1>6. q \in Seq(Messages) /\ Len(q) = 1 /\ q[1].type = "solution" /\ Send(e, q)
  BY <1>5, SentMessages DEF Solution
<1> HIDE DEF q
<1>7. g \in Ends /\ g # e /\ Peer(g) = e
  BY EndFacts, Zenon
<1>8. wire'[g] = wire[g] \o q /\ \A f \in Ends : f # g => wire'[f] = wire[f]
  BY <1>6, SendTypes, Zenon DEF IInv
<1> HIDE DEF g
<1>9. InOrder(g)'
  <2>1. state[g] # "closed" /\ Remote(g) \notin Syncing => At(g) + Len(wire[g]) = 1
    BY <1>1, <1>3, <1>7, Zenon DEF Order, InOrder
  <2>2. Ranked(q, 1)
    BY <1>6, RankFacts DEF Ranked
  <2>3. state[g] # "closed" /\ Remote(g) \notin Syncing =>
           Ranked(q, At(g) + Len(wire[g])) /\ At(g) + Len(wire[g]) + Len(q) = 2
    BY <1>6, <2>1, <2>2
  <2>4. InOrder(g) /\ TypeOK /\ state'[g] = state[g] /\ state'[e] = "open" /\ sent'[e] = TRUE
    BY <1>1, <1>2, <1>7, Zenon DEF Order, IInv
  <2> QED
    BY <1>4, <1>6, <1>7, <1>8, <2>3, <2>4, OrderSends, Zenon
<1>10. ASSUME NEW f \in Ends, f # g
       PROVE  InOrder(f)'
  <2>1. Peer(f) \in Ends /\ Peer(f) # e
    BY <1>7, <1>10, EndFacts, Zenon DEF g
  <2> QED
    BY <1>1, <1>2, <1>4, <1>8, <1>10, <2>1, OrderElsewhere, Zenon DEF Order
<1> QED
  BY <1>1, <1>2, <1>9, <1>10 DEF Order, SentAt
\* HANDSHAKE_SOLUTION with a right answer.
LEMMA AcceptanceOrders ==
    ASSUME HandshakeAssumption, IInv, Order, NEW e \in Ends, ReadSolution(e)
    PROVE  Order'
<1>1. /\ state[e] = "open" /\ stage[e] = "read" /\ wire[e] # <<>>
      /\ ~complete[e] /\ expected[e] = "solution"
      /\ complete' = [complete EXCEPT ![e] = TRUE]
      /\ UNCHANGED <<state, stage, expected, sent, listenPort>>
  BY Zenon DEF ReadSolution, Receives, Reading, OutOfTurn
<1>2. sent[e] /\ ~listenPort[e]
  BY <1>1, Zenon DEF IInv, KnownAt, Order, SentAt
<1>3. complete'[e] = TRUE /\ \A f \in Ends : f # e => complete'[f] = complete[f]
  BY <1>1, Zenon DEF IInv, TypeOK
<1> DEFINE q == <<ListenPort, BlockRequest>>
           g == Peer(e)
<1>4. /\ q \in Seq(Messages) /\ Len(q) = 2
      /\ q[1].type = "port" /\ q[2].type = "request"
  BY SentMessages DEF ListenPort, BlockRequest
<1>5. g \in Ends /\ g # e /\ Peer(g) = e
  BY EndFacts, Zenon
<1>6. wire' = [wire EXCEPT ![e] = Tail(@), ![g] = @ \o q]
  BY <1>2, Zenon DEF ReadSolution
<1> HIDE DEF q, g
<1>7. /\ wire'[e] = Tail(wire[e]) /\ wire'[g] = wire[g] \o q
      /\ \A f \in Ends : f # e /\ f # g => wire'[f] = wire[f]
  BY <1>5, <1>6, Zenon DEF IInv, TypeOK
<1>8. \A f \in Ends : f # e => At(f)' = At(f)
  BY <1>1, <1>3, AtStays, Zenon
<1>9. InOrder(e)'
  <2>1. At(e) = 1 /\ At(e)' = 2
    BY <1>1, <1>2, <1>3, Zenon DEF At
  <2>2. At(e)' = At(e) + 1
    BY <2>1, SMTT(30)
  <2>3. /\ state'[Peer(e)] = state[Peer(e)] /\ sent'[Peer(e)] = sent[Peer(e)]
        /\ complete'[Peer(e)] = complete[Peer(e)]
    BY <1>1, <1>3, <1>5, Zenon DEF g
  <2>4. TypeOK /\ InOrder(e)
    BY Zenon DEF IInv, Order
  <2> QED
    BY <1>1, <1>7, <2>2, <2>3, <2>4, OrderReads, Zenon
<1>10. InOrder(g)'
  <2>1. state[g] # "closed" /\ Remote(g) \notin Syncing => At(g) + Len(wire[g]) = 2
    BY <1>1, <1>2, <1>5, Zenon DEF Order, InOrder
  <2>2. Ranked(q, 2)
    BY <1>4, RankFacts DEF Ranked
  <2>3. state[g] # "closed" /\ Remote(g) \notin Syncing => Ranked(q, At(g) + Len(wire[g]))
    BY <2>1, <2>2, Zenon
  <2>4. /\ InOrder(g) /\ TypeOK /\ state'[g] = state[g] /\ At(g)' = At(g)
        /\ state'[e] = "open" /\ sent'[e] /\ sent'[e] \in BOOLEAN
    BY <1>1, <1>2, <1>5, <1>8, Zenon DEF Order, IInv, TypeOK
  <2> QED
    BY <1>3, <1>4, <1>5, <1>7, <2>3, <2>4, OrderSends, Zenon
<1>11. ASSUME NEW f \in Ends, f # e, f # g
       PROVE  InOrder(f)'
  <2>1. Peer(f) \in Ends /\ Peer(f) # e
    BY <1>11, EndFacts, Zenon DEF g
  <2> QED
    BY <1>1, <1>3, <1>7, <1>8, <1>11, <2>1, OrderElsewhere, Zenon DEF Order
<1>12. \A f \in Ends : SentAt(f)'
  BY <1>1, <1>3, Zenon DEF Order, SentAt
<1> QED
  BY <1>9, <1>10, <1>11, <1>12, Zenon DEF Order

\* A step of a reader, of the idle check or of DownloadMissingBlocks.
LEMMA ReaderOrders ==
    ASSUME HandshakeAssumption, IInv, Order, NEW e \in Ends,
           Reader(e) \/ IdleTimeout(e) \/ DownloadMissing(e)
    PROVE  Order'
<1>1. CASE ReadOutOfTurn(e)
  BY <1>1, EndingOrders, Zenon DEF ReadOutOfTurn, Reading
<1>2. CASE ReadChallenge(e)
  BY <1>2, ChallengeOrders, Zenon
<1>3. CASE LookForSamePeer(e)
  BY <1>3, SearchOrders, Zenon
<1>4. CASE SendSolution(e)
  BY <1>4, SolutionOrders, Zenon
<1>5. CASE ReadSolution(e)
  BY <1>5, AcceptanceOrders, Zenon
<1>6. CASE ReadBadSolution(e)
  BY <1>6, EndingOrders, Zenon DEF ReadBadSolution, Receives, Reading
<1>7. CASE ReadListenPort(e)
  <2>1. /\ state[e] = "open" /\ stage[e] = "read" /\ wire[e] # <<>>
        /\ ~OutOfTurn(e, "port")
        /\ wire' = [wire EXCEPT ![e] = Tail(@)]
        /\ listenPort' = [listenPort EXCEPT ![e] = TRUE]
        /\ UNCHANGED <<state, stage, expected, complete, sent>>
    BY <1>7, Zenon DEF ReadListenPort, Receives, Reading
  <2>2. listenPort'[e] = TRUE /\ \A f \in Ends : f # e => listenPort'[f] = listenPort[f]
    BY <2>1, Zenon DEF IInv, TypeOK
  <2>3. complete[e] /\ ~listenPort[e]
    BY <2>1, Zenon DEF OutOfTurn, IInv, TypeOK
  <2>4. expected[e] = "solution"
    BY <2>1, <2>3, ZenonT(30) DEF IInv, KnownAt
  <2>5. At(e) = 2 /\ At(e)' = 3
    BY <2>1, <2>2, <2>3, <2>4, Zenon DEF At
  <2>6. At(e)' = At(e) + 1
    BY <2>5, SMTT(30)
  <2>7. SentAt(e)'
    BY <2>1, <2>3, Zenon DEF Order, SentAt
  <2> QED
    BY <2>1, <2>2, <2>6, <2>7, ReadingOrders, Zenon
<1>8. CASE ReadBlockRequest(e)
  <2>1. /\ Reading(e) /\ state[e] = "open" /\ wire[e] # <<>> /\ Head(wire[e]).type = "request"
        /\ wire' = [wire EXCEPT ![e] = Tail(@)]
        /\ UNCHANGED <<state, stage, expected, complete, sent, listenPort>>
    BY <1>8, Zenon DEF ReadBlockRequest, Receives, Reading, conn
  <2>2. At(e)' = At(e) /\ At(e) \in 0 .. 3
    BY <2>1, AtStays, AtFacts, Zenon DEF IInv
  <2>3. Remote(e) \notin Syncing => At(e) = 3
    BY <2>1, <2>2, NextInOrder, RankFacts, SMTT(30)
  <2>4. SentAt(e)'
    BY <2>1, Zenon DEF Order, SentAt
  <2> QED
    BY <2>1, <2>2, <2>3, <2>4, ReadingOrders, ZenonT(30)
<1>9. CASE ReadError(e)
  BY <1>9, EndingOrders, Zenon DEF ReadError, Reading
<1>10. CASE IdleTimeout(e)
  BY <1>10, EndingOrders, Zenon DEF IdleTimeout
<1>11. CASE DownloadMissing(e)
  <2>1. UNCHANGED <<state, stage, expected, complete, sent, listenPort>> /\ Owner(e) \in Syncing
    BY <1>11, Zenon DEF DownloadMissing, conn
  <2>2. <<BlockRequest>> \in Seq(Messages) /\ Send(e, <<BlockRequest>>)
    BY <1>11, SentMessages DEF DownloadMissing
  <2>3. \A f \in Ends : f # Peer(e) => wire'[f] = wire[f]
    BY <2>2, SendTypes, Zenon DEF IInv
  <2>4. InOrder(Peer(e))'
    BY <2>1, EndFacts, Zenon DEF InOrder
  <2>5. ASSUME NEW f \in Ends, f # Peer(e)
        PROVE  InOrder(f)'
    BY <2>1, <2>3, <2>5, AtStays, OrderElsewhere, Zenon DEF Order
  <2> QED
    BY <2>1, <2>4, <2>5, Zenon DEF Order, SentAt
<1> QED
  BY <1>1, <1>2, <1>3, <1>4, <1>5, <1>6, <1>7, <1>8, <1>9, <1>10, <1>11, Zenon DEF Reader
\* A step that adds no ban, or one that blames nobody, keeps QuietPeersAreNotBlamed.
LEMMA BlameStep ==
    ASSUME QuietPeersAreNotBlamed, NEW n, NEW m, NEW why,
           bans' = bans \/ bans' = bans \cup {<<n, m, why>>},
           bans' = bans \/ m \in Syncing \/ ConsensusId[n] # ConsensusId[m]
              \/ why = "disconnected before finishing handshake"
    PROVE  QuietPeersAreNotBlamed'
<1>1. <<n, m, why>>[1] = n /\ <<n, m, why>>[2] = m /\ <<n, m, why>>[3] = why
  BY Zenon
<1> QED
  BY <1>1, Zenon DEF QuietPeersAreNotBlamed

\* Closing a connection blames nobody: the only ban it may add is for the disconnection.
LEMMA CloseBlamesNobody ==
    ASSUME QuietPeersAreNotBlamed, NEW e \in Ends, Close(e)
    PROVE  QuietPeersAreNotBlamed'
<1>1. \/ bans' = bans
      \/ bans' = bans \cup {<<Owner(e), Remote(e), "disconnected before finishing handshake">>}
  BY Zenon DEF Close, Ban
<1> QED
  BY <1>1, BlameStep, Zenon

\* A message out of turn comes only from a peer that is downloading, a wrong solution only from
\* another pool.
LEMMA ReaderBlames ==
    ASSUME HandshakeAssumption, IInv, Order, QuietPeersAreNotBlamed, NEW e \in Ends,
           Reader(e) \/ IdleTimeout(e) \/ DownloadMissing(e)
    PROVE  QuietPeersAreNotBlamed'
<1>1. CASE ReadOutOfTurn(e)
  <2>1. Remote(e) \in Syncing
    BY <1>1, NextInOrder, Zenon DEF ReadOutOfTurn
  <2>2. bans' = bans \cup {<<Owner(e), Remote(e), "unexpected message">>}
    BY <1>1, Zenon DEF ReadOutOfTurn, Ban
  <2> QED
    BY <2>1, <2>2, BlameStep, Zenon
<1>2. CASE ReadBadSolution(e)
  <2>1. wire[e] # <<>> /\ Head(wire[e]).type = "solution" /\ ~Solves(e, Head(wire[e]))
    BY <1>2, Zenon DEF ReadBadSolution, Receives
  <2>2. Truthful(e, Head(wire[e]))
    BY <2>1, HeadIsTruthful, Zenon DEF IInv
  <2>3. ConsensusId[Owner(e)] # ConsensusId[Remote(e)]
    BY <2>1, <2>2, Zenon DEF Truthful, Solves
  <2>4. bans' = bans \cup {<<Owner(e), Remote(e), "wrong solution">>}
    BY <1>2, Zenon DEF ReadBadSolution, Ban
  <2> QED
    BY <2>3, <2>4, BlameStep, Zenon
<1>3. CASE ReadChallenge(e) \/ LookForSamePeer(e)
  <2>1. Close(e) \/ bans' = bans
    BY <1>3, Zenon DEF ReadChallenge, LookForSamePeer, server
  <2> QED
    BY <2>1, CloseBlamesNobody, Zenon DEF QuietPeersAreNotBlamed
<1>4. CASE ReadError(e) \/ IdleTimeout(e)
  BY <1>4, CloseBlamesNobody, Zenon DEF ReadError, IdleTimeout
<1>5. CASE SendSolution(e) \/ ReadSolution(e) \/ ReadListenPort(e) \/ ReadBlockRequest(e)
           \/ DownloadMissing(e)
  <2>1. bans' = bans
    BY <1>5, Zenon DEF SendSolution, ReadSolution, ReadListenPort, ReadBlockRequest,
                DownloadMissing, server
  <2> QED
    BY <2>1, ZenonT(30) DEF QuietPeersAreNotBlamed
<1> QED
  BY <1>1, <1>2, <1>3, <1>4, <1>5, Zenon DEF Reader

\* No node takes an honest peer of its own pool for misbehaving, as long as that peer does not
\* download blocks: what it sends arrives in the order the reader expects (client.go:330-340,
\* 390-393, 430-433), and its solution is right (client.go:406-422), whatever the other
\* connections of the two, or of other pools, do.
THEOREM QuietPeersStay ==
    ASSUME HandshakeAssumption
    PROVE  Spec => []QuietPeersAreNotBlamed
<1>1. Init => Order /\ QuietPeersAreNotBlamed
  <2> SUFFICES ASSUME Init PROVE Order /\ QuietPeersAreNotBlamed
    BY Zenon
  <2>1. ASSUME NEW e \in Ends
        PROVE  InOrder(e) /\ SentAt(e)
    <3>1. At(e) = 0 /\ wire[e] = <<>> /\ Len(wire[e]) = 0 /\ Peer(e) \in Ends
      BY EndFacts, Zenon DEF Init, At
    <3>2. Ranked(wire[e], At(e)) /\ state[Peer(e)] = "none" /\ SentAt(e)
      BY <3>1, SMTT(30) DEF Init, Ranked, SentAt
    <3> QED
      BY <3>1, <3>2, SMTT(30) DEF InOrder
  <2>2. QuietPeersAreNotBlamed
    BY Zenon DEF Init, QuietPeersAreNotBlamed
  <2> QED
    BY <2>1, <2>2, Zenon DEF Order
<1>2. IInv /\ Order /\ QuietPeersAreNotBlamed /\ [Next]_vars => (Order /\ QuietPeersAreNotBlamed)'
  <2> SUFFICES ASSUME IInv, Order, QuietPeersAreNotBlamed, [Next]_vars
               PROVE  (Order /\ QuietPeersAreNotBlamed)'
    BY Zenon
  <2>1. ASSUME NEW c \in Conns, Dial(c) \/ Dialler(c) \/ Listener(c)
        PROVE  (Order /\ QuietPeersAreNotBlamed)'
    <3>1. bans' = bans
      BY <2>1, Zenon DEF Dial, Dialler, DialFails, Connected, DialDone, Listener, AcceptCheck,
                  AcceptAppend, server
    <3>2. Order'
      BY <2>1, ConnectOrders, Zenon
    <3> QED
      BY <3>1, <3>2, Zenon DEF QuietPeersAreNotBlamed
  <2>2. ASSUME NEW e \in Ends, Reader(e) \/ IdleTimeout(e) \/ DownloadMissing(e)
        PROVE  (Order /\ QuietPeersAreNotBlamed)'
    BY <2>2, ReaderOrders, ReaderBlames, Zenon
  <2>3. CASE UNCHANGED vars
    <3>1. UNCHANGED <<state, stage, expected, complete, sent, listenPort, wire, bans>>
      BY <2>3, Zenon DEF vars, conn, server
    <3>2. \A f \in Ends : At(f)' = At(f)
      BY <3>1, AtStays, Zenon
    <3>3. \A f \in Ends : InOrder(f)'
      BY <3>1, <3>2, OrderElsewhere, Zenon DEF Order
    <3> QED
      BY <3>1, <3>3, Zenon DEF Order, SentAt, QuietPeersAreNotBlamed
  <2> QED
    BY <2>1, <2>2, <2>3, Zenon DEF Next
<1> QED
  BY <1>1, <1>2, HandshakeInvariance, PTL DEF Spec

\* Nodes of one pool that have nothing to download only ever ban each other for a connection that
\* ended in the middle of the handshake (client.go:952-954).
THEOREM HonestPeersStay ==
    ASSUME HandshakeAssumption, Syncing = {}
    PROVE  Spec => []OnlyDisconnectsAreBanned
<1>1. QuietPeersAreNotBlamed => OnlyDisconnectsAreBanned
  BY Zenon DEF QuietPeersAreNotBlamed, OnlyDisconnectsAreBanned
<1> QED
  BY <1>1, QuietPeersStay, PTL
====
