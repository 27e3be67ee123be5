---------------------------- MODULE PeerExchange ----------------------------
(***************************************************************************)
(* PEER_LIST_REQUEST and PEER_LIST_RESPONSE (p2pool/p2p/client.go): a node *)
(* asks a connected node, the responder, for addresses.  The responder     *)
(* draws some of its clients at random, pads them from its peer list, and  *)
(* the first time tells its version in the place of an address.  Every     *)
(* outcome of the random draws is a step of its own.                       *)
(***************************************************************************)
EXTENDS Protocol, Sequences, SequencesExt, FiniteSets, FiniteSetsExt

CONSTANTS
    V4, V6,            \* addresses
    Loopback, Private, \* the special ones among them
    NotGood,           \* those that have not finished the handshake
    Requester,         \* the address of the node that asks
    ClientLists,       \* the clients the responder may have: sequences of addresses
    PeerLists,         \* the peer lists it may have: sets of addresses
    PeerListResponseMaxPeers

\* AddToPeerList refuses loopback addresses.  An empty peer list is left out: there the draw of
\* the padding would be one out of nothing (client.go:715).
ListAssumption == \A l \in PeerLists : l # {} /\ l \subseteq (V4 \cup V6) \ Loopback

\* The version, written as an address.
VersionAddr == "version"

VARIABLES
    clients,           \* the clients of the responder, in their order
    peerList,          \* its peer list
    protocol,          \* the version the responder speaks
    told,              \* LastIncomingPeerListRequestTime is set
    message,           \* what is on its way: <<>> or <<message>>
    learned,           \* the peer list of the requester
    version            \* what the requester knows of the responder's version

vars == <<clients, peerList, protocol, told, message, learned, version>>

Init ==
    /\ clients \in ClientLists
    /\ peerList \in PeerLists
    /\ protocol \in ProtocolVersions
    /\ told = FALSE
    /\ message = <<>>
    /\ learned = {}
    /\ version = ProtocolVersion_0_0

\* SendPeerListRequest.
SendPeerListRequest ==
    /\ message = <<>>
    /\ message' = <<[type |-> "request"]>>
    /\ UNCHANGED <<clients, peerList, protocol, told, learned, version>>

---------------------------------------------------------------------------
(* The response.                                                           *)

Is6(a) == a \in V6 \cup {VersionAddr}

Target(cs) == Min({PeerListResponseMaxPeers, Max({Len(cs) \div 4, 1})})

Eligible(cs) == SelectSeq(cs, LAMBDA a : a \notin Loopback \cup Private \cup NotGood \cup {Requester})

\* One more client, the n-th: it is appended while there is room, and then takes the place that
\* is drawn.
Drawn(entries, n, a, target) ==
    LET e == IF Len(entries) < target THEN Append(entries, a) ELSE entries IN
    {IF k < target THEN [e EXCEPT ![k + 1] = a] ELSE e : k \in 0 .. n - 1}

\* The entries that may have been drawn from the clients.
Sampled(cs) ==
    LET list == Eligible(cs)
        draw[n \in 0 .. Len(list)] ==
            IF n = 0 THEN {<<>>}
            ELSE UNION {Drawn(e, n, list[n], Target(cs)) : e \in draw[n - 1]}
    IN draw[Len(list)]

\* The version takes the first place, the first time.
WithVersion(entries) ==
    IF /\ ~told
       /\ SupportsFeature(protocol, "PeerInformationExchange")
       /\ SupportsFeature(ProtocolVersion_0_0, "PeerInformationReceive")
    THEN IF entries = <<>> THEN <<VersionAddr>> ELSE [entries EXCEPT ![1] = VersionAddr]
    ELSE entries

\* Every place that is left is given one draw from the peer list.
Padded(entries) ==
    LET pad[n \in 0 .. PeerListResponseMaxPeers - Len(entries)] ==
            IF n = 0 THEN {entries}
            ELSE UNION {{IF Contains(e, a) THEN e ELSE Append(e, a) : a \in peerList} : e \in pad[n - 1]}
    IN pad[PeerListResponseMaxPeers - Len(entries)]

\* Mutant: the IPv6 address is appended whatever the length.
WithIPv6Appended(entries) ==
    IF (\E i \in DOMAIN entries : Is6(entries[i])) \/ peerList \cap V6 = {}
    THEN {entries}
    ELSE {Append(entries, a) : a \in peerList \cap V6}

\* An IPv6 address is put last, when there is none.
WithIPv6(entries) ==
    IF (\E i \in DOMAIN entries : Is6(entries[i])) \/ peerList \cap V6 = {}
    THEN {entries}
    ELSE {IF Len(entries) < PeerListResponseMaxPeers
          THEN Append(entries, a)
          ELSE [entries EXCEPT ![Len(entries)] = a] : a \in peerList \cap V6}

\* Mutant: the version is marked as an IPv6 address.
EncodedAsIPv6(a) == [isV6 |-> Is6(a), addr |-> a]

\* SendPeerListResponse: an address, and whether it is one of IPv6.
Encoded(a) == [isV6 |-> Is6(a) /\ a # VersionAddr, addr |-> a]

\* PEER_LIST_REQUEST.  SendPeerListResponse sends nothing when there are too many entries.
Respond ==
    /\ message # <<>> /\ message[1].type = "request"
    /\ \E sample \in Sampled(clients) :
          \E padded \in Padded(WithVersion(sample)) :
             \E list \in WithIPv6(padded) :
                message' = IF Len(list) > PeerListResponseMaxPeers THEN <<>>
                           ELSE <<[type |-> "response", list |-> [i \in DOMAIN list |-> Encoded(list[i])]]>>
    /\ told' = TRUE
    /\ UNCHANGED <<clients, peerList, protocol, learned, version>>

\* PEER_LIST_RESPONSE: the version is taken out, and the rest goes through AddToPeerList.
Read ==
    /\ message # <<>> /\ message[1].type = "response"
    /\ LET entries == Range(message[1].list)
           versions == {e \in entries : ~e.isV6 /\ e.addr = VersionAddr}
       IN /\ learned' = learned \cup {e.addr : e \in {x \in entries \ versions : x.addr \notin Loopback}}
          /\ version' = IF versions = {} THEN version ELSE protocol
    /\ message' = <<>>
    /\ UNCHANGED <<clients, peerList, protocol, told>>

Next == SendPeerListRequest \/ Respond \/ Read

Spec == Init /\ [][Next]_vars

---------------------------------------------------------------------------
Responding == message # <<>> /\ message[1].type = "response"

\* Every request is answered by a response that the requester accepts: the version, the padding
\* and the IPv6 address never add up to more than the PeerListResponseMaxPeers for which
\* SendPeerListResponse stays silent (client.go:289) and the requester bans (client.go:758).
RequestsAreAnswered ==
    message # <<>> /\ message[1].type = "request" /\ message' # message => Responding'

\* What the requester learns from a response are addresses the responder is connected to or
\* keeps in its peer list, never the pseudo-address of the version, and the responder's version
\* is known after the first response when it supports telling it.
LearnsWhatIsKnown ==
    /\ learned \subseteq Range(clients) \cup peerList
    /\ told /\ message = <<>> /\ SupportsFeature(protocol, "PeerInformationExchange")
          => version = protocol
====
