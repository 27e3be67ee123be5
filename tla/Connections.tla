---------------------------- MODULE Connections ----------------------------
(***************************************************************************)
(* How one server keeps its connections and its peer list                  *)
(* (p2pool/p2p/server.go): the loop of UpdateClientConnections with the    *)
(* goroutines that dial for it, the accept loop, the readers that learn    *)
(* addresses and close or ban connections, and the list of bans.           *)
(*                                                                         *)
(* An address stands for a host (for its /64 with IPv6, where a ban covers *)
(* the whole prefix).  Connections to the same address that run in the     *)
(* same direction are counted, not told apart.                             *)
(***************************************************************************)
EXTENDS Integers, Sequences, FiniteSets, FiniteSetsExt

CONSTANTS
    Addrs,             \* the addresses of other nodes
    MoneroPeers,       \* those of them that monerod knows
    Callers,           \* those of them that dial this server
    MaxOutgoingPeers,
    MaxIncomingPeers,
    MaxFailed          \* failed dials in a row after which an address is forgotten (10)

ASSUME PeersAssumption == MoneroPeers \subseteq Addrs /\ Callers \subseteq Addrs /\ "none" \notin Addrs

\* There are finitely many addresses of 128 bits.
ASSUME AddrsAssumption == IsFiniteSet(Addrs)

ASSUME LimitAssumption ==
    MaxOutgoingPeers \in Nat \ {0} /\ MaxIncomingPeers \in Nat /\ MaxFailed \in Nat \ {0}

VARIABLES
    incoming, outgoing,  \* how many clients in Server.clients an address has
    numIncoming, numOutgoing,  \* Server.NumIncomingConnections, NumOutgoingConnections
    pending,           \* Server.PendingOutgoingConnections: its buffer and index
    peerList,          \* Server.peerList, as a set of addresses
    failed,            \* PeerListEntry.FailedConnections
    old,               \* the entries that were last seen more than an hour ago
    bans,              \* Server.bans: "none", "active", "expired"
    moneroPeerList,    \* Server.moneroPeerList, as a set
    accepting,         \* the address that passed the checks of the accept loop, or NoAddr
    loop,              \* where UpdateClientConnections is: idle, copied, written, dialing
    round,             \* its connectedPeers, hasGoodPeers, peer list and whether attempts > 0
    started,           \* its goroutines before they look at the limit: pairs of an address
                       \* and the list it came from
    cleared,           \* its goroutines between that look and DirectConnect
    dials              \* its goroutines in DialContext

clients == <<incoming, outgoing, numIncoming, numOutgoing, pending>>
lists == <<peerList, failed, old>>
updating == <<loop, round, started, cleared, dials>>
vars == <<clients, lists, bans, moneroPeerList, accepting, updating>>

NoAddr == "none"

\* The variables of UpdateClientConnections between two calls.  What it does not read again once
\* the goroutines are started is dropped then.
NoRound == [connected |-> {}, good |-> FALSE, list |-> {}, attempts |-> FALSE]

Init ==
    /\ incoming = [a \in Addrs |-> 0]
    /\ outgoing = [a \in Addrs |-> 0]
    /\ numIncoming = 0
    /\ numOutgoing = 0
    /\ pending = [buffer |-> [i \in 0 .. MaxOutgoingPeers - 1 |-> NoAddr], index |-> 0]
    /\ peerList = Addrs \ MoneroPeers
    /\ failed = [a \in Addrs |-> 0]
    /\ old = {}
    /\ bans = [a \in Addrs |-> "none"]
    /\ moneroPeerList = {}
    /\ accepting = NoAddr
    /\ loop = "idle"
    /\ round = NoRound
    /\ started = {}
    /\ cleared = {}
    /\ dials = {}

IsBanned(a) == bans[a] = "active"

Connected(a) == incoming[a] + outgoing[a] > 0

---------------------------------------------------------------------------
(* PendingOutgoingConnections.                                             *)

Dialled(a) == \E i \in DOMAIN pending.buffer : pending.buffer[i] = a

\* Mutant: the index is not wrapped.
PushedUnwrapped(a) ==
    [buffer |-> [pending.buffer EXCEPT ![pending.index] = a], index |-> pending.index + 1]

Pushed(a) ==
    LET next == (pending.index + 1) % MaxOutgoingPeers IN
    [buffer |-> [pending.buffer EXCEPT ![next] = a], index |-> next]

Cleared(S) == [pending EXCEPT !.buffer =
    [i \in DOMAIN pending.buffer |-> IF pending.buffer[i] \in S THEN NoAddr ELSE pending.buffer[i]]]

---------------------------------------------------------------------------
(* Clients come and go.                                                    *)

\* Client.Close on every client of the address.
CloseAll(a) ==
    /\ incoming' = [incoming EXCEPT ![a] = 0]
    /\ outgoing' = [outgoing EXCEPT ![a] = 0]
    /\ numIncoming' = numIncoming - incoming[a]
    /\ numOutgoing' = numOutgoing - outgoing[a]
    /\ pending' = IF outgoing[a] > 0 THEN Cleared({a}) ELSE pending

\* Client.Close on one client: the peer went away, or was idle for too long.
CloseIncoming(a) ==
    /\ incoming[a] > 0
    /\ incoming' = [incoming EXCEPT ![a] = @ - 1]
    /\ numIncoming' = numIncoming - 1
    /\ UNCHANGED <<outgoing, numOutgoing, pending, lists, bans, moneroPeerList, accepting, updating>>

\* Mutant: the address of a closed client is still among the pending ones.
CloseOutgoingKeepsPending(a) ==
    /\ outgoing[a] > 0
    /\ outgoing' = [outgoing EXCEPT ![a] = @ - 1]
    /\ numOutgoing' = numOutgoing - 1
    /\ UNCHANGED <<incoming, numIncoming, pending, lists, bans, moneroPeerList, accepting, updating>>

CloseOutgoing(a) ==
    /\ outgoing[a] > 0
    /\ outgoing' = [outgoing EXCEPT ![a] = @ - 1]
    /\ numOutgoing' = numOutgoing - 1
    /\ pending' = Cleared({a})
    /\ UNCHANGED <<incoming, numIncoming, lists, bans, moneroPeerList, accepting, updating>>

\* Client.Ban: Server.Ban, which closes every client of an address that is not banned yet, and
\* RemoveFromPeerList.
Ban(a) ==
    /\ Connected(a)
    /\ IF IsBanned(a)
       THEN UNCHANGED <<clients, bans>>
       ELSE bans' = [bans EXCEPT ![a] = "active"] /\ CloseAll(a)
    /\ peerList' = peerList \ {a}
    /\ UNCHANGED <<failed, old, moneroPeerList, accepting, updating>>

\* The time of a ban is over, and CleanupBanList drops it some time later.
BanExpires(a) ==
    /\ IsBanned(a)
    /\ bans' = [bans EXCEPT ![a] = "expired"]
    /\ UNCHANGED <<clients, lists, moneroPeerList, accepting, updating>>

CleanupBanList ==
    /\ \E a \in Addrs : bans[a] = "expired"
    /\ bans' = [a \in Addrs |-> IF bans[a] = "expired" THEN "none" ELSE bans[a]]
    /\ UNCHANGED <<clients, lists, moneroPeerList, accepting, updating>>

\* Mutant: the limit is not looked at.
IncomingLimitIgnored == FALSE

\* The limit of the accept loop.
IncomingLimitReached == numIncoming > MaxIncomingPeers

\* The checks of the accept loop.
AcceptCheck(a) ==
    /\ a \in Callers
    /\ accepting = NoAddr
    /\ ~IncomingLimitReached
    /\ ~Connected(a)
    /\ ~IsBanned(a)
    /\ accepting' = a
    /\ UNCHANGED <<clients, lists, bans, moneroPeerList, updating>>

\* The accept loop adds the client.
AcceptAppend ==
    /\ accepting # NoAddr
    /\ incoming' = [incoming EXCEPT ![accepting] = @ + 1]
    /\ numIncoming' = numIncoming + 1
    /\ accepting' = NoAddr
    /\ UNCHANGED <<outgoing, numOutgoing, pending, lists, bans, moneroPeerList, updating>>

---------------------------------------------------------------------------
(* The readers tell addresses.                                             *)

Listed(a, f) ==
    /\ a \in peerList \/ ~IsBanned(a)
    /\ peerList' = peerList \cup {a}
    /\ failed' = [failed EXCEPT ![a] = IF a \in peerList THEN f ELSE 0]
    /\ old' = old \ {a}

\* PEER_LIST_RESPONSE names the address.
AddToPeerList(a) ==
    /\ \E b \in Addrs : b # a /\ Connected(b)
    /\ Listed(a, failed[a])
    /\ UNCHANGED <<clients, bans, moneroPeerList, accepting, updating>>

\* LISTEN_PORT came from the address.
UpdateInPeerList(a) ==
    /\ Connected(a)
    /\ Listed(a, 0)
    /\ UNCHANGED <<clients, bans, moneroPeerList, accepting, updating>>

\* Nobody has named the address for an hour.
Ages(a) ==
    /\ a \in peerList \ old
    /\ old' = old \cup {a}
    /\ UNCHANGED <<clients, peerList, failed, bans, moneroPeerList, accepting, updating>>

---------------------------------------------------------------------------
(* UpdateClientConnections.                                                *)

other == <<bans, accepting>>

\* It notes who is connected and copies the peer list; connected entries become fresh.
CopyPeerList ==
    /\ loop = "idle"
    /\ \E good \in BOOLEAN :
          LET connected == {a \in Addrs : Connected(a)}
              gone == (old \cap peerList) \ connected
          IN /\ good => connected # {}
             /\ round' = [connected |-> connected, good |-> good,
                          list |-> peerList \ gone, attempts |-> FALSE]
             /\ old' = old \ (connected \cap peerList)
             /\ loop' = IF gone = {} THEN "written" ELSE "copied"
    /\ UNCHANGED <<clients, peerList, failed, moneroPeerList, started, cleared, dials, other>>

\* It writes the copy back, without the entries that are too old.
WritePeerList ==
    /\ loop = "copied"
    /\ peerList' = round.list
    /\ loop' = "written"
    /\ UNCHANGED <<clients, failed, old, moneroPeerList, round, started, cleared, dials, other>>

\* Mutant: an address that was picked stays in the list, and the list is dialled to its end.
StartDialsTwice ==
    /\ loop = "written"
    /\ LET scan == ~round.good /\ moneroPeerList # {}
           list == (round.list \X {"p2pool", "monerod"})
                      \cup (IF scan THEN moneroPeerList \X {"monerod"} ELSE {})
           free == {t \in list : t[1] \notin round.connected}
       IN /\ started' = free
          /\ moneroPeerList' = IF scan THEN {} ELSE moneroPeerList
          /\ round' = [NoRound EXCEPT !.good = round.good, !.attempts = started' # {}]
    /\ loop' = "dialing"
    /\ UNCHANGED <<clients, lists, cleared, dials, other>>

\* It starts goroutines for addresses that are not connected.  Without a good peer it tries
\* those of monerod as well, and the same address may then come up twice.
StartDials ==
    /\ loop = "written"
    /\ LET scan == ~round.good /\ moneroPeerList # {}
           list == (round.list \X {"p2pool"})
                      \cup (IF scan THEN moneroPeerList \X {"monerod"} ELSE {})
           N == IF scan THEN Cardinality(list) ELSE MaxOutgoingPeers
           free == {t \in list : t[1] \notin round.connected}
           wanted == Max({0, N - (numOutgoing - numIncoming)})
       IN /\ started' \in kSubset(Min({wanted, Cardinality(free)}), free)
          /\ moneroPeerList' = IF scan THEN {} ELSE moneroPeerList
          /\ round' = [NoRound EXCEPT !.good = round.good, !.attempts = started' # {}]
    /\ loop' = "dialing"
    /\ UNCHANGED <<clients, lists, cleared, dials, other>>

\* A goroutine looks at the limit, and returns when it is reached.
DialLimit(t) ==
    /\ t \in started
    /\ started' = started \ {t}
    /\ cleared' = IF numOutgoing >= MaxOutgoingPeers THEN cleared ELSE cleared \cup {t}
    /\ UNCHANGED <<clients, lists, moneroPeerList, loop, round, dials, other>>

\* Connect and DirectConnect up to DialContext; a refusal ends the goroutine.
DirectConnect(t) ==
    /\ t \in cleared
    /\ cleared' = cleared \ {t}
    /\ IF IsBanned(t[1]) \/ Connected(t[1]) \/ Dialled(t[1])
       THEN UNCHANGED <<dials, numOutgoing, pending>>
       ELSE /\ dials' = dials \cup {t}
            /\ numOutgoing' = numOutgoing + 1
            /\ pending' = Pushed(t[1])
    /\ UNCHANGED <<incoming, outgoing, numIncoming, lists, moneroPeerList, loop, round, started, other>>

\* The dial succeeds, and the client is added without another look.
DialSucceeds(t) ==
    /\ t \in dials
    /\ dials' = dials \ {t}
    /\ outgoing' = [outgoing EXCEPT ![t[1]] = @ + 1]
    /\ UNCHANGED <<incoming, numIncoming, numOutgoing, pending, lists, moneroPeerList, loop, round, started, cleared, other>>

\* Mutant: a failed dial is still counted.
DialFailsCounted(t) ==
    /\ t \in dials
    /\ dials' = dials \ {t}
    /\ UNCHANGED numOutgoing
    /\ pending' = Cleared({t[1]})
    /\ failed' = [failed EXCEPT ![t[1]] = IF t[1] \in peerList THEN @ + 1 ELSE @]
    /\ peerList' = IF failed'[t[1]] >= MaxFailed THEN peerList \ {t[1]} ELSE peerList
    /\ UNCHANGED <<incoming, outgoing, numIncoming, old, moneroPeerList, loop, round, started, cleared, other>>

\* Mutant: an address is forgotten one failure too late.
DialFailsOnceMore(t) ==
    /\ t \in dials
    /\ dials' = dials \ {t}
    /\ numOutgoing' = numOutgoing - 1
    /\ pending' = Cleared({t[1]})
    /\ failed' = [failed EXCEPT ![t[1]] = IF t[1] \in peerList THEN @ + 1 ELSE @]
    /\ peerList' = IF failed'[t[1]] > MaxFailed THEN peerList \ {t[1]} ELSE peerList
    /\ UNCHANGED <<incoming, outgoing, numIncoming, old, moneroPeerList, loop, round, started, cleared, other>>

\* The dial fails; an address that keeps failing is forgotten.
DialFails(t) ==
    /\ t \in dials
    /\ dials' = dials \ {t}
    /\ numOutgoing' = numOutgoing - 1
    /\ pending' = Cleared({t[1]})
    /\ failed' = [failed EXCEPT ![t[1]] = IF t[1] \in peerList THEN @ + 1 ELSE @]
    /\ peerList' = IF failed'[t[1]] >= MaxFailed THEN peerList \ {t[1]} ELSE peerList
    /\ UNCHANGED <<incoming, outgoing, numIncoming, old, moneroPeerList, loop, round, started, cleared, other>>

\* wg.Wait is over.
AllDone == loop = "dialing" /\ started = {} /\ cleared = {} /\ dials = {}

\* When nothing was left to dial, monerod is asked for its peers.
AsksMonerod == ~round.attempts /\ ~round.good /\ moneroPeerList = {}

Returns(peers) ==
    /\ moneroPeerList' = peers
    /\ loop' = "idle"
    /\ round' = NoRound
    /\ UNCHANGED <<clients, lists, started, cleared, dials, other>>

\* UpdateClientConnections returns, or asks monerod, which may fail to answer.
UpdateReturns ==
    /\ AllDone
    /\ Returns(moneroPeerList)

MonerodAnswers ==
    /\ AllDone
    /\ AsksMonerod
    /\ Returns({a \in MoneroPeers : ~IsBanned(a)})

---------------------------------------------------------------------------
Dialing(t) == DialLimit(t) \/ DirectConnect(t) \/ DialSucceeds(t) \/ DialFails(t)

Tasks == Addrs \X {"p2pool", "monerod"}

Next ==
    \/ \E a \in Addrs :
          \/ CloseIncoming(a) \/ CloseOutgoing(a) \/ Ban(a) \/ BanExpires(a) \/ AcceptCheck(a)
          \/ AddToPeerList(a) \/ UpdateInPeerList(a) \/ Ages(a)
    \/ \E t \in Tasks : DialLimit(t) \/ DirectConnect(t) \/ DialSucceeds(t) \/ DialFails(t)
    \/ CleanupBanList \/ AcceptAppend
    \/ CopyPeerList \/ WritePeerList \/ StartDials \/ UpdateReturns \/ MonerodAnswers

\* The ticker keeps calling UpdateClientConnections, the scheduler runs its goroutines, a dial
\* ends within its timeout, a ban ends with time, and monerod does not fail to answer forever.
Fairness ==
    /\ WF_vars(CopyPeerList \/ WritePeerList \/ StartDials \/ UpdateReturns)
    /\ \A t \in Tasks : WF_vars(Dialing(t))
    /\ \A a \in Addrs : WF_vars(BanExpires(a))
    /\ SF_vars(MonerodAnswers)

Spec == Init /\ [][Next]_vars /\ Fairness

---------------------------------------------------------------------------
Rings == [buffer : [0 .. MaxOutgoingPeers - 1 -> Addrs \cup {NoAddr}], index : 0 .. MaxOutgoingPeers - 1]

TypeOK ==
    /\ incoming \in [Addrs -> Nat]
    /\ outgoing \in [Addrs -> Nat]
    /\ numIncoming \in Int
    /\ numOutgoing \in Int
    /\ pending \in Rings
    /\ peerList \subseteq Addrs
    /\ failed \in [Addrs -> Nat]
    /\ old \subseteq Addrs
    /\ bans \in [Addrs -> {"none", "active", "expired"}]
    /\ moneroPeerList \subseteq Addrs
    /\ accepting \in Addrs \cup {NoAddr}
    /\ loop \in {"idle", "copied", "written", "dialing"}
    /\ round \in [connected : SUBSET Addrs, good : BOOLEAN, list : SUBSET Addrs, attempts : BOOLEAN]
    /\ started \subseteq Tasks
    /\ cleared \subseteq Tasks
    /\ dials \subseteq Tasks

Total(f) == MapThenSumSet(LAMBDA a : f[a], Addrs)

\* However closes, bans, failed dials and late appends interleave, NumIncomingConnections counts
\* the incoming clients and NumOutgoingConnections the outgoing ones with the dials under way:
\* neither drifts, so the limits that are computed from them keep their meaning.
CountersExact ==
    /\ numIncoming = Total(incoming)
    /\ numOutgoing = Total(outgoing) + Cardinality(dials)

\* The accept loop lets in at most one connection more than MaxIncomingPeers.
IncomingOvershootsByOne == numIncoming <= MaxIncomingPeers + 1

\* "peer is already attempting connection" (server.go:637): an address is never dialled, or
\* connected to, twice at the same time by this server.
OneDialPerAddress ==
    \A a \in Addrs : outgoing[a] + Cardinality({t \in dials : t[1] = a}) <= 1

\* An address whose last MaxFailed dials failed is not in the peer list, unless it was named
\* anew, even when UpdateClientConnections writes back the list as it was before.
FailedAreForgotten == \A a \in Addrs : failed[a] >= MaxFailed => a \notin peerList

\* What a server knows of its connections is right, whatever its goroutines do at the same time:
\* the counters (CountersExact), the limit of the accept loop (IncomingOvershootsByOne) and the
\* addresses it keeps (FailedAreForgotten) (server.go:289-438, 544-679).
ConnectionsAreCounted == TypeOK /\ CountersExact /\ IncomingOvershootsByOne /\ FailedAreForgotten

\* A node that has lost all its peers does not give up: as long as it has no connection and
\* monerod knows a peer that is not banned it keeps dialling, even when its peer list is empty.
KeepsTrying ==
    []<>(\/ dials # {}
         \/ \E a \in Addrs : Connected(a)
         \/ \A a \in MoneroPeers : IsBanned(a))
====
