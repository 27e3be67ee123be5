---------------------------- MODULE BlockRequests ----------------------------
(***************************************************************************)
(* How a node downloads blocks from peers that follow the protocol: the    *)
(* queue of pending requests of a Client, the checks on BLOCK_RESPONSE,    *)
(* BLOCK_NOTIFY, and the goroutines that send requests                     *)
(* (p2pool/p2p/client.go, server.go).                                      *)
(*                                                                         *)
(* The senders are the reader goroutine of every client and the loop that  *)
(* runs DownloadMissingBlocks.  None of them holds a lock from the length  *)
(* check of SendBlockRequestWithBound to the write on the connection, so   *)
(* each of these is a step of its own.                                     *)
(***************************************************************************)
EXTENDS Integers, Sequences, FiniteSets, Functions

CONSTANTS
    Clients,       \* the connected clients, all good
    Downloader,    \* the goroutine of DownloadMissingBlocks
    Downloads,     \* whether it runs
    Blocks,        \* the blocks of the sidechain
    Zero,          \* types.ZeroHash: asks for the tip
    Links,         \* Blocks -> the ids of the parent and the uncles, in order
    PeerHas,       \* Clients -> the blocks the peer has
    PeerTip,       \* Clients -> the tip of the peer
    Cached,        \* the blocks that were loaded from the cache
    Notifies,      \* whether both sides have FeatureBlockNotify
    Bound,         \* the bound of SendBlockRequest (80)
    NotifyBound,   \* the bound of a request for a notified block (25)
    Capacity,      \* the capacity of blockPendingRequests (100)
    RequestedSize  \* the size of RequestedHashes (16)

ASSUME NetworkAssumption ==
    /\ IsFiniteSet(Clients)
    /\ Clients # {}
    /\ Downloader \notin Clients
    /\ Downloads \in BOOLEAN
    /\ IsFiniteSet(Blocks)
    /\ Zero \notin Blocks
    /\ Links \in [Blocks -> Seq(Blocks \cup {Zero})]
    /\ \A b \in Blocks : Links[b] # <<>>
    /\ PeerHas \in [Clients -> SUBSET Blocks]
    /\ PeerTip \in [Clients -> Blocks]
    /\ Cached \subseteq Blocks

ASSUME BoundAssumption ==
    /\ Bound \in Nat \ {0}
    /\ NotifyBound \in 1 .. Bound
    /\ Capacity \in Nat

VARIABLES
    have,          \* the blocks of our sidechain
    seen,          \* SideChain.seenBlocks
    cached,        \* Server.cachedBlocks
    preCalc,       \* SideChain.PreCalcFinished
    pendingIds,    \* Client.blockPendingRequests
    requested,     \* Client.RequestedHashes
    toPeer,        \* the requests on their way to the peer
    fromPeer,      \* the messages on their way from the peer
    banned,        \* why the client was banned, "no" while it is not
    work           \* what a sender still has to do, its next step first

vars == <<have, seen, cached, preCalc, pendingIds, requested, toPeer, fromPeer,
          banned, work>>

Senders == Clients \cup IF Downloads THEN {Downloader} ELSE {}
Ids == Blocks \cup {Zero}

Task(op, c, h, bound) == [op |-> op, c |-> c, h |-> h, bound |-> bound]

\* OnAfterHandshake has asked every peer for its tip.
Init ==
    /\ have = {}
    /\ seen = {}
    /\ cached = Cached
    /\ preCalc = FALSE
    /\ pendingIds = [c \in Clients |-> <<Zero>>]
    /\ requested = [c \in Clients |-> <<>>]
    /\ toPeer = [c \in Clients |-> <<Zero>>]
    /\ fromPeer = [c \in Clients |-> <<>>]
    /\ banned = [c \in Clients |-> "no"]
    /\ work = [s \in Senders |-> <<>>]

\* Mutant: only the uncles are looked for.
LinkedUncles(b) == Tail(Links[b])

\* The ids a block refers to, in the order in which they are looked for.
Linked(b) == Links[b]

\* SendMissingBlockRequest for everything a new block refers to; it skips what is known.
Follow(c, b) == [i \in DOMAIN Linked(b) |-> Task("missing", c, Linked(b)[i], Bound)]

---------------------------------------------------------------------------
(* The peer.                                                               *)

Notify(h) == [type |-> "notify", id |-> h]
Response(h) == [type |-> "response", id |-> h]

\* A block is announced by the ids of its parent, its uncles and its grandparent.
Announced(c, b) ==
    LET links == IF Links[b][1] \in PeerHas[c]
                 THEN Append(Links[b], Links[Links[b][1]][1]) ELSE Links[b]
    IN IF Notifies THEN [i \in DOMAIN links |-> Notify(links[i])] ELSE <<>>

\* The peer answers BLOCK_REQUEST; Zero stands for a nil response.
Answer(c) ==
    /\ banned[c] = "no"
    /\ toPeer[c] # <<>>
    /\ LET b == IF Head(toPeer[c]) = Zero THEN PeerTip[c] ELSE Head(toPeer[c]) IN
       fromPeer' = [fromPeer EXCEPT ![c] =
            @ \o IF b \in PeerHas[c] THEN Append(Announced(c, b), Response(b))
                                     ELSE <<Response(Zero)>>]
    /\ toPeer' = [toPeer EXCEPT ![c] = Tail(@)]
    /\ UNCHANGED <<have, seen, cached, preCalc, pendingIds, requested, banned, work>>

---------------------------------------------------------------------------
(* The readers.                                                            *)

Receives(c, type) ==
    /\ banned[c] = "no"
    /\ work[c] = <<>>
    /\ fromPeer[c] # <<>>
    /\ Head(fromPeer[c]).type = type
    /\ fromPeer' = [fromPeer EXCEPT ![c] = Tail(@)]

\* Mutant: the request for a notified block is not subject to a bound.
ReadNotifyUnchecked(c) ==
    /\ Receives(c, "notify")
    /\ LET h == Head(fromPeer[c]).id IN
       work' = [work EXCEPT ![c] = IF h \in have THEN <<>>
                                   ELSE <<Task("enqueue", c, h, NotifyBound)>>]
    /\ UNCHANGED <<have, seen, cached, preCalc, pendingIds, requested, toPeer, banned>>

\* Mutant: the id of an unknown block is only remembered as requested.
ReadNotifyMarks(c) ==
    /\ Receives(c, "notify")
    /\ requested' = [requested EXCEPT ![c] = Append(@, Head(fromPeer[c]).id)]
    /\ UNCHANGED <<have, seen, cached, preCalc, pendingIds, toPeer, banned, work>>

\* BLOCK_NOTIFY: an unknown block is requested, without a look at RequestedHashes.
ReadNotify(c) ==
    /\ Receives(c, "notify")
    /\ LET h == Head(fromPeer[c]).id IN
       work' = [work EXCEPT ![c] = IF h \in have THEN <<>>
                                   ELSE <<Task("check", c, h, NotifyBound)>>]
    /\ UNCHANGED <<have, seen, cached, preCalc, pendingIds, requested, toPeer, banned>>

\* Mutant: a tip request has no special meaning.
ExpectedExactly(id, b) == id = b

\* The block answers the request: a request for the tip is answered by any block.
Expected(id, b) == id \in {Zero, b}

Banned(c, why) ==
    /\ banned' = [banned EXCEPT ![c] = why]
    /\ UNCHANGED work

\* BLOCK_RESPONSE.
ReadResponse(c) ==
    /\ Receives(c, "response")
    /\ LET b == Head(fromPeer[c]).id IN
       IF pendingIds[c] = <<>>
       THEN /\ Banned(c, "unexpected BLOCK_RESPONSE")
            /\ UNCHANGED <<have, seen, pendingIds>>
       ELSE /\ pendingIds' = [pendingIds EXCEPT ![c] = Tail(@)]
            /\ \/ /\ b \in seen \cup {Zero}
                  /\ UNCHANGED <<have, seen, banned, work>>
               \/ /\ b \notin seen \cup {Zero}
                  /\ seen' = seen \cup {b}
                  /\ have' = have \cup {b}
                  /\ IF ~Expected(Head(pendingIds[c]), b) THEN Banned(c, "expected block id")
                     ELSE /\ work' = [work EXCEPT ![c] = IF b \in have THEN <<>> ELSE Follow(c, b)]
                          /\ UNCHANGED banned
    /\ UNCHANGED <<cached, preCalc, requested, toPeer>>

---------------------------------------------------------------------------
(* Sending requests.                                                       *)

\* Client.RequestedHashes.PushUnique.
PushUnique(c, h) == requested' = [requested EXCEPT ![c] =
    IF Len(@) < RequestedSize THEN Append(@, h) ELSE Append(Tail(@), h)]

Does(s, op) ==
    /\ work[s] # <<>>
    /\ Head(work[s]).op = op
    /\ s \in Clients => banned[s] = "no"

Continue(s, tasks) == work' = [work EXCEPT ![s] = tasks \o Tail(@)]

\* SendMissingBlockRequest: known, cached, requested before, or asked of this client and, until
\* the initial sync is over, of the fastest one too.
SendMissingBlockRequest(s) ==
    /\ Does(s, "missing")
    /\ LET c == Head(work[s]).c
           h == Head(work[s]).h
       IN \/ /\ h \in have \cup {Zero}
             /\ Continue(s, <<>>)
             /\ UNCHANGED <<have, requested>>
          \/ /\ h \in cached \ have
             /\ have' = have \cup {h}
             /\ Continue(s, Follow(c, h))
             /\ UNCHANGED requested
          \/ /\ h \notin have \cup cached \cup {Zero}
             /\ h \in Range(requested[c])
             /\ Continue(s, <<>>)
             /\ UNCHANGED <<have, requested>>
          \/ /\ h \notin have \cup cached \cup {Zero}
             /\ h \notin Range(requested[c])
             /\ PushUnique(c, h)
             /\ \E fastest \in {d \in Clients : banned[d] = "no"} \cup {c} :
                   Continue(s, IF preCalc \/ fastest = c THEN <<Task("check", c, h, Bound)>>
                               ELSE <<Task("missing", fastest, h, Bound), Task("check", c, h, Bound)>>)
             /\ UNCHANGED have
    /\ UNCHANGED <<seen, cached, preCalc, pendingIds, toPeer, fromPeer, banned>>

\* DownloadMissingBlocks lists the missing blocks, in the order in which it meets them.
DownloadMissingBlocks ==
    /\ Downloads
    /\ work[Downloader] = <<>>
    /\ \E c \in Clients : banned[c] = "no"
    /\ LET S == UNION {Range(Linked(b)) : b \in have} \ (have \cup {Zero}) IN
       \E missing \in Bijection(1 .. Cardinality(S), S) :
       /\ missing # <<>>
       /\ work' = [work EXCEPT ![Downloader] =
                     [i \in DOMAIN missing |-> Task("unique", Downloader, missing[i], Bound)]]
    /\ UNCHANGED <<have, seen, cached, preCalc, pendingIds, requested, toPeer, fromPeer, banned>>

\* One block of the list: from the cache, or SendUniqueBlockRequest to a client at random.
SendUniqueBlockRequest ==
    /\ Downloads
    /\ Does(Downloader, "unique")
    /\ LET h == Head(work[Downloader]).h IN
       \/ /\ h \in cached
          /\ have' = have \cup {h}
          /\ Continue(Downloader, <<>>)
          /\ UNCHANGED requested
       \/ /\ h \notin cached
          /\ \E c \in Clients :
                \/ /\ h \in Range(requested[c])
                   /\ Continue(Downloader, <<>>)
                   /\ UNCHANGED requested
                \/ /\ h \notin Range(requested[c])
                   /\ PushUnique(c, h)
                   /\ Continue(Downloader, <<Task("check", c, h, Bound)>>)
          /\ UNCHANGED have
    /\ UNCHANGED <<seen, cached, preCalc, pendingIds, toPeer, fromPeer, banned>>

\* Mutant: an off-by-one in the comparison.
CheckBoundInclusive(s) ==
    /\ Does(s, "check")
    /\ LET t == Head(work[s]) IN
       Continue(s, IF Len(pendingIds[t.c]) <= t.bound THEN <<[t EXCEPT !.op = "enqueue"]>> ELSE <<>>)
    /\ UNCHANGED <<have, seen, cached, preCalc, pendingIds, requested, toPeer, fromPeer, banned>>

\* SendBlockRequestWithBound: the length of the queue is compared with the bound ...
CheckBound(s) ==
    /\ Does(s, "check")
    /\ LET t == Head(work[s]) IN
       Continue(s, IF Len(pendingIds[t.c]) < t.bound THEN <<[t EXCEPT !.op = "enqueue"]>> ELSE <<>>)
    /\ UNCHANGED <<have, seen, cached, preCalc, pendingIds, requested, toPeer, fromPeer, banned>>

\* Mutant: the id is left out when the bound was reached meanwhile, and the request still sent.
EnqueueOrSkip(s) ==
    /\ Does(s, "enqueue")
    /\ LET t == Head(work[s]) IN
       /\ pendingIds' = [pendingIds EXCEPT ![t.c] = IF Len(@) < t.bound THEN Append(@, t.h) ELSE @]
       /\ Continue(s, <<[t EXCEPT !.op = "write"]>>)
    /\ UNCHANGED <<have, seen, cached, preCalc, requested, toPeer, fromPeer, banned>>

\* ... the id is put in the queue, once there is room ...
Enqueue(s) ==
    /\ Does(s, "enqueue")
    /\ LET t == Head(work[s]) IN
       /\ Len(pendingIds[t.c]) < Capacity
       /\ pendingIds' = [pendingIds EXCEPT ![t.c] = Append(@, t.h)]
       /\ Continue(s, <<[t EXCEPT !.op = "write"]>>)
    /\ UNCHANGED <<have, seen, cached, preCalc, requested, toPeer, fromPeer, banned>>

\* ... and SendMessage writes the request, unless the client was closed.
Write(s) ==
    /\ Does(s, "write")
    /\ LET t == Head(work[s]) IN
       toPeer' = [toPeer EXCEPT ![t.c] = IF banned[t.c] = "no" THEN Append(@, t.h) ELSE @]
    /\ Continue(s, <<>>)
    /\ UNCHANGED <<have, seen, cached, preCalc, pendingIds, requested, fromPeer, banned>>

---------------------------------------------------------------------------
(* The sidechain finishes its first pass, and then the cache is dropped.   *)

PreCalcFinishes ==
    /\ ~preCalc
    /\ have # {}
    /\ preCalc' = TRUE
    /\ UNCHANGED <<have, seen, cached, pendingIds, requested, toPeer, fromPeer, banned, work>>

ClearCachedBlocks ==
    /\ preCalc
    /\ cached # {}
    /\ Downloads => work[Downloader] = <<>>
    /\ cached' = {}
    /\ UNCHANGED <<have, seen, preCalc, pendingIds, requested, toPeer, fromPeer, banned, work>>

Reader(c) == ReadNotify(c) \/ ReadResponse(c)

Sending(s) == SendMissingBlockRequest(s) \/ CheckBound(s) \/ Enqueue(s) \/ Write(s)

Next ==
    \/ \E c \in Clients : Answer(c) \/ Reader(c)
    \/ \E s \in Senders : Sending(s)
    \/ DownloadMissingBlocks
    \/ SendUniqueBlockRequest
    \/ PreCalcFinishes
    \/ ClearCachedBlocks

\* The peers answer, and goroutines that can run do run; the download loop is woken by a ticker.
Fairness ==
    /\ \A c \in Clients : WF_vars(Answer(c)) /\ WF_vars(Reader(c))
    /\ \A s \in Senders : WF_vars(Sending(s))
    /\ WF_vars(DownloadMissingBlocks)
    /\ WF_vars(SendUniqueBlockRequest)

Spec == Init /\ [][Next]_vars /\ Fairness

---------------------------------------------------------------------------
(* Properties.                                                             *)

\* The senders that have put an id in the queue of c and not yet written the request.
Writing(c) == {s \in Senders : work[s] # <<>> /\ Head(work[s]).op = "write" /\ Head(work[s]).c = c
                               /\ (s \in Clients => banned[s] = "no")}

\* The responses on their way from the peer of c, by their places.
Responses(c) == {i \in DOMAIN fromPeer[c] : fromPeer[c][i].type = "response"}

\* However the senders interleave, the queue holds one id for every request that is written or
\* about to be, and for every response that has not been read (client.go:239-244, 490): so an
\* honest peer is never banned for an "unexpected BLOCK_RESPONSE" (client.go:493).
EveryAnswerIsExpected ==
    \A c \in Clients :
        /\ banned[c] = "no" => Len(pendingIds[c]) =
              Len(toPeer[c]) + Cardinality(Responses(c)) + Cardinality(Writing(c))
        /\ banned[c] # "unexpected BLOCK_RESPONSE"

\* The length is compared with the bound without a lock (client.go:239-240), so every sender but
\* the first may overshoot it by one, and no more.
QueueWithinBound ==
    \A c \in Clients : Len(pendingIds[c]) <= Bound - 1 + Cardinality(Senders)

\* No goroutine is ever held up on the channel of a client (client.go:240), which the reader of a
\* closed client no longer empties: a sender that passed the check finds room.
NoSenderWaits ==
    \A s \in Senders :
        work[s] # <<>> /\ Head(work[s]).op = "enqueue" => Len(pendingIds[Head(work[s]).c]) < Capacity

\* A peer that answers every request in the order it reads them is not banned by the checks of
\* BLOCK_RESPONSE (client.go:493, 561).
HonestPeerIsKept == \A c \in Clients : banned[c] = "no"

\* Every block that some peer has was downloaded, or a peer is banned; the end of a download
\* (SendMissingBlockRequest, client.go:189-219, DownloadMissingBlocks, server.go:466-492).
Downloaded == have = UNION {PeerHas[c] : c \in Clients} \/ \E c \in Clients : banned[c] # "no"
====
