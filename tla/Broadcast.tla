------------------------------ MODULE Broadcast ------------------------------
(***************************************************************************)
(* How a block spreads (Server.Broadcast in p2pool/p2p/server.go, the      *)
(* BLOCK_BROADCAST, BLOCK_NOTIFY and BLOCK_RESPONSE handlers of            *)
(* p2pool/p2p/client.go): connected nodes that send each other new blocks  *)
(* in full, without outputs (pruned), without outputs and transactions     *)
(* (compact), or by their id only (notify).                                *)
(*                                                                         *)
(* A side chain is the set of blocks it holds; a block counts as verified  *)
(* when all its ancestors are there.  Module SideChain has the details.    *)
(***************************************************************************)
EXTENDS Protocol, Sequences, SequencesExt, FiniteSets, FiniteSetsExt

CONSTANTS
    Nodes,
    Peers,             \* Peers[n]: the good clients of n
    Version,           \* Version[n]: the protocol the clients of n know it to speak
    Blocks, Genesis,   \* new blocks, and the one everybody has
    Parent, Uncles,    \* Parent[b], Uncles[b]
    Height,
    Miner,             \* Miner[b]: the node that finds b
    Held,              \* Held[n]: what n has from broadcasts of peers that are gone
    RingSize           \* the size of Client.BroadcastedHashes (8)

VARIABLES
    pool,              \* pool[n]: the blocks in the side chain of n
    want,              \* want[n]: those with WantBroadcast
    broadcasted,       \* broadcasted[n]: those with Broadcasted
    seen,              \* seen[n]: SideChain.seenBlocks
    ring,              \* ring[n][m]: the BroadcastedHashes of m's client at n
    outbox,            \* what the goroutines of Broadcast have to send: <<from, block, to>>
    channel,           \* channel[n][m]: the messages from n to m
    requests,          \* requests on their way: <<from, to, block>>
    requested          \* requested[n]: <<m, b>>, b in the RequestedHashes of m's client at n

vars == <<pool, want, broadcasted, seen, ring, outbox, channel, requests, requested>>

BuiltOn(b) == IF b = Genesis THEN {} ELSE {Parent[b]} \cup Uncles[b]

\* The blocks of S that have all their ancestors in S.
Verified(S) == UNION {C \in SUBSET S : \A b \in C : BuiltOn(b) \subseteq C}

Init ==
    /\ pool = [n \in Nodes |-> {Genesis} \cup Held[n]]
    /\ want = Held
    /\ broadcasted = [n \in Nodes |-> Held[n] \cap Verified(pool[n])]
    /\ seen = Held
    /\ ring = [n \in Nodes |-> [m \in Peers[n] |-> <<>>]]
    /\ outbox = {}
    /\ channel = [n \in Nodes |-> [m \in Peers[n] |-> <<>>]]
    /\ requests = {}
    /\ requested = [n \in Nodes |-> {}]

Missing(n, b) == BuiltOn(b) \ pool[n]

TopHeight(S) == Max({Height[b] : b \in S})

---------------------------------------------------------------------------
(* The side chain.                                                         *)

\* Mutant: a block is broadcast when it is added, before it is verified.
AddEarly(n, b, wanted) ==
    /\ pool' = [pool EXCEPT ![n] = @ \cup {b}]
    /\ want' = [want EXCEPT ![n] = @ \cup {b}]
    /\ broadcasted' = [broadcasted EXCEPT ![n] = @ \cup {b}]
    /\ outbox' = outbox \cup ({n} \X {b} \X Peers[n])

\* Mutant: the blocks on top of one that is verified are not looked at.
AddItself(n, b, wanted) ==
    LET before == Verified(pool[n])
        now == {b} \cap Verified(pool[n] \cup {b})
        tips == {x \in now : Height[x] > TopHeight(before) /\ Height[x] = TopHeight(now)}
    IN \E tip \in IF tips = {} THEN {{}} ELSE {{x} : x \in tips} :
          LET wants == want[n] \cup tip \cup (IF wanted THEN {b} ELSE {})
              new == (now \cap wants) \ broadcasted[n]
          IN /\ pool' = [pool EXCEPT ![n] = @ \cup {b}]
             /\ want' = [want EXCEPT ![n] = wants]
             /\ broadcasted' = [broadcasted EXCEPT ![n] = @ \cup new]
             /\ outbox' = outbox \cup ({n} \X new \X Peers[n])

\* AddPoolBlock and verifyLoop: what is verified now is broadcast when it is wanted, and so is a
\* new tip.
Add(n, b, wanted) ==
    LET before == Verified(pool[n])
        now == Verified(pool[n] \cup {b}) \ before
        tips == {x \in now : Height[x] > TopHeight(before) /\ Height[x] = TopHeight(now)}
    IN \E tip \in IF tips = {} THEN {{}} ELSE {{x} : x \in tips} :
          LET wants == want[n] \cup tip \cup (IF wanted THEN {b} ELSE {})
              new == (now \cap wants) \ broadcasted[n]
          IN /\ pool' = [pool EXCEPT ![n] = @ \cup {b}]
             /\ want' = [want EXCEPT ![n] = wants]
             /\ broadcasted' = [broadcasted EXCEPT ![n] = @ \cup new]
             /\ outbox' = outbox \cup ({n} \X new \X Peers[n])

\* The node finds a block.
Mine(b) ==
    LET n == Miner[b] IN
    /\ b \notin pool[n]
    /\ BuiltOn(b) \subseteq Verified(pool[n])
    /\ seen' = [seen EXCEPT ![n] = @ \cup {b}]
    /\ Add(n, b, TRUE)
    /\ UNCHANGED <<ring, channel, requests, requested>>

---------------------------------------------------------------------------
(* Sending.                                                                *)

\* Mutant: the uncles are not looked at.
KnowsParentOnly(n, m, b) == Contains(ring[n][m], Parent[b])

\* The peer has broadcast the parent and the uncles of the block to us.
KnowsLinks(n, m, b) == \A x \in BuiltOn(b) : Contains(ring[n][m], x)

\* Mutant: outputs are left out for everyone.
KindAlwaysPruned(n, m, b) ==
    IF SupportsFeature(Version[m], "PrunedBroadcast") THEN "pruned" ELSE "full"

\* The form of the message.
Kind(n, m, b) ==
    IF ~KnowsLinks(n, m, b) THEN "full"
    ELSE IF Contains(ring[n][m], b) /\ SupportsFeature(Version[m], "BlockNotify") THEN "notify"
    ELSE IF SupportsFeature(Version[m], "CompactBroadcast") THEN "compact"
    ELSE IF SupportsFeature(Version[m], "PrunedBroadcast") THEN "pruned"
    ELSE "full"

\* A goroutine of Broadcast comes to a client.
Send(n, b, m) ==
    /\ <<n, b, m>> \in outbox
    /\ outbox' = outbox \ {<<n, b, m>>}
    /\ channel' = [channel EXCEPT ![n][m] = Append(@, [kind |-> Kind(n, m, b), block |-> b])]
    /\ UNCHANGED <<pool, want, broadcasted, seen, ring, requests, requested>>

---------------------------------------------------------------------------
(* Receiving.                                                              *)

Pushed(r, b) == IF Len(r) < RingSize THEN Append(r, b) ELSE Append(Tail(r), b)

Take(m, n) ==
    /\ channel[m][n] # <<>>
    /\ channel' = [channel EXCEPT ![m][n] = Tail(@)]

\* Requests of n, each a client and a block; what a client was asked for is not asked for again.
\* RequestedHashes forgets a hash after 15 others, more than the model has.  Cached blocks and the
\* fastest client are in module BlockRequests.
RequestUnique(n, asks) ==
    /\ requests' = requests \cup {<<n, a[1], a[2]>> : a \in asks \ requested[n]}
    /\ requested' = [requested EXCEPT ![n] = @ \cup asks]

\* PreprocessBlock can restore what the message leaves out.
Restores(n, msg) ==
    \/ msg.kind \in {"full", "response"}
    \/ /\ msg.kind = "compact" => Parent[msg.block] \in pool[n]
       /\ msg.block \in pool[n] \/ BuiltOn(msg.block) \subseteq Verified(pool[n])

\* The block is added unless it was seen before; what it misses is requested.
AddExternal(n, m, b, wanted) ==
    IF b \in seen[n]
    THEN UNCHANGED <<pool, want, broadcasted, outbox, seen, requests, requested>>
    ELSE /\ seen' = [seen EXCEPT ![n] = @ \cup {b}]
         /\ Add(n, b, wanted)
         /\ RequestUnique(n, {m} \X Missing(n, b))

\* BLOCK_BROADCAST and BLOCK_BROADCAST_COMPACT.
ReadBroadcast(n, m) ==
    LET msg == Head(channel[m][n]) IN
    /\ Take(m, n)
    /\ msg.kind \in {"full", "pruned", "compact"}
    /\ ring' = [ring EXCEPT ![n][m] = Pushed(@, msg.block)]
    /\ IF Restores(n, msg)
       THEN AddExternal(n, m, msg.block, TRUE)
       ELSE /\ RequestUnique(n, {m} \X (IF msg.kind = "compact" THEN {Parent[msg.block]} \ pool[n]
                                        ELSE {}))
            /\ UNCHANGED <<pool, want, broadcasted, outbox, seen>>

\* BLOCK_NOTIFY: the block is requested, also when it was before.
ReadNotify(n, m) ==
    LET msg == Head(channel[m][n]) IN
    /\ Take(m, n)
    /\ msg.kind = "notify"
    /\ ring' = [ring EXCEPT ![n][m] = Pushed(@, msg.block)]
    /\ requests' = requests \cup {<<n, m, b>> : b \in {msg.block} \ pool[n]}
    /\ UNCHANGED <<pool, want, broadcasted, outbox, seen, requested>>

\* The blocks that an answer names before the one asked for: the parent and the uncles of it,
\* held or not, and the grandparent when the parent is held.  The genesis stands for all old
\* blocks, and is its own parent.
Named(n, b) ==
    LET Before(x) == IF x = Genesis THEN Genesis ELSE Parent[x]
    IN  <<Before(b)>> \o SetToSeq(Uncles[b])
        \o (IF Before(b) \in pool[n] THEN <<Before(Before(b))>> ELSE <<>>)

\* BLOCK_REQUEST: a client that has the block, verified or not, names what it builds on and
\* answers.
Answer(n, m, b) ==
    LET notifies == IF SupportsFeature(Version[m], "BlockNotify") THEN Named(n, b) ELSE <<>>
        messages == [i \in DOMAIN notifies |-> [kind |-> "notify", block |-> notifies[i]]]
                    \o <<[kind |-> "response", block |-> b]>>
    IN  /\ <<m, n, b>> \in requests
        /\ requests' = requests \ {<<m, n, b>>}
        /\ channel' = IF b \in pool[n] THEN [channel EXCEPT ![n][m] = @ \o messages] ELSE channel
        /\ UNCHANGED <<pool, want, broadcasted, outbox, seen, ring, requested>>

\* BLOCK_RESPONSE.
ReadResponse(n, m) ==
    LET msg == Head(channel[m][n]) IN
    /\ Take(m, n)
    /\ msg.kind = "response"
    /\ AddExternal(n, m, msg.block, FALSE)
    /\ UNCHANGED ring

\* What the blocks that are not verified build on and is missing is asked for, each from any of
\* the clients.
DownloadMissingBlocks(n) ==
    LET unverified == pool[n] \ Verified(pool[n])
        missing == UNION {Missing(n, b) : b \in unverified}
    IN  /\ missing # {}
        /\ \E client \in [missing -> Peers[n]] : RequestUnique(n, {<<client[b], b>> : b \in missing})
        /\ UNCHANGED <<pool, want, broadcasted, outbox, seen, ring, channel>>

---------------------------------------------------------------------------
Delivers ==
    \E n \in Nodes : \E m \in Peers[n] :
       \/ \E b \in Blocks : Send(n, b, m) \/ Answer(n, m, b)
       \/ ReadBroadcast(n, m) \/ ReadNotify(n, m) \/ ReadResponse(n, m)

Next ==
    \/ Delivers
    \/ \E b \in Blocks : Mine(b)
    \/ \E n \in Nodes : DownloadMissingBlocks(n)

\* As long as a goroutine has something to send or a connection to deliver, something is; that
\* is enough, for a number of blocks leads to a number of messages.
Fairness == WF_vars(Delivers)

Spec == Init /\ [][Next]_vars /\ Fairness

---------------------------------------------------------------------------
\* An answer names blocks that its sender may still miss, to a peer known to read notifications.
IsNotified(n) == SupportsFeature(Version[n], "BlockNotify")

\* Broadcast leaves outputs or transactions out only for a peer that can restore them: it has
\* the parent, the uncles and everything before them when the block arrives.  Only what a sender
\* that is notified knows of its peer may be wrong, and only as long as that peer has a gap: then
\* PreprocessBlock fails and the block is dropped (client.go:474-482, 616-623).
PartialBlocksAreRestored ==
    \A n \in Nodes : \A m \in Peers[n] : \A i \in DOMAIN channel[m][n] :
       \/ channel[m][n][i].kind = "notify"
       \/ Restores(n, channel[m][n][i])
       \/ IsNotified(m) /\ pool[n] # Verified(pool[n])

\* What a client is known to have, it has: a hash is in BroadcastedHashes only if the peer of
\* that client holds the verified block or, where answers name blocks, one that builds on it.
KnownIsNamed ==
    \A n \in Nodes : \A m \in Peers[n] :
       Range(ring[n][m]) \subseteq
          IF IsNotified(n) THEN pool[m] \cup UNION {BuiltOn(b) : b \in pool[m]}
          ELSE Verified(pool[m])

\* A block that one node finds reaches every node, whatever form the messages on its way take.
Found(b) == b \in pool[Miner[b]]
Everywhere(b) == \A n \in Nodes : b \in Verified(pool[n])
BlocksSpread == <>[](\A b \in Blocks : Found(b) => Everywhere(b))
====
