------------------------------ MODULE MainChain ------------------------------
(***************************************************************************)
(* The view of the Monero chain (p2pool/mainchain/mainchain.go): records   *)
(* of main blocks by height and by hash, kept up to date by the messages   *)
(* monerod publishes (one goroutine handles them in order) and by headers  *)
(* that other goroutines ask monerod for.  It tells the side chain which   *)
(* shares were Monero blocks.                                              *)
(*                                                                         *)
(* A ChainMain is reached through pointers and changed in place, so the    *)
(* records live in a heap and the maps hold references into it.            *)
(* Timestamps, rewards and the median timestamp (which nothing reads) are  *)
(* left out; a difficulty is known or zero.                                *)
(***************************************************************************)
EXTENDS Integers, Sequences, SequencesExt, FiniteSets, FiniteSetsExt

CONSTANTS
    Start,                 \* the height of the first miner data
    MaxHeight,             \* bound: no block above it
    BlockHeadersRequired,  \* 720
    EpochBlocks,           \* randomx.SeedHashEpochBlocks, 2048
    EpochLag,              \* randomx.SeedHashEpochLag, 64
    Tagged,                \* the blocks with a merge-mining tag
    Faults                 \* what may go wrong: "lose" (a message), "reorg", "fail" (a call)

HeightAssumption ==
    /\ {Start, MaxHeight, BlockHeadersRequired, EpochBlocks, EpochLag} \subseteq Nat
    /\ 0 < Start /\ Start <= MaxHeight /\ 0 < EpochBlocks

VARIABLES
    chain,       \* monerod: the branch of its block at each height
    events,      \* messages published and not handled yet
    record,      \* the heap of ChainMain
    byHeight, byHash,
    tip,         \* a reference, or 0
    minerData,   \* tipMinerData, or None
    fetching,    \* the goroutines in getBlockHeader
    handler,     \* what the goroutine that handles messages has still to do
    shares,      \* the template ids the side chain has
    watch,       \* SideChain.watchBlock and watchBlockSidechainId
    found        \* the calls of UpdateBlockFound: the block's id and the share's

vars == <<chain, events, record, byHeight, byHash, tip, minerData, fetching, handler,
          shares, watch, found>>

\* The absent value, and the zero hash of a record that has no id yet.
None == <<>>

Word == 65536    \* heights are unsigned: 2^64 in the code

\* A block is named by its height and its branch.
Block(h) == <<h, chain[h]>>
Top == Max(DOMAIN chain)

Put(f, k, v) == [x \in DOMAIN f \cup {k} |-> IF x = k THEN v ELSE f[x]]

-----------------------------------------------------------------------------
\* randomx.SeedHeight: the block whose hash keys the proof of work of a height.
SeedHeight(h) ==
    IF h <= EpochBlocks + EpochLag THEN 0
    ELSE ((h - EpochLag - 1) \div EpochBlocks) * EpochBlocks

\* Mutant: only the latest seed height.
SeedHeightsNow(h) == {SeedHeight(h)}

SeedHeights(h) ==
    {(SeedHeight(h) + Word - k * EpochBlocks) % Word : k \in 0..2}

PreviousSeed(h) ==
    IF SeedHeight(h) > EpochBlocks THEN SeedHeight(h) - EpochBlocks ELSE 0

\* Mutant: one block too many is kept.
ExpiredLate(heights, height) ==
    {h \in heights : h + BlockHeadersRequired + 1 < height /\ h \notin SeedHeights(height)}

\* cleanup: the heights that go.
Expired(heights, height) ==
    {h \in heights : h + BlockHeadersRequired < height /\ h \notin SeedHeights(height)}

\* DownloadBlockHeaders(height): two seeds, then a range.
Downloaded(height) ==
    {PreviousSeed(height), SeedHeight(height)}
        \cup Max({0, height - BlockHeadersRequired})..(height - 1)

Miner(height, prev) == [type |-> "miner", height |-> height, prev |-> prev]
Main(id) == [type |-> "main", id |-> id]

\* The node has downloaded the headers and gets its first miner data.
Init ==
    LET heights == Downloaded(Start)
        known == SetToSortSeq(heights, <)
        At(h) == CHOOSE i \in 1..Len(known) : known[i] = h
    IN  /\ chain = [h \in 0..(Start - 1) |-> 0]
        /\ events = <<Miner(Start, <<Start - 1, 0>>)>>
        /\ record = [i \in 1..Len(known) |->
                        [height |-> known[i], id |-> <<known[i], 0>>, difficulty |-> TRUE]]
        /\ byHeight = [h \in heights |-> At(h)]
        /\ byHash = [id \in {<<h, 0>> : h \in heights} |-> At(id[1])]
        /\ tip = 0 /\ minerData = None /\ fetching = {} /\ handler = None
        /\ shares = {} /\ watch = None /\ found = {}

-----------------------------------------------------------------------------
(* monerod and the network. *)

\* monerod adds a block and publishes it, then the miner data for the next one.
NewBlock ==
    /\ Top < MaxHeight
    /\ chain' = Put(chain, Top + 1, 0)
    /\ events' = events \o <<Main(<<Top + 1, 0>>), Miner(Top + 2, <<Top + 1, 0>>)>>
    /\ UNCHANGED <<record, byHeight, byHash, tip, minerData, fetching, handler, shares,
                   watch, found>>

\* Another branch replaces the last block and is one block longer.
Reorganise ==
    /\ "reorg" \in Faults
    /\ Top < MaxHeight /\ Top >= Start /\ chain[Top] = 0
    /\ chain' = Put(Put(chain, Top, 1), Top + 1, 0)
    /\ events' = events \o <<Main(<<Top, 1>>), Main(<<Top + 1, 0>>),
                             Miner(Top + 2, <<Top + 1, 0>>)>>
    /\ UNCHANGED <<record, byHeight, byHash, tip, minerData, fetching, handler, shares,
                   watch, found>>

\* A publisher drops what a slow subscriber cannot take.
Lose ==
    /\ "lose" \in Faults
    /\ \E i \in 1..Len(events) :
          /\ minerData # None \/ i > 1
          /\ events' = RemoveAt(events, i)
    /\ UNCHANGED <<chain, record, byHeight, byHash, tip, minerData, fetching, handler,
                   shares, watch, found>>

-----------------------------------------------------------------------------
(* The maps, under the lock. *)

\* A new record in both maps.
Insert(r) ==
    /\ record' = Append(record, r)
    /\ byHeight' = Put(byHeight, r.height, Len(record) + 1)
    /\ byHash' = Put(byHash, r.id, Len(record) + 1)

\* Mutant: the block known at the height below.
UpdateTipByHeight ==
    tip' = IF minerData # None /\ (minerData.height - 2) \in DOMAIN byHeight
           THEN byHeight[minerData.height - 2] ELSE tip

\* The tip is the block the last miner data builds on, if it is known.
UpdateTip ==
    tip' = IF minerData # None /\ minerData.prev \in DOMAIN byHash
           THEN byHash[minerData.prev] ELSE tip

\* The first half of HandleMainBlock: a block whose height has a record replaces it.
HandleMainBlock ==
    /\ handler = None /\ events # <<>> /\ Head(events).type = "main"
    /\ LET id == Head(events).id IN
       /\ IF id[1] \in DOMAIN byHeight
          THEN Insert([height |-> id[1], id |-> id,
                       difficulty |-> record[byHeight[id[1]]].difficulty])
          ELSE \* mainData is still what is watched or reported below
               /\ record' = Append(record, [height |-> id[1], id |-> id, difficulty |-> FALSE])
               /\ UNCHANGED <<byHeight, byHash>>
       /\ handler' = IF id \in Tagged
                     THEN [step |-> "lookup", id |-> id, main |-> Len(record')] ELSE None
    /\ events' = Tail(events)
    /\ UNCHANGED <<chain, tip, minerData, fetching, shares, watch, found>>

\* GetPoolBlockByTemplateId: the share may be there already.
LookUp ==
    /\ handler # None /\ handler.step = "lookup"
    /\ IF handler.id \in shares
       THEN /\ found' = found \cup {<<record[handler.main].id, handler.id>>}
            /\ handler' = [handler EXCEPT !.step = "tip"]
       ELSE /\ handler' = [handler EXCEPT !.step = "watch"]
            /\ UNCHANGED found
    /\ UNCHANGED <<chain, events, record, byHeight, byHash, tip, minerData, fetching,
                   shares, watch>>

WatchMainChainBlock ==
    /\ handler # None /\ handler.step = "watch"
    /\ watch' = [main |-> handler.main, id |-> handler.id]
    /\ handler' = [handler EXCEPT !.step = "tip"]
    /\ UNCHANGED <<chain, events, record, byHeight, byHash, tip, minerData, fetching,
                   shares, found>>

\* The end of HandleMainBlock and of HandleMinerData.
FinishHandler ==
    /\ handler # None /\ handler.step = "tip"
    /\ UpdateTip
    /\ handler' = None
    /\ UNCHANGED <<chain, events, record, byHeight, byHash, minerData, fetching, shares,
                   watch, found>>

\* Mutant: the block that is now known at the height of the share is reported.
AddPoolBlockByHeight(s) ==
    /\ s \notin shares /\ s[1] <= Top
    /\ shares' = shares \cup {s}
    /\ IF watch # None /\ watch.id = s /\ s[1] \in DOMAIN byHeight
       THEN /\ found' = found \cup {<<record[byHeight[s[1]]].id, s>>}
            /\ watch' = [watch EXCEPT !.id = None]
       ELSE UNCHANGED <<found, watch>>
    /\ UNCHANGED <<chain, events, record, byHeight, byHash, tip, minerData, fetching, handler>>

\* The side chain adds the share of a tagged block, and asks if it is watched.
AddPoolBlock(s) ==
    /\ s \notin shares /\ s[1] <= Top
    /\ shares' = shares \cup {s}
    /\ IF watch # None /\ watch.id = s
       THEN /\ found' = found \cup {<<record[watch.main].id, s>>}
            /\ watch' = [watch EXCEPT !.id = None]
       ELSE UNCHANGED <<found, watch>>
    /\ UNCHANGED <<chain, events, record, byHeight, byHash, tip, minerData, fetching, handler>>

-----------------------------------------------------------------------------
(* Miner data, and the headers it finds missing. *)

\* The records of miner data d: its own height has a difficulty and no id yet,
\* the height below has an id, which overwrites the one that was there.
WithHeight(rs, hs, d) ==
    IF d.height \in DOMAIN hs
    THEN [recs |-> [rs EXCEPT ![hs[d.height]].difficulty = TRUE], heights |-> hs]
    ELSE [recs |-> Append(rs, [height |-> d.height, id |-> None, difficulty |-> TRUE]),
          heights |-> Put(hs, d.height, Len(rs) + 1)]

WithPrevious(rs, hs, d) ==
    IF d.height - 1 \in DOMAIN hs
    THEN [recs |-> [rs EXCEPT ![hs[d.height - 1]].id = d.prev], heights |-> hs]
    ELSE [recs |-> Append(rs, [height |-> d.height - 1, id |-> d.prev, difficulty |-> FALSE]),
          heights |-> Put(hs, d.height - 1, Len(rs) + 1)]

\* Mutant: only a height without a record is missing.
MissingRecords(rs, hs, height) ==
    {h \in 1..height : h + BlockHeadersRequired > height /\ h \notin DOMAIN hs}

MissingHeights(rs, hs, height) ==
    {h \in 1..height : /\ h + BlockHeadersRequired > height
                       /\ h \in DOMAIN hs => ~rs[hs[h]].difficulty}

HandleMinerData ==
    /\ handler = None /\ events # <<>> /\ Head(events).type = "miner"
    /\ LET d == Head(events)
           own == WithHeight(record, byHeight, d)
           prev == WithPrevious(own.recs, own.heights, d)
           hashes == Put(byHash, d.prev, prev.heights[d.height - 1])
           gone == Expired(DOMAIN prev.heights, d.height)
           goneIds == {prev.recs[prev.heights[h]].id : h \in gone}
           left == [h \in DOMAIN prev.heights \ gone |-> prev.heights[h]]
       IN /\ record' = prev.recs
          /\ byHeight' = left
          /\ byHash' = [id \in DOMAIN hashes \ goneIds |-> hashes[id]]
          /\ minerData' = d
          /\ fetching' = fetching \cup {[height |-> h, by |-> d.height, id |-> None] :
                                           h \in MissingHeights(prev.recs, left, d.height)}
    /\ handler' = [step |-> "tip", id |-> None, main |-> 0]
    /\ events' = Tail(events)
    /\ UNCHANGED <<chain, tip, shares, watch, found>>

\* monerod answers with its block at that height ...
HeaderAnswer(q) ==
    /\ q.id = None /\ q.height \in DOMAIN chain
    /\ fetching' = (fetching \ {q}) \cup {[q EXCEPT !.id = Block(q.height)]}
    /\ UNCHANGED <<chain, events, record, byHeight, byHash, tip, minerData, handler,
                   shares, watch, found>>

\* ... or the call fails, and is not repeated.
HeaderFails(q) ==
    /\ "fail" \in Faults /\ q.id = None
    /\ fetching' = fetching \ {q}
    /\ UNCHANGED <<chain, events, record, byHeight, byHash, tip, minerData, handler,
                   shares, watch, found>>

HandleMainHeader(q) ==
    /\ q.id # None
    /\ Insert([height |-> q.height, id |-> q.id, difficulty |-> TRUE])
    /\ fetching' = fetching \ {q}
    /\ UNCHANGED <<chain, events, tip, minerData, handler, shares, watch, found>>

Handle ==
    HandleMainBlock \/ LookUp \/ WatchMainChainBlock \/ FinishHandler \/ HandleMinerData

Fetch == \E q \in fetching : HeaderAnswer(q) \/ HandleMainHeader(q)

Next ==
    \/ NewBlock \/ Reorganise \/ Lose
    \/ Handle
    \/ Fetch
    \/ \E q \in fetching : HeaderFails(q)
    \/ \E s \in Tagged : AddPoolBlock(s)

\* Messages are handled, and calls to monerod return.
Spec == Init /\ [][Next]_vars /\ WF_vars(Handle) /\ WF_vars(Fetch)

-----------------------------------------------------------------------------
\* Between messages the tip is the block that the last miner data builds on
\* (updateTip, mainchain.go:312-318, at the end of HandleMinerData), whatever headers
\* and blocks arrived before it, in between or were lost.
TipIsPrevious ==
    handler = None /\ minerData # None
        => tip # 0 /\ record[tip].id = minerData.prev /\ record[tip].height = minerData.height - 1

\* For every height of the last BlockHeadersRequired the block that seeds its proof of
\* work has a record, with the id it has in the chain: DownloadBlockHeaders got it, or it
\* came with a message, and cleanup spared it (mainchain.go:328-350).
SeedsAreKnown ==
    minerData # None =>
        \A h \in 0..minerData.height :
            h + BlockHeadersRequired > minerData.height =>
                LET s == SeedHeight(h)
                IN  s \in DOMAIN byHeight /\ record[byHeight[s]].id = Block(s)

\* A Monero block is reported as found with the share whose template id it carries
\* (UpdateBlockFound, mainchain.go:281-285 and sidechain.go:433-436), although its record
\* is shared with the maps, where it may be replaced before the share arrives.
FoundIsTheBlock == \A p \in found : p[1] = p[2]

\* After HandleMinerData no map holds a block older than BlockHeadersRequired, but for
\* the three latest seed heights (the comment on cleanup, mainchain.go:330).
CleansUp ==
    HandleMinerData =>
        \A h \in DOMAIN byHeight' \cup {id[1] : id \in DOMAIN byHash'} :
            \/ h + BlockHeadersRequired >= minerData'.height
            \/ h \in SeedHeights(minerData'.height)

\* When messages were lost, the heights of the last BlockHeadersRequired that have no
\* difficulty are asked for again (mainchain.go:446-453) and get one, and no record of
\* them has a wrong id.
GapsAreFilled ==
    <>[](minerData # None /\
         \A h \in 1..(minerData.height - 1) :
             h + BlockHeadersRequired > minerData.height =>
                 /\ h \in DOMAIN byHeight
                 /\ record[byHeight[h]].difficulty
                 /\ record[byHeight[h]].id \in {None, Block(h)})
====
