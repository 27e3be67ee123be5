------------------------------ MODULE MCStores -------------------------------
(***************************************************************************)
(* What goroutines of a node share: the work of SplitWork, the view of the *)
(* Monero chain, the cache file, the RandomX states, the ring of recent    *)
(* values and the array of PerfectSum.  A behaviour is of one of them,     *)
(* named by "part"; the variables of the others stay as they are.          *)
(***************************************************************************)
EXTENDS SplitWork

VARIABLES
    part,
    chain, events, record, byHeight, byHash, tip, minerData, fetching, handler, shares, watch, found,
    length, cells, up, storeIndex, once, loading, saver, block, slot, scanned, blobLength, loadSlot,
    loaded, stored, owner, touched, saves, crashes,
    cache, nextState, caller, key, hashedWith, broken, calls, failures,
    buffer, index, answer,
    fee, targetFee, recursion, heap, received, closed

-----------------------------------------------------------------------------
\* A chain through three seed epochs.
L == INSTANCE MainChain WITH
    Start <- 7, MaxHeight <- 17, BlockHeadersRequired <- 3, EpochBlocks <- 4, EpochLag <- 1,
    Tagged <- {}, Faults <- {}

\* A branch that is replaced; both blocks of the height at which the branches part and the
\* one above are shares.
B == INSTANCE MainChain WITH
    Start <- 7, MaxHeight <- 9, BlockHeadersRequired <- 3, EpochBlocks <- 4, EpochLag <- 1,
    Tagged <- {<<7, 0>>, <<7, 1>>, <<8, 0>>}, Faults <- {"reorg"}

\* Lost messages.
G == INSTANCE MainChain WITH
    Start <- 7, MaxHeight <- 10, BlockHeadersRequired <- 3, EpochBlocks <- 4, EpochLag <- 1,
    Tagged <- {}, Faults <- {"lose"}

\* Everything that may go wrong together.
S == INSTANCE MainChain WITH
    Start <- 7, MaxHeight <- 9, BlockHeadersRequired <- 3, EpochBlocks <- 4, EpochLag <- 1,
    Tagged <- {}, Faults <- {"lose", "reorg", "fail"}

ASSUME L!HeightAssumption /\ B!HeightAssumption /\ G!HeightAssumption /\ S!HeightAssumption

\* Three slots, two goroutines that store shares of one and of two cells.
C == INSTANCE LegacyCache WITH
    NumBlocks <- 3, Blocks <- {"short", "long"}, None <- "none", Altered <- "altered",
    Size <- [b \in {"short", "long"} |-> IF b = "short" THEN 1 ELSE 2], BlockSize <- 3,
    Savers <- {1, 2}, MaxSaves <- 3, MaxCrashes <- 1, at <- saver

ASSUME C!CacheAssumption

\* Two goroutines and three seeds for one to three states.
H == INSTANCE HasherCollection WITH
    Keys <- {"k1", "k2", "k3"}, None <- "none", Threads <- {1, 2}, States <- 2, Sizes <- {1, 3},
    MaxCalls <- 4, MaxFailures <- 1, index <- nextState, at <- caller, answer <- hashedWith

\* A ring of four whose index wraps at eight.
R == INSTANCE CircularBuffer WITH
    Size <- 4, Word <- 8, Values <- {"a", "b", "c"}, None <- "none"

ASSUME R!SizeAssumption

\* Up to four transactions.
P == INSTANCE PerfectSum WITH N <- 4, MaxFee <- 2, MaxTarget <- 3, calls <- recursion

-----------------------------------------------------------------------------
Parts == {"work", "long", "branch", "gaps", "stale", "cache", "hasher", "ring", "sums"}

main == <<chain, events, record, byHeight, byHash, tip, minerData, fetching, handler, shares, watch, found>>
store == <<length, cells, up, storeIndex, once, loading, saver, block, slot, scanned, blobLength,
           loadSlot, loaded, stored, owner, touched, saves, crashes>>
hasher == <<cache, nextState, caller, key, hashedWith, broken, calls, failures>>
ring == <<buffer, index, answer>>
sums == <<fee, targetFee, recursion, heap, received, closed>>
allVars == <<part, vars, main, store, hasher, ring, sums>>

\* Every part but the sums starts in one state, in which it stays when it is not the one.
AllInit ==
    /\ part \in Parts
    /\ Init /\ L!Init /\ C!Init /\ H!Init /\ R!Init
    /\ IF part = "sums" THEN P!Init
       ELSE /\ fee = <<>> /\ targetFee = 0 /\ recursion = <<>> /\ heap = <<>>
            /\ received = <<>> /\ closed = FALSE

AllNext ==
    /\ UNCHANGED part
    /\ IF part = "work" THEN Next ELSE UNCHANGED vars
    /\ IF part = "long" THEN L!Next ELSE IF part = "branch" THEN B!Next
       ELSE IF part = "gaps" THEN G!Next ELSE IF part = "stale" THEN S!Next ELSE UNCHANGED main
    /\ IF part = "cache" THEN C!Next ELSE UNCHANGED store
    /\ IF part = "hasher" THEN H!Next ELSE UNCHANGED hasher
    /\ IF part = "ring" THEN R!Next ELSE UNCHANGED ring
    /\ IF part = "sums" THEN P!Next ELSE UNCHANGED sums

\* The fairness of SplitWork and of MainChain, each in its part.
AllSpec ==
    /\ AllInit /\ [][AllNext]_allVars
    /\ WF_vars(part = "work" /\ (Start \/ Return))
    /\ \A r \in Workers : WF_vars(part = "work" /\ (Take(r) \/ Do(r)))
    /\ WF_main(part = "gaps" /\ G!Handle) /\ WF_main(part = "gaps" /\ G!Fetch)

-----------------------------------------------------------------------------
(* What the modules promise, each on the part it is about.  DoesTheWork of *)
(* SplitWork holds in every part.                                          *)

\* The view of the Monero chain the share chain relies on: between messages the tip is what the
\* last miner data builds on (TipIsPrevious), the blocks that seed the proof of work are spared
\* by cleanup (SeedsAreKnown), and the block reported as found is that of the share
\* (FoundIsTheBlock) (mainchain.go:240-348).
MainChainIsKnown ==
    /\ part \in {"branch", "gaps", "stale"} => S!TipIsPrevious
    /\ part = "long" => L!SeedsAreKnown
    /\ part = "branch" => B!FoundIsTheBlock

\* What is begun is completed: the caller of SplitWork gets a result (concurrency.go:10-54),
\* headers of lost messages are asked for again and arrive (GapsAreFilled, mainchain.go:447-495),
\* and cleanup leaves nothing older than it says (CleansUp, mainchain.go:328-348).
WorkCompletes ==
    /\ <>(part = "work" => result # "none")
    /\ part = "gaps" => G!GapsAreFilled
    /\ [][part = "long" => L!CleansUp]_main

\* The cache file over crashes and restarts: LoadAll hands on only what was once stored
\* (LoadedWereStored), an undisturbed Store survives (StoredIsLoadable), and every slot that no
\* Store of this process took is read (EverySlotIsRead) (legacy.go:28-102).
CacheSurvives ==
    part = "cache" => C!LoadedWereStored /\ C!StoredIsLoadable /\ C!EverySlotIsRead

\* HasherCollection!HashIsOfKey: Hash returns a hash made with the seed asked for
\* (randomx_cgo.go:28-49).
HashIsOfKey == part = "hasher" => H!HashIsOfKey

\* CircularBuffer!RemembersRecent: the ring implements Recent, the last values in order
\* (circular_buffer.go:15-61).
RemembersRecent == [][R!RemembersRecent]_ring

\* The consumer of PerfectSum gets every selection once, and none changes under it
\* (PerfectSum!EverySelectionOnce, PerfectSum!ReceivedStays; mempool.go:103-129).
SelectionsArrive == part = "sums" => P!EverySelectionOnce /\ P!ReceivedStays
====
