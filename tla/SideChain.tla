----------------------------- MODULE SideChain -----------------------------
(***************************************************************************)
(* The share chain of a P2Pool node: p2pool/sidechain/sidechain.go.        *)
(*                                                                         *)
(* Shares ("pool blocks") arrive in any order.  AddPoolBlock stores one    *)
(* under the write lock sidechainLock, recomputes depths (updateDepths),   *)
(* verifies every block that became verifiable (verifyLoop, verifyBlock),  *)
(* moves the chain tip (updateChainTip) and prunes (pruneOldBlocks).  The  *)
(* code runs these as loops over explicit work lists; here each iteration  *)
(* of a loop is one step of the goroutine that holds the lock, named by    *)
(* pc, so that goroutines which only touch atomics or seenBlocks           *)
(* (BlockSeen) interleave with it.                                         *)
(*                                                                         *)
(* A share is its template id, a positive number; hashes are compared as   *)
(* numbers and types.ZeroHash and nil are NoBlock.  The content of the     *)
(* shares is given by the constants below.  On the way in, copies of a     *)
(* share that differ in the nonce only are told apart by their FullId.     *)
(***************************************************************************)
EXTENDS Integers, Sequences, FiniteSets, Functions

CONSTANTS
  Blocks,                \* template ids of the shares that exist
  Nonces,                \* what a share can be mined with: its id and nonce are its FullId
  Served,                \* full ids of the copies some peer still has and sends
  Height,                \* Side.Height
  Parent,                \* Side.Parent
  Uncles,                \* Side.Uncles, in the order of the share
  Difficulty,            \* Side.Difficulty
  CumulativeDifficulty,  \* Side.CumulativeDifficulty
  NextDifficulty,        \* what NextDifficulty() returns for the window that ends at
                         \* a share; 0 stands for the error of a wrapped computation
  WrongSeed,             \* shares whose tx key seed is not the one expected
  WrongOutputs,          \* shares whose coinbase outputs or rewards are wrong
  StaleMainchain,        \* tips of chains mined on old or unknown Monero blocks
  FromBroadcast,         \* full ids received in a BLOCK_BROADCAST
  WatchIds,              \* shares that turn out to be Monero blocks
  CanFailPow,            \* shares mined on a seed the node may not know yet
  CanExpire,             \* shares old enough for pruneDelay to elapse
  MainDifficultyAnswers, \* can GetDifficultyByHeight answer: {TRUE} or BOOLEAN
  Receivers,             \* how many shares peers may be delivering at once
  Concurrent,            \* may shares arrive while sidechainLock is held
  Lawful,                \* (properties only) the shares that obey every rule once the
                         \* whole chain is known
  ChainWindowSize, MinimumDifficulty,
  PruneSpare             \* monero.BlockTime / TargetBlockTime

NoBlock == 0
UncleBlockDepth == 3
FullIds == Blocks \X Nonces
Heights == {Height[b] : b \in Blocks}

ASSUME BlocksAssumption ==
  /\ Blocks \subseteq Nat \ {NoBlock}
  /\ Height \in [Blocks -> Nat]
  /\ Parent \in [Blocks -> Blocks \cup {NoBlock}]
  /\ Uncles \in [Blocks -> Seq(Blocks \cup {NoBlock})]
  /\ Difficulty \in [Blocks -> Nat]
  /\ CumulativeDifficulty \in [Blocks -> Nat]
  /\ NextDifficulty \in [Blocks -> Nat]

ASSUME ConsensusAssumption ==
  /\ ChainWindowSize \in Nat \ {0}
  /\ MinimumDifficulty \in Nat \ {0}
  /\ PruneSpare \in Nat \ {0}
  /\ Receivers \in Nat
  /\ MainDifficultyAnswers \subseteq BOOLEAN /\ Concurrent \in BOOLEAN

VARIABLES
  blocksByTemplateId,    \* the shares stored
  blocksByHeight,        \* per height, the shares in the order they came
  blocksByHeightKeys,    \* the heights listed; a set, since they are sorted before use
  Depth, Verified, Invalid,
  iterationCache,        \* shares that hold pointers to their parent and uncles
  WantBroadcast, Broadcasted,
  chainTip, syncTip, currentDifficulty, precalcFinished,
  seenBlocks, watchBlockSidechainId,
  \* Environment and history
  inFlight,              \* shares past BlockSeen, inside AddPoolBlockExternal
  admitted,              \* shares that passed its checks, waiting for the lock
  expired,               \* shares whose LocalTimestamp is more than pruneDelay ago
  pruned,                \* shares removed by pruneOldBlocks
  skipped,               \* shares accepted by the deep block rule, unchecked
  sent,                  \* number of server.Broadcast calls per share
  found,                 \* shares reported with server.UpdateBlockFound
  \* The goroutine inside AddPoolBlock
  pc, ret,               \* where it is; where verifyLoop returns to
  adding,                \* the argument of AddPoolBlock
  todo,                  \* rest of the list the current for loop ranges over
  blocksToUpdate, block, blockDepth, returnFromUncles,     \* updateDepths
  blocksToVerify, highestBlock,                            \* verifyLoop
  pruneFrom, pruneSkip, pruneKey, pruneIndex, numBlocksPruned    \* pruneOldBlocks

store == <<blocksByTemplateId, blocksByHeight, blocksByHeightKeys, pruned>>
flags == <<Verified, Invalid, iterationCache, skipped>>
casts == <<WantBroadcast, Broadcasted, sent>>
tips == <<chainTip, syncTip, currentDifficulty, precalcFinished>>
intake == <<seenBlocks, inFlight, admitted, expired, watchBlockSidechainId, found>>
depthLoop == <<adding, todo, blocksToUpdate, block, blockDepth, returnFromUncles>>
verifying == <<blocksToVerify, highestBlock, ret>>
pruning == <<pruneFrom, pruneSkip, pruneKey, pruneIndex, numBlocksPruned>>
vars == <<store, flags, casts, tips, intake, depthLoop, verifying, pruning, Depth, pc>>

Init ==
  /\ blocksByTemplateId = {}
  /\ blocksByHeight = [h \in Heights |-> <<>>]
  /\ blocksByHeightKeys = {}
  /\ Depth = [b \in Blocks |-> 0]
  /\ Verified = {} /\ Invalid = {} /\ iterationCache = {}
  /\ WantBroadcast = {} /\ Broadcasted = {}
  /\ chainTip = NoBlock /\ syncTip = NoBlock
  /\ currentDifficulty = MinimumDifficulty
  /\ precalcFinished = FALSE
  /\ seenBlocks = {} /\ watchBlockSidechainId = NoBlock
  /\ inFlight = {} /\ admitted = {} /\ expired = {} /\ found = {}
  /\ pruned = {} /\ skipped = {}
  /\ sent = [b \in Blocks |-> 0]
  /\ pc = "free" /\ ret = "done"
  /\ adding = NoBlock /\ todo = <<>>
  /\ blocksToUpdate = <<>> /\ block = NoBlock /\ blockDepth = 0
  /\ returnFromUncles = FALSE
  /\ blocksToVerify = <<>> /\ highestBlock = NoBlock
  /\ pruneFrom = 0 /\ pruneSkip = 0 /\ pruneKey = 0 /\ pruneIndex = 0
  /\ numBlocksPruned = 0
-----------------------------------------------------------------------------
(***************************************************************************)
(* Reading the chain.                                                      *)
(***************************************************************************)

\* getPoolBlocksByHeight
AtHeight(h) == IF h \in Heights THEN blocksByHeight[h] ELSE <<>>

\* Mutation of Above: the blocks that include b as an uncle from further up are missed.
AboveNext(b) == AtHeight(Height[b] + 1)

\* The blocks at the next UncleBlockDepth heights, as every loop visits them.
Above(b) == AtHeight(Height[b] + 1) \o AtHeight(Height[b] + 2) \o AtHeight(Height[b] + 3)

\* The work lists are stacks.
Top(list) == list[Len(list)]
Rest(list) == SubSeq(list, 1, Len(list) - 1)

\* iteratorGetParent: a filled cache answers even when the parent was pruned.
GetParent(b) ==
  IF b # NoBlock /\ (b \in iterationCache \/ Parent[b] \in blocksByTemplateId)
  THEN Parent[b] ELSE NoBlock

\* iteratorUncles finds this uncle of b.
HasUncle(b, u) == b \in iterationCache \/ u \in blocksByTemplateId

\* The block k parents above b, NoBlock once the chain is unknown.
Ancestor(b, k) ==
  LET up[i \in 0..k] == IF i = 0 THEN b ELSE GetParent(up[i - 1])
  IN  up[k]

\* The walk of GetDifficultyForNextBlock and BlocksInPPLNSWindow from tip: it
\* reaches ChainWindowSize blocks or the genesis block, finding every uncle.
WindowComplete(tip) ==
  \A k \in 0 .. ChainWindowSize - 1 :
    (\A j \in 0 .. k - 1 : Ancestor(tip, j) # NoBlock /\ Height[Ancestor(tip, j)] # 0)
    => LET b == Ancestor(tip, k)
       IN  b # NoBlock /\ \A i \in DOMAIN Uncles[b] : HasUncle(b, Uncles[b][i])

\* Sum of the difficulties of the uncles of b found before the first unknown one.
UncleDifficulty(b) ==
  LET us == Uncles[b]
      sum[i \in 0 .. Len(us)] ==
        IF i = 0 THEN 0
        ELSE sum[i - 1] + (IF \A j \in 1 .. i : HasUncle(b, us[j])
                           THEN Difficulty[us[i]] ELSE 0)
  IN  sum[Len(us)]

\* Difficulty of the last ChainWindowSize blocks of a chain, uncles included.
WindowDifficulty(tip) ==
  LET total[k \in 0 .. ChainWindowSize] ==
        IF k = 0 THEN 0
        ELSE LET b == Ancestor(tip, k - 1)
             IN  total[k - 1]
                 + (IF b = NoBlock THEN 0 ELSE Difficulty[b] + UncleDifficulty(b))
  IN  total[ChainWindowSize]

\* Two chains are the same when, at some height both reach, they have one parent.
CommonAncestor(a, b) ==
  \E i \in 0 .. Height[a], j \in 0 .. Height[b] :
    LET x == Ancestor(a, i)
        y == Ancestor(b, j)
    IN  /\ x # NoBlock /\ y # NoBlock
        /\ Height[x] = Height[y]
        /\ Parent[x] = Parent[y]

\* Mutation of IsLongerChain: the higher block wins.
IsHigherChain(tip, candidate) == IF tip = NoBlock THEN TRUE ELSE Height[tip] < Height[candidate]

\* IsLongerChain for a verified, valid candidate: the callers see to that guard.
IsLongerChain(tip, candidate) ==
  \/ tip = NoBlock
  \/ /\ tip # NoBlock
     /\ IF CommonAncestor(tip, candidate)
        THEN CumulativeDifficulty[tip] < CumulativeDifficulty[candidate]
        ELSE /\ WindowDifficulty(tip) < WindowDifficulty(candidate)
             /\ candidate \notin StaleMainchain

IsAlternative(tip, candidate) == tip = NoBlock \/ ~CommonAncestor(tip, candidate)

(***************************************************************************)
(* verifyBlock: "ok", "invalid", or "pending" while something is missing.  *)
(***************************************************************************)
GenesisVerdict(b) ==
  IF /\ Parent[b] = NoBlock /\ Uncles[b] = <<>>
     /\ Difficulty[b] = MinimumDifficulty
     /\ CumulativeDifficulty[b] = MinimumDifficulty
     /\ b \notin WrongSeed
  THEN "ok" ELSE "invalid"

DeepBlock(b) == Depth[b] > (ChainWindowSize - 1) * 2 + UncleBlockDepth

\* minedBlocks: the last blocks under b and the uncles they already include.
MinedBlocks(b) ==
  LET last == {Ancestor(Parent[b], k) : k \in 0 .. UncleBlockDepth - 1} \ {NoBlock}
  IN  last \cup UNION {Range(Uncles[a]) : a \in last}

\* Uncle u and the parent of b descend from one block close to b.
UncleOnSameChain(b, u) ==
  LET tmp == Ancestor(Parent[b], Height[Parent[b]] - Height[u])
  IN  /\ tmp # NoBlock
      /\ Height[tmp] = Height[u]
      /\ \E j \in 0 .. UncleBlockDepth - 1 :
           /\ \A i \in 0 .. j : /\ Ancestor(tmp, i) # NoBlock
                                /\ Ancestor(u, i) # NoBlock
                                /\ Height[Ancestor(tmp, i)] + UncleBlockDepth >= Height[b]
           /\ Parent[Ancestor(tmp, j)] = Parent[Ancestor(u, j)]

\* Mutation of UncleVerdict: an uncle that is not there yet is taken for a wrong one.
UncleVerdictNow(b, u) ==
  IF u \in blocksByTemplateId \cap Verified /\ UncleOnSameChain(b, u) THEN "ok" ELSE "invalid"

UncleVerdict(b, u) ==
  IF u = NoBlock \/ u \in MinedBlocks(b) THEN "invalid"
  ELSE IF u \notin blocksByTemplateId \/ u \notin Verified THEN "pending"
  ELSE IF /\ u \notin Invalid
          /\ Height[u] < Height[b] /\ Height[u] + UncleBlockDepth >= Height[b]
          /\ UncleOnSameChain(b, u)
  THEN "ok" ELSE "invalid"

\* The first uncle that is not in order decides.
UnclesVerdict(b) ==
  LET us == Uncles[b]
      bad == {i \in DOMAIN us : UncleVerdict(b, us[i]) # "ok"}
  IN  IF bad = {} THEN "ok"
      ELSE UncleVerdict(b, us[CHOOSE i \in bad : \A j \in bad : i <= j])

UnclesSorted(b) == \A i \in 2 .. Len(Uncles[b]) : Uncles[b][i - 1] < Uncles[b][i]

\* A block on the tip is held to the current difficulty, any other block to the one
\* computed from the window under it.
ExpectedDifficulty(b) ==
  IF Parent[b] = chainTip THEN currentDifficulty ELSE NextDifficulty[Parent[b]]

DifficultyKnown(b) == Parent[b] = chainTip \/ WindowComplete(Parent[b])

\* Mutation of WindowVerdict: the outputs are not compared.
WindowVerdictDifficulty(b, mainDifficulty) ==
  IF DifficultyKnown(b) /\ ExpectedDifficulty(b) = Difficulty[b] THEN "ok" ELSE "pending"

\* Difficulty and rewards, for blocks inside the PPLNS window.
WindowVerdict(b, mainDifficulty) ==
  IF ~DifficultyKnown(b) THEN "pending"
  ELSE IF /\ ExpectedDifficulty(b) # 0
          /\ ExpectedDifficulty(b) = Difficulty[b]
          /\ mainDifficulty /\ WindowComplete(b)
          /\ b \notin WrongOutputs
  THEN "ok" ELSE "invalid"

\* Mutation of VerifyBlock: a child of an invalid parent passes.
VerifyBlockOnInvalid(b, mainDifficulty) ==
  IF Height[b] = 0 THEN GenesisVerdict(b)
  ELSE IF GetParent(b) = NoBlock \/ Parent[b] \notin Verified THEN "pending"
  ELSE IF Parent[b] \in Invalid THEN "ok"
  ELSE IF Height[Parent[b]] + 1 # Height[b] THEN "invalid"
  ELSE IF UnclesVerdict(b) # "ok" THEN UnclesVerdict(b)
  ELSE WindowVerdict(b, mainDifficulty)

VerifyBlock(b, mainDifficulty) ==
  IF Height[b] = 0 THEN GenesisVerdict(b)
  ELSE IF DeepBlock(b) THEN "ok"
  ELSE IF Parent[b] = NoBlock THEN "invalid"
  ELSE IF GetParent(b) = NoBlock \/ Parent[b] \notin Verified THEN "pending"
  ELSE IF \/ Parent[b] \in Invalid \/ b \in WrongSeed
          \/ Height[Parent[b]] + 1 # Height[b] \/ ~UnclesSorted(b) THEN "invalid"
  ELSE IF UnclesVerdict(b) # "ok" THEN UnclesVerdict(b)
  ELSE IF CumulativeDifficulty[b] #
            CumulativeDifficulty[Parent[b]] + Difficulty[b] + UncleDifficulty(b)
       THEN "invalid"
  ELSE IF Depth[b] >= ChainWindowSize THEN "ok"
  ELSE WindowVerdict(b, mainDifficulty)
-----------------------------------------------------------------------------
(***************************************************************************)
(* Receiving a share: the handlers of BLOCK_RESPONSE and BLOCK_BROADCAST.  *)
(***************************************************************************)

\* Mutation of TooOld: the early exit comes two windows later.
TooOldTwice(b) ==
  /\ chainTip # NoBlock
  /\ Height[chainTip] > Height[b] + ChainWindowSize * 4

\* The early exit of BlockSeen: far below the tip and with less difficulty.
TooOld(b) ==
  /\ chainTip # NoBlock
  /\ Height[chainTip] > Height[b] + ChainWindowSize * 2
  /\ CumulativeDifficulty[b] < CumulativeDifficulty[chainTip]

BlockSeen(b, nonce) == TooOld(b) \/ <<b, nonce>> \in seenBlocks

\* BLOCK_BROADCAST and BLOCK_RESPONSE: a share that BlockSeen does not know is marked
\* seen by it and goes on to AddPoolBlockExternal.  A BLOCK_BROADCAST also sets
\* WantBroadcast, of an object nobody else has yet: see AddPoolBlock.
Receive(b) ==
  /\ Cardinality(inFlight) + Cardinality(admitted) < Receivers
  /\ pc = "free" \/ Concurrent
  /\ \E nonce \in Nonces :
       /\ <<b, nonce>> \in Served
       /\ IF BlockSeen(b, nonce)
          THEN UNCHANGED <<seenBlocks, inFlight>>
          ELSE /\ seenBlocks' = seenBlocks \cup {<<b, nonce>>}
               /\ inFlight' = inFlight \cup {<<b, nonce>>}
  /\ UNCHANGED <<store, flags, casts, tips, admitted, expired, watchBlockSidechainId, found,
                 depthLoop, verifying, pruning, Depth, pc>>

\* pruneDelay has elapsed since b was received.
Expire(b) ==
  /\ b \in CanExpire \cap blocksByTemplateId
  /\ expired' = expired \cup {b}
  /\ UNCHANGED <<store, flags, casts, tips, seenBlocks, inFlight, admitted,
                 watchBlockSidechainId, found, depthLoop, verifying, pruning, Depth, pc>>

\* The main chain found a Monero block mined by a share the node does not have.
WatchMainChainBlock(b) ==
  /\ pc = "free"
  /\ b \in WatchIds
  /\ watchBlockSidechainId' = b
  /\ UNCHANGED <<store, flags, casts, tips, seenBlocks, inFlight, admitted, expired, found,
                 depthLoop, verifying, pruning, Depth, pc>>

(***************************************************************************)
(* AddPoolBlockExternal up to its call of AddPoolBlock.  The reads of the  *)
(* chain wait for the read lock.  The checks of the share alone (keys,     *)
(* template id, proof of work) are not modelled: what fails them is banned *)
(* and is no share.                                                        *)
(***************************************************************************)

\* Less than half the difficulty of every block in the window under the tip.
TooLowDifficulty(b) ==
  \/ Difficulty[b] < MinimumDifficulty
  \/ /\ Difficulty[b] < currentDifficulty
     /\ \A k \in 0 .. ChainWindowSize - 1 :
          Ancestor(chainTip, k) # NoBlock
          => Difficulty[b] * 2 < Difficulty[Ancestor(chainTip, k)]

\* Already added, or with too little difficulty: dropped, and it stays seen.
Reject(b) ==
  /\ pc = "free"
  /\ b \in blocksByTemplateId \/ TooLowDifficulty(b)
  /\ \E nonce \in Nonces :
       <<b, nonce>> \in inFlight /\ inFlight' = inFlight \ {<<b, nonce>>}
  /\ UNCHANGED <<store, flags, casts, tips, seenBlocks, admitted, expired,
                 watchBlockSidechainId, found, depthLoop, verifying, pruning, Depth, pc>>

\* The proof of work cannot be computed yet: BlockUnsee lets the share come again.
PowError(b) ==
  /\ pc = "free"
  /\ b \in CanFailPow
  /\ b \notin blocksByTemplateId /\ ~TooLowDifficulty(b)
  /\ \E nonce \in Nonces :
       /\ <<b, nonce>> \in inFlight
       /\ inFlight' = inFlight \ {<<b, nonce>>}
       /\ seenBlocks' = seenBlocks \ {<<b, nonce>>}
  /\ UNCHANGED <<store, flags, casts, tips, admitted, expired, watchBlockSidechainId,
                 found, depthLoop, verifying, pruning, Depth, pc>>

Admit(b) ==
  /\ pc = "free"
  /\ b \notin blocksByTemplateId /\ ~TooLowDifficulty(b)
  /\ \E nonce \in Nonces :
       /\ <<b, nonce>> \in inFlight
       /\ inFlight' = inFlight \ {<<b, nonce>>}
       /\ admitted' = admitted \cup {<<b, nonce>>}
  /\ UNCHANGED <<store, flags, casts, tips, seenBlocks, expired, watchBlockSidechainId,
                 found, depthLoop, verifying, pruning, Depth, pc>>

(***************************************************************************)
(* AddPoolBlock, under sidechainLock.                                      *)
(***************************************************************************)

\* Another copy was added since Admit looked.  A pruned share that comes back would be a
\* new object of the same id; the model, where a share is its id, drops it.  That takes a
\* second copy that passed BlockSeen before the first was pruned, or a tip that has fallen: see
\* PrunedStaysOut.
AddPoolBlockAgain(b) ==
  /\ pc = "free"
  /\ b \in blocksByTemplateId \cup pruned
  /\ \E nonce \in Nonces :
       <<b, nonce>> \in admitted /\ admitted' = admitted \ {<<b, nonce>>}
  /\ UNCHANGED <<store, flags, casts, tips, seenBlocks, inFlight, expired,
                 watchBlockSidechainId, found, depthLoop, verifying, pruning, Depth, pc>>

AddPoolBlock(b) ==
  /\ pc = "free"
  /\ b \notin blocksByTemplateId \cup pruned
  /\ \E nonce \in Nonces :
       /\ <<b, nonce>> \in admitted
       /\ admitted' = admitted \ {<<b, nonce>>}
       /\ WantBroadcast' = IF <<b, nonce>> \in FromBroadcast THEN WantBroadcast \cup {b}
                           ELSE WantBroadcast
  /\ blocksByTemplateId' = blocksByTemplateId \cup {b}
  /\ IF b = watchBlockSidechainId
     THEN found' = found \cup {b} /\ watchBlockSidechainId' = NoBlock
     ELSE UNCHANGED <<found, watchBlockSidechainId>>
  /\ blocksByHeight' = [blocksByHeight EXCEPT ![Height[b]] = Append(@, b)]
  /\ blocksByHeightKeys' = blocksByHeightKeys \cup {Height[b]}
  /\ adding' = b
  /\ todo' = Above(b)
  /\ pc' = "initDepth"
  /\ UNCHANGED <<pruned, flags, Broadcasted, sent, tips, seenBlocks, inFlight, expired,
                 blocksToUpdate, block, blockDepth, returnFromUncles, verifying, pruning, Depth>>

\* After updateDepths: a block it already verified may become the tip, any other
\* one is verified now.
AfterDepths ==
  /\ pc = "added"
  /\ ret' = "done"
  /\ IF adding \in Verified
     THEN IF adding \in Invalid
          THEN pc' = "done" /\ UNCHANGED <<blocksToVerify, highestBlock>>
          ELSE pc' = "tip" /\ highestBlock' = adding /\ UNCHANGED blocksToVerify
     ELSE /\ pc' = "verify"
          /\ blocksToVerify' = <<adding>>
          /\ highestBlock' = NoBlock
  /\ UNCHANGED <<store, flags, casts, tips, intake, depthLoop, pruning, Depth>>

\* The deferred update of syncTip, and the unlock.
Done ==
  /\ pc = "done"
  /\ syncTip' = IF adding \notin Invalid /\ Depth[adding] = 0 THEN adding ELSE syncTip
  /\ adding' = NoBlock /\ todo' = <<>> /\ blocksToUpdate' = <<>>
  /\ block' = NoBlock /\ blockDepth' = 0 /\ returnFromUncles' = FALSE
  /\ pc' = "free"
  /\ UNCHANGED <<store, flags, casts, chainTip, currentDifficulty, precalcFinished, intake,
                 verifying, pruning, Depth>>

(***************************************************************************)
(* updateDepths.                                                           *)
(***************************************************************************)
\* Mutation of RaiseDepth: the depth is set even when it is lower.
SetDepth(b, depth) == Depth' = [Depth EXCEPT ![b] = depth]

RaiseDepth(b, depth) ==
  Depth' = [Depth EXCEPT ![b] = IF @ < depth THEN depth ELSE @]

\* A child that names b its parent from another height than the next one.
WrongChild(b, child) == Parent[child] = b /\ Height[child] # Height[b] + 1

\* slices.Index(child.Side.Uncles, b) is 1, the second place.
SecondUncle(child, b) ==
  LET us == Uncles[child] IN Len(us) >= 2 /\ us[2] = b /\ us[1] # b

\* The new block is at least as deep as the blocks above it ask for; the code asks
\* whether the index of the uncle is not 1 rather than not -1, so nearly any block
\* above counts, not only those built on it.
InitDepth ==
  /\ pc = "initDepth" /\ todo # <<>>
  /\ LET child == Head(todo)
     IN  IF WrongChild(adding, child)
         THEN pc' = "added" /\ todo' = <<>> /\ UNCHANGED Depth
         ELSE /\ todo' = Tail(todo)
              /\ IF Parent[child] = adding \/ ~SecondUncle(child, adding)
                 THEN RaiseDepth(adding, Depth[child] + 1) ELSE UNCHANGED Depth
              /\ UNCHANGED pc
  /\ UNCHANGED <<store, flags, casts, tips, intake, adding, blocksToUpdate, block,
                 blockDepth, returnFromUncles, verifying, pruning>>

InitDepthDone ==
  /\ pc = "initDepth" /\ todo = <<>>
  /\ blocksToUpdate' = <<adding>>
  /\ pc' = "visit"
  /\ UNCHANGED <<store, flags, casts, tips, intake, adding, todo, block, blockDepth,
                 returnFromUncles, verifying, pruning, Depth>>

\* Take the last block of the work list; verify it when it is sure to get verified.
VisitBlock ==
  /\ pc = "visit" /\ blocksToUpdate # <<>>
  /\ LET b == Top(blocksToUpdate)
     IN  /\ block' = b
         /\ blockDepth' = Depth[b]
         /\ IF b \notin Verified /\ (Depth[b] >= ChainWindowSize * 2 \/ Height[b] = 0)
            THEN /\ pc' = "verify" /\ ret' = "propagate"
                 /\ blocksToVerify' = <<b>> /\ highestBlock' = NoBlock
            ELSE pc' = "propagate" /\ UNCHANGED verifying
  /\ blocksToUpdate' = Rest(blocksToUpdate)
  /\ UNCHANGED <<store, flags, casts, tips, intake, adding, todo, returnFromUncles,
                 pruning, Depth>>

VisitDone ==
  /\ pc = "visit" /\ blocksToUpdate = <<>>
  /\ pc' = "added"
  /\ UNCHANGED <<store, flags, casts, tips, intake, depthLoop, verifying, pruning, Depth>>

Propagate ==
  /\ pc = "propagate"
  /\ todo' = Above(block)
  /\ pc' = "children"
  /\ UNCHANGED <<store, flags, casts, tips, intake, adding, blocksToUpdate, block,
                 blockDepth, returnFromUncles, verifying, pruning, Depth>>

\* Mutation of ChildDepth: a child is taken to be as deep as its parent.
ChildDepthSame(child) == IF Parent[child] = block THEN blockDepth ELSE 0

\* How deep a block above must be, seen from block: one less than it through the
\* parent link, the difference of heights less through an uncle link.
ChildDepth(child) ==
  LET i == Height[child] - Height[block]
  IN  IF Parent[child] = block THEN blockDepth - 1
      ELSE IF block \in Range(Uncles[child]) THEN blockDepth - i
      ELSE 0

PropagateChild ==
  /\ pc = "children" /\ todo # <<>>
  /\ LET child == Head(todo)
     IN  IF WrongChild(block, child)
         THEN pc' = "added" /\ todo' = <<>> /\ UNCHANGED <<Depth, blocksToUpdate>>
         ELSE /\ todo' = Tail(todo)
              /\ RaiseDepth(child, ChildDepth(child))
              /\ blocksToUpdate' = IF Depth[child] < ChildDepth(child)
                                   THEN Append(blocksToUpdate, child) ELSE blocksToUpdate
              /\ UNCHANGED pc
  /\ UNCHANGED <<store, flags, casts, tips, intake, adding, block, blockDepth,
                 returnFromUncles, verifying, pruning>>

\* Mutation of PropagateParent: the parent is raised but not put on the work list.
PropagateParentOnce ==
  /\ pc = "children" /\ todo = <<>>
  /\ pc' = "uncles" /\ todo' = Uncles[block]
  /\ IF GetParent(block) # NoBlock THEN RaiseDepth(GetParent(block), blockDepth + 1)
                                   ELSE UNCHANGED Depth
  /\ UNCHANGED <<store, flags, casts, tips, intake, adding, blocksToUpdate, block, blockDepth,
                 returnFromUncles, verifying, pruning>>

\* A parent at the wrong height ends updateDepths.
PropagateParent ==
  /\ pc = "children" /\ todo = <<>>
  /\ LET parent == GetParent(block)
     IN  IF parent # NoBlock /\ Height[parent] + 1 # Height[block]
         THEN pc' = "added" /\ UNCHANGED <<Depth, blocksToUpdate, todo>>
         ELSE /\ pc' = "uncles"
              /\ todo' = Uncles[block]
              /\ IF parent # NoBlock /\ Depth[parent] < blockDepth + 1
                 THEN /\ RaiseDepth(parent, blockDepth + 1)
                      /\ blocksToUpdate' = Append(blocksToUpdate, parent)
                 ELSE UNCHANGED <<Depth, blocksToUpdate>>
  /\ UNCHANGED <<store, flags, casts, tips, intake, adding, block, blockDepth,
                 returnFromUncles, verifying, pruning>>

\* iteratorUncles stops at the first unknown uncle; one at a wrong height is passed
\* over and remembered.
PropagateUncle ==
  /\ pc = "uncles" /\ todo # <<>>
  /\ LET uncle == Head(todo)
         d == Height[block] - Height[uncle]
     IN  \/ /\ ~HasUncle(block, uncle)
            /\ todo' = <<>>
            /\ UNCHANGED <<Depth, blocksToUpdate, returnFromUncles>>
         \/ /\ HasUncle(block, uncle)
            /\ todo' = Tail(todo)
            /\ IF d < 1 \/ d > UncleBlockDepth
               THEN returnFromUncles' = TRUE /\ UNCHANGED <<Depth, blocksToUpdate>>
               ELSE /\ RaiseDepth(uncle, blockDepth + d)
                    /\ blocksToUpdate' = IF Depth[uncle] < blockDepth + d
                                         THEN Append(blocksToUpdate, uncle)
                                         ELSE blocksToUpdate
                    /\ UNCHANGED returnFromUncles
  /\ UNCHANGED <<store, flags, casts, tips, intake, adding, block, blockDepth, verifying,
                 pruning, pc>>

PropagateDone ==
  /\ pc = "uncles" /\ todo = <<>>
  /\ pc' = IF returnFromUncles THEN "added" ELSE "visit"
  /\ UNCHANGED <<store, flags, casts, tips, intake, depthLoop, verifying, pruning, Depth>>

(***************************************************************************)
(* verifyLoop.                                                             *)
(***************************************************************************)
\* Mutation of PopVerify: a block that is not decided stays on the work list.
PopDecided ==
  blocksToVerify' = IF Top(blocksToVerify) \in Verified THEN Rest(blocksToVerify)
                    ELSE blocksToVerify

PopVerify == blocksToVerify' = Rest(blocksToVerify)

SkipVerified ==
  /\ pc = "verify" /\ blocksToVerify # <<>>
  /\ Top(blocksToVerify) \in Verified
  /\ PopVerify
  /\ UNCHANGED <<store, flags, casts, tips, intake, depthLoop, highestBlock, ret, pruning,
                 Depth, pc>>

\* Mutation of Verifying: a block that has its verdict is verified again.
VerifyingAgain(b, verdict) ==
  /\ pc = "verify" /\ blocksToVerify # <<>> /\ b = Top(blocksToVerify)
  /\ \E mainDifficulty \in MainDifficultyAnswers : VerifyBlock(b, mainDifficulty) = verdict

\* What verifyBlock says of the block on top of the work list.
Verifying(b, verdict) ==
  /\ pc = "verify" /\ blocksToVerify # <<>>
  /\ b = Top(blocksToVerify) /\ b \notin Verified
  /\ \E mainDifficulty \in MainDifficultyAnswers : VerifyBlock(b, mainDifficulty) = verdict

VerifyPending(b) ==
  /\ Verifying(b, "pending")
  /\ PopVerify
  /\ UNCHANGED <<store, flags, casts, tips, intake, depthLoop, highestBlock, ret, pruning,
                 Depth, pc>>

VerifyInvalid(b) ==
  /\ Verifying(b, "invalid")
  /\ Invalid' = Invalid \cup {b}
  /\ Verified' = Verified \cup {b}
  /\ PopVerify
  /\ UNCHANGED <<store, iterationCache, skipped, casts, tips, intake, depthLoop,
                 highestBlock, ret, pruning, Depth, pc>>

\* The parent and every uncle are there, so the block keeps pointers to them.
FillsCache(b) ==
  /\ Parent[b] \in blocksByTemplateId
  /\ \A i \in DOMAIN Uncles[b] : Uncles[b][i] \in blocksByTemplateId

\* Mutation of BroadcastVerified: the block is not marked as sent.
BroadcastUnmarked(b) ==
  /\ sent' = IF b \in WantBroadcast THEN [sent EXCEPT ![b] = @ + 1] ELSE sent
  /\ UNCHANGED Broadcasted

\* A deep block is marked as sent but is not sent.
BroadcastVerified(b) ==
  IF b \in WantBroadcast \ Broadcasted
  THEN /\ Broadcasted' = Broadcasted \cup {b}
       /\ sent' = IF Depth[b] < UncleBlockDepth THEN [sent EXCEPT ![b] = @ + 1] ELSE sent
  ELSE UNCHANGED <<Broadcasted, sent>>

\* Then the blocks on top of it are tried.
VerifyOk(b) ==
  /\ Verifying(b, "ok")
  /\ Verified' = Verified \cup {b}
  /\ skipped' = IF Height[b] # 0 /\ DeepBlock(b) THEN skipped \cup {b} ELSE skipped
  /\ iterationCache' = IF FillsCache(b) THEN iterationCache \cup {b} ELSE iterationCache
  /\ highestBlock' = IF IsLongerChain(highestBlock, b) THEN b ELSE highestBlock
  /\ BroadcastVerified(b)
  /\ blocksToVerify' = Rest(blocksToVerify) \o Above(b)
  /\ UNCHANGED <<store, Invalid, WantBroadcast, tips, intake, depthLoop, ret, pruning,
                 Depth, pc>>

VerifyDone ==
  /\ pc = "verify" /\ blocksToVerify = <<>>
  /\ pc' = IF highestBlock # NoBlock THEN "tip" ELSE ret
  /\ UNCHANGED <<store, flags, casts, tips, intake, depthLoop, verifying, pruning, Depth>>

(***************************************************************************)
(* updateChainTip(highestBlock).                                           *)
(***************************************************************************)
\* Mutation of PruneDistance: only what is under one window is kept.
PruneDistanceShort == ChainWindowSize - 1

PruneDistance == ChainWindowSize * 2 + PruneSpare

\* Mutation of TipIgnored: only a block with nothing above it may become the tip.
TipIgnoredUnder(b) == b \notin Verified \/ b \in Invalid \/ Depth[b] > 0 \/ b = chainTip

\* Early returns: not valid, too deep, or the tip already.
TipIgnored(b) ==
  \/ b \notin Verified \/ b \in Invalid
  \/ Depth[b] >= ChainWindowSize
  \/ b = chainTip

IgnoreTip ==
  /\ pc = "tip" /\ TipIgnored(highestBlock)
  /\ pc' = ret
  /\ UNCHANGED <<store, flags, casts, tips, intake, depthLoop, verifying, pruning, Depth>>

\* getDifficulty(b) is not zero.
NextDifficultyKnown(b) == WindowComplete(b) /\ NextDifficulty[b] # 0

AdoptTip ==
  /\ pc = "tip" /\ ~TipIgnored(highestBlock)
  /\ IsLongerChain(chainTip, highestBlock) /\ NextDifficultyKnown(highestBlock)
  /\ chainTip' = highestBlock
  /\ syncTip' = highestBlock
  /\ currentDifficulty' = NextDifficulty[highestBlock]
  /\ WantBroadcast' = WantBroadcast \cup {highestBlock}
  /\ precalcFinished' = (precalcFinished \/ IsAlternative(chainTip, highestBlock))
  /\ IF Height[highestBlock] >= PruneDistance
     THEN /\ pc' = "prune"
          /\ pruneFrom' = 0 /\ pruneSkip' = 0 /\ numBlocksPruned' = 0
          /\ UNCHANGED <<pruneKey, pruneIndex>>
     ELSE pc' = "broadcast" /\ UNCHANGED pruning
  /\ UNCHANGED <<store, flags, Broadcasted, sent, intake, depthLoop, verifying, Depth>>

KeepTip ==
  /\ pc = "tip" /\ ~TipIgnored(highestBlock)
  /\ ~(IsLongerChain(chainTip, highestBlock) /\ NextDifficultyKnown(highestBlock))
  /\ pc' = "broadcast"
  /\ UNCHANGED <<store, flags, casts, tips, intake, depthLoop, verifying, pruning, Depth>>

BroadcastTip ==
  /\ pc = "broadcast"
  /\ IF highestBlock \in WantBroadcast \ Broadcasted
     THEN /\ Broadcasted' = Broadcasted \cup {highestBlock}
          /\ sent' = [sent EXCEPT ![highestBlock] = @ + 1]
     ELSE UNCHANGED <<Broadcasted, sent>>
  /\ pc' = ret
  /\ UNCHANGED <<store, flags, WantBroadcast, tips, intake, depthLoop, verifying, pruning,
                 Depth>>

(***************************************************************************)
(* pruneOldBlocks.  The loop ranges over the slice of keys while it        *)
(* deletes from it: when the current key goes, the next one moves into its *)
(* place and is passed over.                                               *)
(***************************************************************************)
KeysBelow(k) == {j \in blocksByHeightKeys : pruneFrom <= j /\ j < k}

\* The key the loop comes to next.
NextKey(k) ==
  /\ k \in blocksByHeightKeys /\ k >= pruneFrom
  /\ IF pruneSkip = 1 THEN \E j \in KeysBelow(k) : KeysBelow(k) = {j} ELSE KeysBelow(k) = {}

\* Mutation of PruneTo: a window too many is looked through.
PruneToTip(k) == k <= Height[chainTip] + ChainWindowSize

PruneTo(k) == k <= Height[chainTip] - PruneDistance

PruneHeight(k) ==
  /\ pc = "prune" /\ NextKey(k) /\ PruneTo(k)
  /\ pc' = "pruneHeight"
  /\ pruneKey' = k
  /\ pruneIndex' = Len(blocksByHeight[k])
  /\ UNCHANGED <<store, flags, casts, tips, intake, depthLoop, verifying, pruneFrom,
                 pruneSkip, numBlocksPruned, Depth>>

\* One round of the loop over the blocks at a height, from the last to the first.
PruneBlock ==
  /\ pc = "pruneHeight" /\ pruneIndex > 0
  /\ LET list == blocksByHeight[pruneKey]
         b == list[pruneIndex]
     IN  IF Depth[b] >= PruneDistance \/ b \in expired
         THEN /\ blocksByTemplateId' = blocksByTemplateId \ {b}
              /\ blocksByHeight' = [blocksByHeight EXCEPT ![pruneKey] =
                                      SubSeq(list, 1, pruneIndex - 1)
                                      \o SubSeq(list, pruneIndex + 1, Len(list))]
              /\ iterationCache' = iterationCache \ {b}
              /\ pruned' = pruned \cup {b}
              /\ numBlocksPruned' = numBlocksPruned + 1
         ELSE UNCHANGED <<blocksByTemplateId, blocksByHeight, iterationCache, pruned,
                          numBlocksPruned>>
  /\ pruneIndex' = pruneIndex - 1
  /\ UNCHANGED <<blocksByHeightKeys, Verified, Invalid, skipped, casts, tips, intake,
                 depthLoop, verifying, pruneFrom, pruneSkip, pruneKey, Depth, pc>>

\* Mutation of PruneHeightDone: the key of an emptied height stays.
PruneHeightKeep ==
  /\ pc = "pruneHeight" /\ pruneIndex = 0
  /\ pruneSkip' = 0 /\ pruneFrom' = pruneKey + 1
  /\ pc' = "prune"
  /\ UNCHANGED <<store, flags, casts, tips, intake, depthLoop, verifying, pruneKey, pruneIndex,
                 numBlocksPruned, Depth>>

PruneHeightDone ==
  /\ pc = "pruneHeight" /\ pruneIndex = 0
  /\ pruneSkip' = IF blocksByHeight[pruneKey] = <<>> THEN 1 ELSE 0
  /\ blocksByHeightKeys' = IF blocksByHeight[pruneKey] = <<>>
                           THEN blocksByHeightKeys \ {pruneKey} ELSE blocksByHeightKeys
  /\ pruneFrom' = pruneKey + 1
  /\ pc' = "prune"
  /\ UNCHANGED <<blocksByTemplateId, blocksByHeight, pruned, flags, casts, tips, intake,
                 depthLoop, verifying, pruneKey, pruneIndex, numBlocksPruned, Depth>>

\* The first key above the limit ends the loop; cleanupSeenBlocks follows when
\* something was pruned.
PruneDone ==
  /\ pc = "prune"
  /\ \E k \in blocksByHeightKeys : NextKey(k) /\ ~PruneTo(k)
  /\ IF numBlocksPruned > 0
     THEN /\ precalcFinished' = TRUE
          /\ seenBlocks' = {id \in seenBlocks : id[1] \in blocksByTemplateId}
     ELSE UNCHANGED <<precalcFinished, seenBlocks>>
  /\ pc' = "broadcast"
  /\ UNCHANGED <<store, flags, casts, chainTip, syncTip, currentDifficulty, inFlight,
                 admitted, expired, watchBlockSidechainId, found, depthLoop, verifying,
                 pruning, Depth>>

(***************************************************************************)
(* The specification.                                                      *)
(***************************************************************************)
UpdateDepths ==
  \/ InitDepth \/ InitDepthDone \/ VisitBlock \/ VisitDone \/ Propagate
  \/ PropagateChild \/ PropagateParent \/ PropagateUncle \/ PropagateDone

VerifyLoop ==
  \/ SkipVerified \/ VerifyDone
  \/ \E b \in Blocks : VerifyPending(b) \/ VerifyInvalid(b) \/ VerifyOk(b)

UpdateChainTip == IgnoreTip \/ AdoptTip \/ KeepTip \/ BroadcastTip

PruneOldBlocks ==
  \/ \E k \in Heights : PruneHeight(k)
  \/ PruneBlock \/ PruneHeightDone \/ PruneDone

\* A step of the goroutine that holds sidechainLock.
LockHolder ==
  AfterDepths \/ UpdateDepths \/ VerifyLoop \/ UpdateChainTip \/ PruneOldBlocks \/ Done

Next ==
  \/ \E b \in Blocks :
       \/ Receive(b) \/ Reject(b) \/ PowError(b) \/ Admit(b)
       \/ AddPoolBlock(b) \/ AddPoolBlockAgain(b)
       \/ Expire(b) \/ WatchMainChainBlock(b)
  \/ LockHolder

\* The goroutine inside AddPoolBlock never waits, so it goes on.
Spec == Init /\ [][Next]_vars /\ WF_vars(LockHolder)
-----------------------------------------------------------------------------
(***************************************************************************)
(* Properties.                                                             *)
(***************************************************************************)
Valid == Verified \ Invalid
EverAdded == blocksByTemplateId \cup pruned

StoreTypes ==
  /\ blocksByTemplateId \subseteq Blocks /\ pruned \subseteq Blocks
  /\ blocksByHeight \in [Heights -> Seq(Blocks)]
  /\ blocksByHeightKeys \subseteq Heights

FlagTypes ==
  /\ Verified \subseteq Blocks /\ Invalid \subseteq Blocks
  /\ iterationCache \subseteq Blocks /\ skipped \subseteq Blocks

CastTypes ==
  /\ WantBroadcast \subseteq Blocks /\ Broadcasted \subseteq Blocks
  /\ sent \in [Blocks -> Nat]

TipTypes ==
  /\ chainTip \in Blocks \cup {NoBlock} /\ syncTip \in Blocks \cup {NoBlock}
  /\ currentDifficulty \in Nat
  /\ precalcFinished \in BOOLEAN

IntakeTypes ==
  /\ seenBlocks \subseteq FullIds /\ inFlight \subseteq FullIds /\ admitted \subseteq FullIds
  /\ expired \subseteq Blocks /\ found \subseteq Blocks
  /\ watchBlockSidechainId \in Blocks \cup {NoBlock}

DepthLoopTypes ==
  /\ adding \in Blocks \cup {NoBlock} /\ block \in Blocks \cup {NoBlock}
  /\ todo \in Seq(Blocks \cup {NoBlock})
  /\ blocksToUpdate \in Seq(Blocks)
  /\ blockDepth \in Nat
  /\ returnFromUncles \in BOOLEAN

VerifyTypes ==
  /\ blocksToVerify \in Seq(Blocks)
  /\ highestBlock \in Blocks \cup {NoBlock}
  /\ ret \in {"propagate", "done"}

PruneTypes ==
  /\ pruneFrom \in Nat /\ pruneKey \in Nat /\ pruneIndex \in Nat
  /\ pruneSkip \in {0, 1} /\ numBlocksPruned \in Nat

\* TypeOK: the types of the fields of SideChain, of the flags of a share and of the local
\* variables of the loops.
TypeOK ==
  /\ StoreTypes /\ FlagTypes /\ CastTypes /\ TipTypes
  /\ IntakeTypes /\ DepthLoopTypes /\ VerifyTypes /\ PruneTypes
  /\ Depth \in [Blocks -> Nat]
  /\ pc \in {"free", "initDepth", "visit", "propagate", "children", "uncles", "added",
             "verify", "tip", "prune", "pruneHeight", "broadcast", "done"}

\* IndexesAgree: blocksByTemplateId, blocksByHeight and blocksByHeightKeys hold the same
\* shares, each once and under its own height (pruneOldBlocks logs "inconsistent"
\* otherwise).
IndexesAgree ==
  /\ \A b \in Blocks : b \in blocksByTemplateId <=> b \in Range(AtHeight(Height[b]))
  /\ \A h \in Heights :
       /\ IsInjective(blocksByHeight[h])
       /\ \A b \in Range(blocksByHeight[h]) : Height[b] = h
       /\ blocksByHeight[h] # <<>> => h \in blocksByHeightKeys
       /\ h \in blocksByHeightKeys /\ pc # "pruneHeight" => blocksByHeight[h] # <<>>

\* WindowKept: the window of shares under the chain tip, from which the next block's
\* payouts are computed, stays stored, verified and valid whatever else AddPoolBlock adds
\* or pruneOldBlocks removes.
WindowKept ==
  chainTip # NoBlock =>
    /\ WindowComplete(chainTip)
    /\ \A k \in 0 .. ChainWindowSize - 1 :
         Ancestor(chainTip, k) # NoBlock
         => Ancestor(chainTip, k) \in blocksByTemplateId \cap Valid

\* BroadcastOnce: a share is broadcast at most once, over verifyLoop and updateChainTip,
\* and only when it is verified and valid.
BroadcastOnce ==
  \A b \in Blocks : sent[b] <= 1 /\ (sent[b] = 1 => b \in Valid \cap Broadcasted)

\* ValidParent: a share that verifyBlock passed by its content has a verified, valid
\* parent; only a genesis block and a deep block do without.
ValidParent == \A b \in Valid \ skipped : Height[b] # 0 => Parent[b] \in Valid

\* DepthBound: no share is deeper than the highest share ever added is above it, in the
\* middle of updateDepths too; the deep block rule and pruning rest on it.
DepthBound ==
  \A b \in Blocks : Depth[b] > 0 => \E c \in EverAdded : Height[c] >= Height[b] + Depth[b]

\* VerdictByContent: the verdict does not depend on the order of arrival: verifyBlock
\* never marks a lawful share invalid, and what passes without being lawful passed as a
\* deep block.
VerdictByContent == Invalid \cap Lawful = {} /\ Valid \subseteq Lawful \cup skipped

\* DepthsSettled: when AddPoolBlock returns, the work list of updateDepths has reached
\* every share: a parent is deeper than each stored share built on it.
DepthsSettled ==
  pc = "free" =>
    \A c \in blocksByTemplateId :
      Parent[c] \in blocksByTemplateId => Depth[Parent[c]] >= Depth[c] + 1

BuiltOn(b) == {c \in EverAdded : Parent[c] = b \/ b \in Range(Uncles[c])}

\* DeepMeansBuiltUpon: "having so many blocks on top of this one means it was verified
\* by the network at some point" (verifyBlock): a share accepted by the deep block rule
\* has at least one share built on it.
DeepMeansBuiltUpon == \A b \in skipped : BuiltOn(b) # {}

\* NothingOverlooked: when AddPoolBlock returns, no share that would pass now is left
\* unverified: verifyLoop has retried everything the new share made verifiable.
NothingOverlooked ==
  pc = "free" => \A b \in blocksByTemplateId \ Verified : VerifyBlock(b, TRUE) # "ok"

\* TipIsBest: when AddPoolBlock returns, in whatever order the shares came, no stored
\* valid share that updateChainTip could take has more cumulative difficulty on the
\* chain of the tip.
TipIsBest ==
  pc = "free" =>
    \A b \in blocksByTemplateId \cap Valid :
      Depth[b] < ChainWindowSize /\ NextDifficultyKnown(b)
      => /\ chainTip # NoBlock
         /\ CommonAncestor(chainTip, b)
            => CumulativeDifficulty[b] <= CumulativeDifficulty[chainTip]

\* PruneStopsAtLiveKey: the loop of pruneOldBlocks always finds a key above its limit before
\* it runs into the tail of the slice that its own deletions have zeroed.
PruneStopsAtLiveKey == pc = "prune" => \E k \in blocksByHeightKeys : NextKey(k)

\* No share that was verified is above the tip.
TipIsHighest == chainTip # NoBlock /\ \A t \in Valid : Height[t] <= Height[chainTip]

\* PrunedStaysOut: cleanupSeenBlocks forgets the pruned shares, and from then on only the early
\* exit of BlockSeen turns them away, by a limit of its own.  It does so for every share that
\* pruneOldBlocks removed, now or under an earlier tip, as long as the tip is the highest
\* share and the pruned one has less difficulty (sidechain.go:226-233, 954-1018).
PrunedStaysOut ==
  TipIsHighest =>
    \A b \in pruned :
      CumulativeDifficulty[b] < CumulativeDifficulty[chainTip]
      => \A nonce \in Nonces : BlockSeen(b, nonce)

\* VerdictIsFinal: a share that was verified keeps its verdict, and the chain tip never
\* falls back to none.
VerdictIsFinal ==
  [][/\ Verified \subseteq Verified'
     /\ Invalid' \cap Verified = Invalid
     /\ chainTip # NoBlock => chainTip' # NoBlock]_vars

\* LoopsTerminate: the work lists of updateDepths and verifyLoop, which grow while they
\* are worked off, run empty, and AddPoolBlock gives the lock back.
LoopsTerminate == pc # "free" ~> pc = "free"
====
