# p2pool-observer in TLA+

A model of the P2Pool node in this repository: what it keeps, what its
goroutines do to it, which properties that keeps. `PROJECT.json` maps every
definition to the lines it models, and lists the hazards, runs and mutations.

## The system

P2Pool is a peer-to-peer mining pool. Miners publish *shares*, which are Monero
block templates with extra data (`PoolBlock`), and the shares form a chain with
uncles. A Monero block found by the pool pays everyone who has shares in the
*PPLNS window*, the last `ChainWindowSize` shares under the tip. Every node must
reach the same verdict about every share, or the payouts disagree.

| Part | What is hard about it | Modules |
|---|---|---|
| Share chain, `p2pool/sidechain/sidechain.go` | any order of arrival, work lists that grow while worked off, pruning, a seen set outside the lock | `SideChain`, `PossibleUncles`, `MissingBlocks` |
| Chain walks, `sidechain/utils.go`, `share.go` | rounding, wrapping arithmetic, incomplete chains | `Payouts`, `Retarget`, `SideChain` |
| Shares, `sidechain/poolblock.go`, `sidedata.go`, `hardfork.go`, `consensus.go`, `monero/block`, `monero/transaction` | three encodings, completed from shares that may themselves be incomplete | `ShareCodec`, `ShareTransfer`, `Forks`, `TemplateId` |
| P2P client, `p2pool/p2p/client.go`, `challenge.go` | answers matched by order only, a bound checked before a channel send, crossing handshakes | `BlockRequests`, `Handshake`, `PeerExchange`, `Protocol` |
| P2P server, `p2pool/p2p/server.go` | list copied and written back, counters on error paths, one goroutine per broadcast | `Connections`, `Broadcast`, `BlockRequests` |
| Main chain, `p2pool/mainchain` | reorganisations, lost messages, late headers, records shared by pointer | `MainChain` |
| Mempool, `p2pool/mempool` | running totals, an array shared along a recursion | `MempoolPick`, `PerfectSum` |
| Disk cache, `p2pool/cache/legacy` | crash between two writes | `LegacyCache` |
| RandomX, `monero/randomx` | lock given up between lookup and initialisation | `HasherCollection` |
| Utilities, `utils`, `types`, `monero/crypto` | goroutines on one counter, boundaries | `SplitWork` and `Work`, `CircularBuffer` and `Recent`, `NthElement`, `Difficulty`, `Merkle` |

They meet in `AddPoolBlock`: the client's handlers bring shares in, `MainChain`
answers for difficulties and asks for found blocks, the server is told to
broadcast, the disk cache stores the share. Compositions in the model:
`Broadcast` joins the server's broadcast with the handlers of several nodes and a
share chain reduced to the set of shares it has; `MissingBlocks` joins
`GetMissingBlocks` with the download loop; `MainChain` has the watch of the share
chain; `PossibleUncles` extends `SideChain` with the miner's view of it;
`ShareTransfer` has the sender, the wire and the receiver.

## Modules

`Work` and `Recent` are abstract specifications: what `utils.SplitWork` and
`utils.CircularBuffer` promise. `SplitWork` and `CircularBuffer` are shown to
implement them. The modules named `*Proofs`, `SideChainStore` and
`SideChainDepths` hold proofs; those named `MC...` instantiate the others for
TLC.

### The share chain: SideChain and the code

`sidechainLock` is held by one goroutine through all of `AddPoolBlock`. Its body
is loops over work lists, and one iteration is one step; `pc` names the place:

| `pc` | Place in `sidechain.go` | Actions |
|---|---|---|
| `free` | nobody holds the write lock | `Receive`, `Reject`, `PowError`, `Admit`, `AddPoolBlock`, `AddPoolBlockAgain`, `WatchMainChainBlock` |
| `initDepth` | `updateDepths`, first loop | `InitDepth`, `InitDepthDone` |
| `visit` | `updateDepths`, work list | `VisitBlock`, `VisitDone` |
| `propagate`, `children`, `uncles` | one block of that list | `Propagate`, `PropagateChild`, `PropagateParent`, `PropagateUncle`, `PropagateDone` |
| `added` | back in `AddPoolBlock` | `AfterDepths` |
| `verify` | `verifyLoop` | `SkipVerified`, `VerifyPending`, `VerifyInvalid`, `VerifyOk`, `VerifyDone` |
| `tip`, `broadcast` | `updateChainTip` | `IgnoreTip`, `AdoptTip`, `KeepTip`, `BroadcastTip` |
| `prune`, `pruneHeight` | `pruneOldBlocks` | `PruneHeight`, `PruneBlock`, `PruneHeightDone`, `PruneDone` |
| `done` | the deferred function and the unlock | `Done` |

`verifyLoop` is called from `AddPoolBlock` and from inside `updateDepths`; `ret`
is where it returns to. The fields of `SideChain` and of the shares keep their
names; flags of a share are sets of shares. `inFlight` and `admitted` hold the
calls of `AddPoolBlockExternal` that passed `BlockSeen` and the checks. `Expire`
stands for the clock passing `pruneDelay`. `pruned`, `skipped`, `sent` and
`found` are history.

### The other modules and the code

| Module | A step is | Goroutines |
|---|---|---|
| `BlockRequests` | one message handled, one check of the bound, one send to the channel, one write to the connection: the code holds no lock from the check to the write | the reader of each client, the download loop, peers that answer in order |
| `Handshake` | one message read, with all it sends; a dial, an accept, a read error, a timeout | both ends of each connection, the dialling calls, the accept loops |
| `Connections` | one phase of `UpdateClientConnections`, one phase of a dial, one accept, close, ban or learned address | the update loop, the dials, the accept loop, the readers |
| `PeerExchange` | a whole handler of a request or response, for every outcome of the random draws | |
| `Broadcast` | a share found, one message sent, one message handled, one round of `DownloadMissingBlocks` | nodes in a line; every broadcast is a goroutine, so messages may overtake |
| `MissingBlocks` | one round of `DownloadMissingBlocks`, one answer | the loop, the peers |
| `ShareTransfer` | encoding and sending, reading, completing | |
| `MainChain` | one message of monerod handled, or the part of `HandleMainBlock` before and after the locks; one header fetched | the reader of messages, the header downloads, the share chain |
| `LegacyCache` | one check of `loadingInProgress`, one index taken, one write to the file, one read; a crash, a restart | the savers, the loader |
| `HasherCollection` | a locked section of `Hash`, a hash, an option | the callers |
| `SplitWork` | one goroutine started, one item taken, one item done | the caller, the workers |
| `PerfectSum` | one call or return of the recursion | the search, the consumer |
| `CircularBuffer` | one locked operation | |
| `NthElement`, `Merkle`, `MempoolPick` | one iteration of a loop | |
| `Retarget`, `Payouts`, `Difficulty`, `TemplateId` | one call, on every input of a set | |

### What is abstracted

- In `SideChain` a share is its template id. Its content is given by constants
  (`Height`, `Parent`, `Uncles`, the difficulties), and what needs hashing or
  curves by sets: `WrongSeed`, `WrongOutputs`. On the way in, copies with
  different nonces are told apart by full id, as in `seenBlocks`; after that
  there is one object per id. A copy that arrives after the first was pruned is
  dropped, where the code would make a new object.
- Checks of the share alone in `AddPoolBlockExternal` (template id, keys, main
  height, sufficient proof of work) are left out: what fails is no share.
  `PowError` is the one such failure that is retried. The branch for an
  alternate nonce (lines 308-349) is never entered, as `oldMainId` at line 306
  is read from the new block itself. Tip and difficulty are read at one instant.
- The window of `SideChain` has a fixed number of blocks, as in share version 1;
  `Payouts` has the weight limit of version 2. `NextDifficulty` is a constant
  there that depends on the share under which the window ends; `Retarget`
  computes it.
- For `SideChain`, `MainChain` is two choices: `GetDifficultyByHeight` may have
  no answer (`MainDifficultyAnswers`), and a share may be watched for
  (`WatchIds`). No run has two chains without a common ancestor, so that branch
  of `IsLongerChain` is modelled but not exercised.
- `blocksByHeightKeys` is a set, as the code sorts the slice before use; the
  effect of deleting while ranging over it, that the next key is passed over, is
  `pruneSkip`.
- In `BlockRequests` peers follow the protocol; a share that arrives with all it
  refers to is accepted. `Connections` counts connections by address and
  direction. `Handshake` takes a node for its address and its peer id.
- In `ShareCodec` a byte string is a sequence of fields: hashes, keys and numbers
  are one element each, tags and lengths are kept, so that the order, presence
  and counts of fields are what the code writes and reads. A parent stored in
  compact form, which `ShareTransfer` includes, arises in this source tree only
  through another caller of the exported `PreProcessBlock`.
- `Difficulty` has bytes of one bit and keeps the number of bytes in a word, and
  `Payouts` and `Retarget` have words of 4 and 8 bits, so that every carry, wrap
  and cut occurs. A hash in `Merkle` and `TemplateId` is the thing hashed.
- A `WriteAt` in `LegacyCache` is done or not done. Log lines are left out.

## Runs

### The share chain

`tlc -config X.cfg MCSideChain`. The window has 2 shares, so a share is deep
above depth 5 and pruning starts at height 5; all heights in between occur.

| Run | Graph | Question |
|---|---|---|
| `Fork` | six shares, an uncle, a competing tip; one wrong seed; two broadcasts | does the order of arrival matter? `VerdictByContent`, `NothingOverlooked`, `TipIsBest`, `BroadcastOnce`, `TypeOK`; does the miner get uncles that verify? `OffersWhatVerifies` |
| `Prune` | seven shares and one that expires | does pruning keep what is needed? `IndexesAgree`, `WindowKept`, `DepthsSettled`, `PruneStopsAtLiveKey`, `PrunedStaysOut` |
| `Crowd` | `Fork` without the competing tip; one peer holds the lock while another delivers | do the loops end? `LoopsTerminate`, `DepthBound` |
| `Bad` | three good shares, five that break a rule; one is watched for | are exactly the bad ones refused? `VerdictByContent`, `ValidParent` |
| `Rising` | difficulty 1 to 3; a late share in two copies; two peers; failing lookups | is a verdict final? `VerdictIsFinal`, `TipIsBest` |
| `DeepOrphan` | upper part of a chain and a share nobody built on | violated: `DeepMeansBuiltUpon` |
| `DeepUncle` | the same with an uncle | violated: `VerdictByContent` |

Bounds: 6 to 11 shares, each served in one copy (a second one in `Rising`), one
or two deliveries (`Receivers`) besides the share whose handler holds the lock.
With `Concurrent = FALSE` shares come in every order, but only while the lock is
free; with `Concurrent = TRUE` (`Crowd`, `Rising`) they also come while it is held,
which matters for the seen set and the tip read by `BlockSeen`. `Crowd` checks
liveness, which costs TLC far more per state than an invariant, so it has one
delivery waiting for the lock; `Rising` has two. No symmetry: shares
have different places in the graph. Deadlock is checked: with the lock
free a share can be received, or the ones on their way go on, so only a loop that
is stuck under the lock shows as a deadlock.

### The other parts

Four runs check a group of modules each. A behaviour of such a run is about one
*part*, which the variable `part` names from the first state on; the variables of
the other modules do not change. Nothing passes between parts: this is a
collection of separate state spaces, not a composition. A property of the run
joins the properties of a module, each restricted to the part it is about, and
its comment names them. They may stop when the work of the part is done, so
deadlock is not checked; that nothing stops too early is said by the liveness
properties.

| Run | Part | Instance | Properties |
|---|---|---|---|
| `Algorithms` | `select` | slices of 5 elements of 3 values, every index | `Selected`, `SelectionReturns` |
| | `retarget` | windows of 1 to 4 entries in any order, chains of up to 25 | `IsTheRate` |
| | `window`, `rewards` | chains of up to 3 blocks with known and unknown uncles, two limits or no known difficulty; three miners and every reward of 4 bits | `PayoutsAreShared` |
| | `difficulty` | all pairs of four bits, all hashes of eight | `DifficultyIsNumber` |
| | `merkle`, `template` | up to 17 leaves; templates with up to two transactions | `HashesIdentify` |
| | `pick` | three transactions, fees and weights up to 5 | `TotalsMatch` |
| `Stores` | `work` | 4 items, 3 goroutines, failures | `DoesTheWork`, `WorkCompletes` |
| | `long`, `branch`, `gaps`, `stale` | Monero chains through three seed epochs; with a reorganisation; with lost messages; with both and failing requests | `MainChainIsKnown`, `WorkCompletes` |
| | `cache` | three slots, two savers, three stores, one crash | `CacheSurvives` |
| | `hasher` | two callers, three seeds, one to three states | `HashIsOfKey` |
| | `ring` | four entries, an index that wraps at eight | `RemembersRecent` |
| | `sums` | up to four transactions | `SelectionsArrive` |
| `Peers` | `connections`, `alone` | two addresses at the limits; a node nobody dials | `ConnectionsAreCounted`, `DialsAreSafe`, `NodesConnect` |
| | `cross`, `strangers` | two nodes that dial each other; another pool and the node itself | `DialsAreSafe`, `NodesConnect` |
| | `exchange` | up to five clients, lists of up to five addresses, at most three in a response (16 in the code) | `PeersAreTold` |
| `Download` | `bound`, `channel` | two senders at a bound of 1; one at a full channel | `QueueWithinBound`, `EveryAnswerIsExpected`, `RequestsGoThrough` |
| | `chain`, `peers` | four blocks with an uncle from one peer; three from two peers and the download loop; the bounds of the code | `EveryAnswerIsExpected`, `RequestsGoThrough`, `BlocksArrive` |
| | `gossip`, `relay` | three nodes in a line, of versions without notifications; one of them with | `SharesArriveWhole`, `BlocksArrive` |
| | `gaps` | two nodes with notifications, each with a share above one it misses | `SharesArriveWhole`, `BlocksArrive` |
| | `missing` | eight shares, two received, one cached | `BlocksArrive` |
| | `transfer` | a share and its parent on both sides of two forks, all encodings | `SharesArriveWhole` |
| `SwappedRequests` | | two goroutines, two requests (`MCBlockRequests`) | violated: `HonestPeerIsKept` |

Why these bounds: a race here needs two goroutines and one item they both want,
an off-by-one needs a list at, below and above its limit, and the instances have
these. The rings, words and windows are small enough to wrap within a behaviour.

Every property has a mutation of the code that breaks it, defined before the
definition it replaces; a property that joins several has one for nearly each.

### Fairness

- `LockHolder` in `SideChain`, the goroutines of `SplitWork`, the readers,
  senders and dials in `BlockRequests`, `Handshake` and `Connections`: weak
  fairness. A goroutine that can run is run, and the loops wait for nothing but
  what the step's guard says.
- The loops that a ticker wakes (`DownloadMissingBlocks`,
  `UpdateClientConnections`), handling the messages of monerod and fetching
  headers (`MainChain`), the end of a ban: weak fairness.
- Peers that answer requests in `BlockRequests` and `MissingBlocks`, delivery of
  messages in `Broadcast`: weak fairness, the connection is TCP and the peers run
  this code. Where a connection can break, the property allows for it.
- monerod's answer to a node that is left alone: strong fairness of
  `MonerodAnswers`. It is asked again and again; an answer may fail, not always.
- Of peers that dial, send shares or find blocks, nothing is assumed.

## Findings

- `DeepOrphan`: `updateDepths` compares the index of an uncle with 1 where the
  missing index is -1 (line 810). So nearly every share above a new one makes it
  deeper, and a late share nobody built on skips verification as a deep block,
  while the comment at line 580 infers from depth that the network verified it.
- `DeepUncle`: above a parent that passed as a deep block, the walk for an uncle
  may meet a gap, because an ancestor has not arrived. Line 672 takes the gap
  for a different chain and marks a lawful share invalid for good. The tests add
  shares in shuffled order and expect no error (`sidechain_test.go:66-74`).
- `SwappedRequests`: an id is put in the queue and the request is written in two
  steps (`client.go:240-244`). Two goroutines may do one in one order and the
  other in the other, and the peer that answers both correctly is banned.

`PrunedStaysOut` is about what `BlockSeen` answers for a pruned share, under a tip
that no valid share is higher than and for a share with less work than the tip,
the two things `BlockSeen` compares. It says nothing of a second copy that passed
`BlockSeen` before the first was pruned: `AddPoolBlock` stores that one as a new
object, which is listed as a hazard and not modelled.

Places where code and comment were seen to differ while modelling. The modules
follow the code, and the properties leave these cases out:

- `client.go:239`: a request over the bound is dropped, but its hash is already
  marked as requested.
- `client.go:474`: an answer to a request names the parent, the uncles and the
  grandparent, also those its sender misses, and `BroadcastedHashes` takes them
  for blocks the sender has. So a peer with a gap may be sent a share without the
  transactions or outputs it would need the missing parent for. It drops that
  share and asks for the parent; the share itself comes with a later one that is
  built on it. `KnownIsNamed` says what the ring does mean,
  `PartialBlocksAreRestored` that it takes a gap, and `BlocksArrive` in the part
  `gaps` is about the shares below it.
- `client.go:693`: the reservoir sample of peers may hold one twice. Line 715:
  the padding "not connected" is drawn from the whole list. Line 727: the entry
  with the version counts as the IPv6 address that line 733 wants to include.
- `server.go:486`: the download loop writes to clients that are still shaking
  hands, which the other end bans. So `OnlyDisconnectsAreBanned` is about nodes
  that do not download.
- `server.go:549`: the limit of incoming connections is compared with `>`, one
  more is let in (`IncomingOvershootsByOne`).
- `server.go:142`: the ring of pending addresses is shorter than the number of
  dials when the peers of monerod are added, and one may be dialled twice.
- `mainchain.go:344`: the hash of a block replaced by a reorganisation is never
  deleted. So `CleansUp` is checked on chains without one.
- `difficulty.go:344`: a hash whose difficulty needs more than 128 bits is
  refused. `PoWIsChecked` is about the others.
- `legacy.go:37`: opening the file zeroes its last byte, also of an existing one.
- `coinbase.go:86`: `OutputsBlobSize` of outputs that were read is not their
  length.
- `sidechain.go:1046`: the limit of two missing uncles "from each block" ends the
  search in all blocks.
- `mempool.go:67`: a transaction that improves the reward is remembered as
  `k = 1` instead of its index. It is added only when it is the second, so at
  most one is ever taken. For any other, the first one with a fee included, the
  index is out of range of what was taken and `Pick` panics, unless replacing the
  one taken is better still (`panicked` in `MempoolPick`). `TotalsMatch` is about
  the totals up to there. Nothing in this source tree calls `Pick`.

## Proofs

For every value of the constants, under the assumptions named in the modules:

| Module | Theorem | Establishes |
|---|---|---|
| `SideChainProofs` | `TypeCorrect` | `[]TypeOK` |
| | `BroadcastsOnce` | `[]BroadcastOnce` |
| | `ValidParents` | `[]ValidParent` |
| | `DepthsBounded` | `[]DepthBound` |
| | `VerdictsFinal` | `VerdictIsFinal`, an action property |
| | `Invariance` | `[]IInv`, from which the others follow |
| `SideChainStore` | `IndexesStayInStep` | `[]IndexesAgree` |
| | `PruningStops` | `[]PruneStopsAtLiveKey` |
| | `PrunedSharesAreSeen` | `[]PrunedStaysOut` |
| | `OfferedUnclesVerify` | `[]OffersWhatVerifies` |
| | `StoreInvariance` | `[](IInv /\ StoreInv)`, from which the others follow |
| `SideChainDepths` | `DepthsSettle` | `[]DepthsSettled`, for shares whose heights agree |
| | `WindowNeverBreaks` | `[]TipWindowComplete`, the first half of `WindowKept`, for such shares and a window of more than one |
| `BlockRequestsProofs` | `QueueIsBounded` | `[]QueueWithinBound`: the queue passes its bound by less than the number of senders |
| | `SendersDoNotWait` | nobody waits for room if bound and senders fit in the channel, as a bound of 80 and up to 21 senders do in the 100 of the code |
| | `AnswersAreExpected` | `[]EveryAnswerIsExpected`: the queue has an id for each answer to come |
| `HandshakeProofs` | `OneConnectionSurvives` | `[]OneConnectionPerPeer` |
| | `GoodPeersAccepted` | `[]GoodMeansAccepted` |
| | `BansCloseAll` | `BanClosesEveryConnection`, an action property |
| | `QuietPeersStay` | a peer of one's own pool that does not download is never banned for what it sends |
| | `HonestPeersStay` | `[]OnlyDisconnectsAreBanned`, if nobody downloads |
| | `HandshakeTypes` | `[]TypeOK` |
| `ConnectionsProofs` | `ConnectionsStayCounted` | `[]ConnectionsAreCounted` |
| | `IncomingIsBounded` | `[]IncomingOvershootsByOne` |
| | `OneDialWithoutScan` | without the peers of monerod no address is dialled twice at a time |
| `UtilsProofs` | `SelectionIsCorrect` | `[]Selected` |
| | `RingRemembersRecent` | `CircularBuffer` implements `Recent` |
| `StoresProofs` | `WorkIsShared` | `[]IInv`: what the counter has passed was called once or is in the hands of one goroutine |
| | `ImplementsWork` | `DoesTheWork`: `SplitWork` implements `Work`, in which no item is done twice |
| | `SeedsAreAnswered` | `[]HashIsOfKey` of `HasherCollection` |
| | `LoadsWhatWasStored` | `[]LoadedWereStored` of `LegacyCache` |
| | `StoresSurvive` | `[]StoredIsLoadable` |
| | `LoadReadsEverySlot` | `[]EverySlotIsRead` |
| | `CacheInvariance` | `[]IInv` of `LegacyCache`, from which these three follow |

*SideChain*, for any set of shares, also inconsistent ones, any window, and any
number of receivers, under `BlocksAssumption` and `ConsensusAssumption` (types of
the constants; positive window, minimum difficulty and spare). None of the
properties is inductive alone. `IInv` adds:

- *Lists*: the lists by height hold stored shares of that height, the work lists
  hold shares that were added, the iteration cache points to such shares. Without
  it a depth could be raised on a share that never came.
- *Control*: what a loop knows at each `pc`: which share is being added or
  visited, that `highestBlock` is verified and valid when it is broadcast, that
  the index of the pruning loop is inside the list.
- *Block depth*: the local copy `blockDepth` never exceeds `Depth[block]`, from
  which it was read. `DepthBound` needs it, since the copy outlives the read.
- `Invalid \subseteq Verified`, so that a verdict is given once.

`SideChainProofs` proves the types group by group, then which variables a step
can touch (`Effects`), then the lists and the control, then one lemma per safety
invariant. `SideChainStore` adds `StoreInv`: the three indexes hold the same
shares, what is pruned is below a share that stays by the prune distance, and a share that passed by
its content has a valid parent one height below. From the last follows, by a
least counterexample on the height, that the walk of `GetPossibleUncles` and that
of `verifyBlock` see the same ancestors. `SideChainDepths` is about shares that
name their parents and uncles with the right heights (`HeightsAgree`), since
`updateDepths` gives up at others. There a parent is deeper than its child, or
one of the two is still in the work list (`SettledOrAwaited`). That depth is the
reason why pruning leaves the window under the tip alone.

*BlockRequests*, for any finite set of clients and any bounds. The bound on the
queue is not inductive: a sender that has passed the check counts too. The
invariant says that the queue and the senders about to enqueue together stay
within the bound plus the other senders (`Room`), and what shape the tasks of a
sender have (`Shape`). For the answers it says that the queue of a client that is
not banned is as long as its requests under way, its responses under way and the
senders between queue and connection together (`Balanced`), which each step of
either side keeps.

*Handshake*, for any nodes, pools and connections between them
(`HandshakeAssumption`: the ends of an attempt are nodes). The invariant:

- what is under way is true of its sender (`Told`): a challenge has its id, a
  solution its pool and the work it owes, and a port is sent only by an end that
  has accepted the other;
- an end knows of its peer what these messages told it (`KnownAt`), and nothing
  before it is in the list (`FreshAt`).

`OneConnectionPerPeer` is in it as it stands: the peer id is stored before the
lock is taken, so the search of the second reader finds the first. For the bans
`InOrder` says that the messages in a stream follow those read, in the order
challenge, solution, port, request, and how many the other end has sent. It needs
a peer that does not download: `DownloadMissingBlocks` writes to clients that are
still shaking hands. `QuietPeersStay` states it per peer, so other nodes may
download; `HonestPeersStay` is the case where none does.

*Connections*, for any finite set of addresses and any limits: each action
changes one summand of a counter, or the set of dials, and the counter alike
(`CountersExact`). `ConnectionsProofs` first proves what a sum over a finite set
amounts to (`SumWithout`, `SumChanges`). The list that `UpdateClientConnections`
writes back names no address that failed too often, since nothing is dialled
between the copy and the write (`CopyIsFresh`). The accept loop passes its check
only with room (`Room`). For the dials: `UpdateClientConnections` waits for its
goroutines, and without the peers of monerod it starts one per address
(`OneGoroutine`).

*NthElement*: what is left of the range is not greater than what is in it or
right of it, and during a partition the part before `storeIndex` is smaller than
the pivot and the part up to `i` is not.

*CircularBuffer*: the list of the last values is read off the slots from the
index on, modulo the length. The length divides the word of the index
(`SizeAssumption`, as powers of two do), or an index that wraps would jump.

*SplitWork*: the invariant is that of `WorkIsShared`; from it each step maps to a
step of `Work` or leaves its variables alone. The mapping is the identity on
`times`, `finished` and `result`. `times` counts the calls of the callback for each
item, and `Work` has no step from a count of one, so a second call would not be a
step of it. `CallerAssumption` is needed: an error is only recorded
when there is an `errorFunc` (`concurrency.go:43-46`).

*HasherCollection*, for any goroutines, seeds and numbers of states
(`SeedsAssumption`: at least one state, seeds are not outcomes): a state hashes
with the seed it claims or not at all, unless an initialisation to that seed
failed (`StatesKeyed`), and a call has a seed (`CallersKeyed`).

*LegacyCache*, for any number of slots, goroutines, stores and crashes
(`CacheAssumption`: a share has bytes, and none fills a slot to its last byte,
which `NewCache` overwrites; see Findings). The bytes of a share are written at
once and from the start of the slot, so the share a slot starts with is there in
full whatever older one it covers (`Whole`); a length from another share makes it
unreadable, never another. A slot somebody writes to has no owner (`Writing`),
so what an owned slot holds and its length agree (`Owned`). `LoadAll` has reached
as many slots below the index as it has gone through (`Scanned`): a `Store` that
asked whether it runs before it began moves the index, and owns the slot it
took. As many indexes in a row as there are slots meet every slot
(`RowReachesAll`).

Induction over data is out of the provers' reach as a proof rule. Where a proof
needs it (sums, walks down the chain), it takes the least counterexample from
`WellFoundedInduction` instead.

Only model-checked:

- liveness (`LoopsTerminate`, `SelectionReturns`, `WorkCompletes`,
  `NodesConnect`, `BlocksArrive`), which is out of the prover's reach;
- `VerdictByContent`, `TipIsBest`, `NothingOverlooked` and the second half of
  `WindowKept`: they hold of the graphs of their runs and not of all. The run
  `DeepUncle` is an example;
- `MainChainIsKnown`, which depends on the order in which monerod sends its
  messages;
- `RequestsGoThrough` where it says that no honest peer is banned: true of one
  sender only, see `SwappedRequests`;
- that `NthElementSlice` permutes its input;
- the algorithms in `Retarget`, `Payouts`, `Difficulty`, `Merkle`, `TemplateId`,
  `MempoolPick`, `PerfectSum` and `ShareCodec`, which are recursive or checked
  against a recursive definition;
- `PeerExchange`, whose draws are a recursive function, `Broadcast`, and
  `MissingBlocks`, whose one property is liveness.

## Not modelled

- Curve arithmetic, hashing, addresses and signatures, the RPC, ZMQ and HTTP
  clients, JSON of API types, logging: out of TLC's reach or without state of the
  protocol. The conversion of ZMQ messages in `Listen` (`mainchain.go:65-166`) is
  part of this: `MainChain` starts at the handlers it calls, and a message it drops
  is one that was lost. The derivation caches only remember results of pure functions.
- What depends on the clock alone: the timing of peer list requests, the ban for
  a stale tip, `UpdatePeerList`.
- Closing a server, a hasher collection or a cache as a whole.
- `SendMissingBlockRequestAtRandom` and the compressed form in `blobcache.go`,
  which nothing reaches.
- The race of unlocked readers on the iteration cache of a share.
- A write to the cache file torn by a power loss.
- The observer's commands are not in this source tree.
