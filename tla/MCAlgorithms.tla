---------------------------- MODULE MCAlgorithms -----------------------------
(***************************************************************************)
(* The computations of the node, each on small inputs: the selection of    *)
(* the k-th element (module NthElement), the next difficulty, payouts,     *)
(* difficulties of two words, tree hashes, the choice of transactions and  *)
(* template ids.  A behaviour is one computation, named by "part"; the     *)
(* variables of the others keep a value without meaning.                   *)
(***************************************************************************)
EXTENDS NthElement, Sequences, FiniteSetsExt, SequencesExt

CONSTANTS Zero, x, id1, id2

VARIABLES
    part,
    data, next,
    chain, limit, reward, seeds, entries, slots, shares, outputs,
    d, v, hash, result,
    count, tree, width, node, mainBranch, rootHash,
    m, taken, m2, finalReward, finalFees, finalWeight, panicked,
    hashed

-----------------------------------------------------------------------------
\* Up to four entries in any order, with works whose scaling overflows, and chains of
\* 12 or 21 blocks, two of which have a timestamp of their own.
AnyWindows ==
    UNION {[1..n -> [timestamp : {0, 1, 3, 9}, cumulative : {0, 4, 30000}]] : n \in 1..4}
    \cup {[j \in 1..n |-> [timestamp |-> IF j = p THEN t ELSE IF j = q THEN 2 ELSE (n - j) \div 2,
                           cumulative |-> 2 * (n - j)]] :
            n \in {12, 21}, p \in 1..12, q \in 1..12, t \in {0, 5, 11}}

\* Chains of up to 25 blocks of equal difficulty at equal distances, from the tip down.
RegularWindows ==
    {[j \in 1..n |-> [timestamp |-> gap * (n - j), cumulative |-> each * (n - j + 1)]] :
        n \in 1..25, gap \in 1..6, each \in {2, 3, 7}}

R == INSTANCE Retarget WITH
    Windows <- AnyWindows \cup RegularWindows, TargetBlockTime <- 3, MinimumDifficulty <- 3,
    Word <- 256

-----------------------------------------------------------------------------
\* The uncle of the block at height h; "of" tells it from the uncles of other blocks.
Uncle(h, age, diff) ==
    [height |-> h - age, difficulty |-> diff, miner |-> 3, uncles |-> <<>>, of |-> h]

UncleLists(h) ==
    {<<>>} \cup {<<Uncle(h, a, diff)>> : a \in {y \in 1..2 : y <= h}, diff \in {5, 9}}

BlocksAt(h) ==
    [height : {h}, difficulty : {3, 8}, miner : {(h % 2) + 1}, uncles : UncleLists(h),
     unknownUncle : {FALSE}]
    \cup [height : {h}, difficulty : {3}, miner : {(h % 2) + 1}, uncles : {<<>>}, unknownUncle : {TRUE}]

UncleChains ==
    {<<b>> : b \in BlocksAt(1)} \cup {<<b, c>> : b \in BlocksAt(1), c \in BlocksAt(0)}
    \cup {<<b, c, e>> : b \in BlocksAt(3), c \in BlocksAt(2), e \in BlocksAt(1)}

\* Blocks of three miners in a row.
TrioChains ==
    {<<[height |-> 2, difficulty |-> a, miner |-> 2, uncles |-> <<>>, unknownUncle |-> FALSE],
       [height |-> 1, difficulty |-> b, miner |-> 3, uncles |-> <<>>, unknownUncle |-> FALSE],
       [height |-> 0, difficulty |-> c, miner |-> 1, uncles |-> <<>>, unknownUncle |-> FALSE]>> :
        a \in {1, 4}, b \in {2, 7}, c \in {3, 12}}

\* Chains with uncles, one reward; and three miners, every reward of a word of four bits.
P == INSTANCE Payouts WITH
    Chains <- UncleChains, Limits <- {0, 15, 100}, Rewards <- {7},
    ChainWindowSize <- 3, UnclePenalty <- 20, Word <- 16

Q == INSTANCE Payouts WITH
    Chains <- TrioChains, Limits <- {8, 100}, Rewards <- 0..15,
    ChainWindowSize <- 3, UnclePenalty <- 20, Word <- 16

-----------------------------------------------------------------------------
\* Bytes of one bit: words of two, difficulties of four and hashes of eight bits.
D == INSTANCE Difficulty WITH Base <- 2

ASSUME D!BaseAssumption

\* Up to 17 transactions, one more than a power of two.
M == INSTANCE Merkle WITH Leaves <- [n \in 1..17 |-> <<n>>], i <- node

T == INSTANCE MempoolPick WITH
    i <- taken, N <- 3, MaxFee <- 5, MaxWeight <- 5, baseReward <- 9, minerTxWeight <- 1, medianWeight <- 3

I == INSTANCE TemplateId WITH
    TxIds <- {x}, MaxTxs <- 2, Nonces <- {1, 2}, Extras <- {<<7, 8>>, <<6, 8>>, <<7, 9>>, <<7>>},
    Ids <- {id1, id2}, MaxShares <- 2

-----------------------------------------------------------------------------
Parts ==
    {"select", "retarget", "window", "rewards", "difficulty", "merkle", "pick", "template"}

AllInit ==
    /\ part \in Parts
    /\ IF part = "select" THEN Init
       ELSE /\ given = <<>> /\ s = <<>> /\ k = 0 /\ left = 0 /\ right = 0
            /\ i = 0 /\ storeIndex = 0 /\ pc = "idle"
    /\ IF part = "retarget" THEN R!Init ELSE data = <<>> /\ next = 0
    /\ IF part = "window" THEN P!Init ELSE IF part = "rewards" THEN Q!Init
       ELSE /\ chain = <<>> /\ limit = 0 /\ reward = 0 /\ seeds = <<>>
            /\ entries = <<>> /\ slots = <<>> /\ shares = <<>> /\ outputs = <<>>
    /\ IF part = "difficulty" THEN D!Init ELSE d = <<>> /\ v = <<>> /\ hash = 0 /\ result = <<>>
    /\ IF part = "merkle" THEN M!Init
       ELSE count = 0 /\ tree = <<>> /\ width = 0 /\ node = 0 /\ mainBranch = <<>> /\ rootHash = <<>>
    /\ IF part = "pick" THEN T!Init
       ELSE /\ m = <<>> /\ taken = 0 /\ m2 = <<>> /\ panicked = FALSE
            /\ finalReward = 0 /\ finalFees = 0 /\ finalWeight = 0
    /\ hashed = {}

retarget == <<data, next>>
payouts == <<chain, limit, reward, seeds, entries, slots, shares, outputs>>
difficulty == <<d, v, hash, result>>
merkle == <<count, tree, width, node, mainBranch, rootHash>>
pick == <<m, taken, m2, finalReward, finalFees, finalWeight, panicked>>
allVars == <<part, vars, retarget, payouts, difficulty, merkle, pick, hashed>>

AllNext ==
    /\ UNCHANGED part
    /\ IF part = "select" THEN Next ELSE UNCHANGED vars
    /\ IF part = "retarget" THEN R!Next ELSE UNCHANGED retarget
    /\ IF part = "window" THEN P!Next ELSE IF part = "rewards" THEN Q!Next ELSE UNCHANGED payouts
    /\ IF part = "difficulty" THEN D!Next ELSE UNCHANGED difficulty
    /\ IF part = "merkle" THEN M!Next ELSE UNCHANGED merkle
    /\ IF part = "pick" THEN T!Next ELSE UNCHANGED pick
    /\ IF part = "template" THEN I!Next ELSE UNCHANGED hashed

AllSpec == AllInit /\ [][AllNext]_allVars /\ WF_vars(Next)

-----------------------------------------------------------------------------
(* What the modules promise, each on the part it is about.  Selected of    *)
(* NthElement needs no restriction: its pc is "idle" elsewhere.            *)

\* NthElementSlice returns, whatever the elements and however many are equal, and the slice then
\* holds what it was passed with (Permuted) (nthelement.go:11-42).
SelectionReturns == <>(part = "select" => pc = "done" /\ Permuted)

\* Retarget!IsTheRate: NextDifficulty is the work over the time that are left after the cut
\* (utils.go:397-464).
IsTheRate == part = "retarget" => R!IsTheRate

\* The PPLNS window is the same for every node that walks it, whichever of the two walks it
\* takes (WindowsAgree); all of its weight is given to miners, once (WeightIsKept); only its last
\* block passes the limit (LimitIsPassedOnce); and each miner gets one share with all of it
\* (OneShareEach) (utils.go:82-294).  SplitReward pays the reward in full and in proportion
\* (RewardIsPaid, utils.go:470-503).
PayoutsAreShared ==
    /\ part = "window" => P!WindowsAgree /\ P!WeightIsKept /\ P!LimitIsPassedOnce /\ P!OneShareEach
    /\ part = "rewards" => Q!RewardIsPaid

\* Difficulties of two words behave as numbers: the operations (IsArithmetic), the check of a
\* hash (PoWIsChecked), the target miners are given (TargetMissesNothing) and the way through
\* JSON (JSONRoundTrip) (types/difficulty.go).
DifficultyIsNumber ==
    part = "difficulty" =>
        D!IsArithmetic /\ D!PoWIsChecked /\ D!TargetMissesNothing /\ D!JSONRoundTrip

\* Hashes stand for what is hashed: the tree hash computed in place is that of the tree
\* (RootIsTree), the branch of the first leaf leads to it (BranchProves), and each template has
\* one id, whatever the miner changes in it (OneIdPerTemplate)
\* (crypto/merkle.go, consensus.go:195-207).
HashesIdentify ==
    /\ part = "merkle" => M!RootIsTree /\ M!BranchProves
    /\ part = "template" => I!OneIdPerTemplate

\* MempoolPick!TotalsMatch: the running fees and weight are those of the transactions taken
\* (mempool.go:50-101).
TotalsMatch == part = "pick" => T!TotalsMatch
====
