------------------------------- MODULE Payouts -------------------------------
(***************************************************************************)
(* How a block reward is shared out (p2pool/sidechain/utils.go, share.go): *)
(* the PPLNS window of a block, the weight of every block and uncle in it, *)
(* one share for each miner, their order in the coinbase transaction and   *)
(* the split of the reward.                                                *)
(*                                                                         *)
(* A chain is the sequence of the known blocks from the tip down, each     *)
(* with its known uncles, and whether one of its uncles is not known.  The *)
(* module computes the payouts of one chain in one step, for shares of     *)
(* version 2 and later: version 1 has no limit of weight and no shuffle.   *)
(***************************************************************************)
EXTENDS Integers, Sequences, SequencesExt, FiniteSets, FiniteSetsExt

CONSTANTS
    Chains,            \* the chains whose payouts are computed
    Limits,            \* MaxPPLNSWeight: twice the difficulty of the main chain, or 0 if unknown
    Rewards,           \* TotalReward of the coinbase transaction
    ChainWindowSize,
    UnclePenalty,      \* in percent
    Word               \* the range of uint64; a Difficulty has the range Word * Word

VARIABLES
    chain, limit, reward,   \* the input
    seeds,                  \* the random words of the shuffle
    entries,                \* the calls of addWeightFunc in BlocksInPPLNSWindow, or Missing
    slots,                  \* the slots of IterateBlocksInPPLNSWindow, and its calls
    shares,                 \* GetSharesOrdered
    outputs                 \* the shares in their final order, with their rewards, or Missing

vars == <<chain, limit, reward, seeds, entries, slots, shares, outputs>>

Missing == <<"missing">>
Total(s, f(_)) == MapThenSumSet(LAMBDA i : f(s[i]), DOMAIN s)

-----------------------------------------------------------------------------
\* Consensus.ApplyUnclePenalty.
PenaltyOf(weight) == (weight * UnclePenalty) \div 100

\* Mutant: the penalty goes to nobody.
WithUncleUnpaid(w, tip, max, uncle) ==
    LET weight == uncle.difficulty - PenaltyOf(uncle.difficulty)
    IN  IF tip.height - uncle.height >= ChainWindowSize \/ w.pplns + weight > max THEN w
        ELSE [w EXCEPT !.pplns = @ + weight,
                       !.entries = Append(@, [of |-> uncle, weight |-> weight])]

\* An uncle in the window and under the limit counts, less its penalty, which the
\* block that has it as uncle gets.
WithUncle(w, tip, max, uncle) ==
    LET penalty == PenaltyOf(uncle.difficulty)
        weight == uncle.difficulty - penalty
    IN  IF tip.height - uncle.height >= ChainWindowSize \/ w.pplns + weight > max THEN w
        ELSE [w EXCEPT !.cur = @ + penalty, !.pplns = @ + weight,
                       !.entries = Append(@, [of |-> uncle, weight |-> weight])]

WithBlock(w, tip, max, block) ==
    LET u == FoldLeft(LAMBDA x, y : WithUncle(x, tip, max, y),
                      [w EXCEPT !.cur = block.difficulty], block.uncles)
    IN  [u EXCEPT !.pplns = @ + u.cur, !.depth = @ + 1, !.bottom = block.height,
                  !.entries = Append(@, [of |-> block, weight |-> u.cur])]

\* The loop ends above the limit, at the length of the window and at the genesis.
Ends(w, max, block) == w.pplns > max \/ w.depth >= ChainWindowSize \/ block.height = 0

\* The blocks a walk gets through: none without the difficulty of the main chain, which only
\* the genesis does not need, and none from one on that has an unknown uncle.
Walked(blocks, max) ==
    LET stops == {i \in DOMAIN blocks : blocks[i].unknownUncle} \cup {Len(blocks) + 1}
    IN  IF max = 0 /\ blocks[1].height # 0 THEN <<>> ELSE SubSeq(blocks, 1, Min(stops) - 1)

\* Mutant: the walk goes on to the last block at which it may end.
BlocksInPPLNSWindowLate(chained, max) ==
    LET blocks == Walked(chained, max)
        start == [pplns |-> 0, cur |-> 0, depth |-> 0, bottom |-> 0, entries |-> <<>>]
        after[i \in 0..Len(blocks)] ==
            IF i = 0 THEN start ELSE WithBlock(after[i - 1], blocks[1], max, blocks[i])
        last == {i \in 1..Len(blocks) : Ends(after[i], max, blocks[i])}
    IN  IF last = {} THEN Missing ELSE after[Max(last)].entries

\* Without the end of the loop a parent or an uncle is not there: no window.
BlocksInPPLNSWindow(chained, max) ==
    LET blocks == Walked(chained, max)
        start == [pplns |-> 0, cur |-> 0, depth |-> 0, bottom |-> 0, entries |-> <<>>]
        after[i \in 0..Len(blocks)] ==
            IF i = 0 THEN start ELSE WithBlock(after[i - 1], blocks[1], max, blocks[i])
        last == {i \in 1..Len(blocks) : Ends(after[i], max, blocks[i])}
    IN  IF last = {} THEN Missing ELSE after[Min(last)].entries

-----------------------------------------------------------------------------
(* The same window for other consumers, with all the uncles of each block. *)

SlotUncle(w, tip, max, uncle) ==
    LET penalty == PenaltyOf(uncle.difficulty)
        weight == uncle.difficulty - penalty
        slot == [w EXCEPT !.uncles = Append(@, uncle)]
    IN  IF tip.height - uncle.height >= ChainWindowSize \/ w.pplns + weight > max THEN slot
        ELSE [slot EXCEPT !.cur = @ + penalty, !.pplns = @ + weight,
                          !.entries = Append(@, [of |-> uncle, weight |-> weight])]

\* Mutant: the block counts before its uncles.
SlotBlockFirst(w, tip, max, block) ==
    LET u == FoldLeft(LAMBDA x, y : SlotUncle(x, tip, max, y),
                      [w EXCEPT !.cur = block.difficulty, !.uncles = <<>>,
                                !.pplns = @ + block.difficulty], block.uncles)
    IN  [u EXCEPT !.depth = @ + 1, !.slots = Append(@, [block |-> block, uncles |-> u.uncles]),
                  !.entries = Append(@, [of |-> block, weight |-> u.cur])]

SlotBlock(w, tip, max, block) ==
    LET u == FoldLeft(LAMBDA x, y : SlotUncle(x, tip, max, y),
                      [w EXCEPT !.cur = block.difficulty, !.uncles = <<>>], block.uncles)
    IN  [u EXCEPT !.pplns = @ + u.cur, !.depth = @ + 1,
                  !.slots = Append(@, [block |-> block, uncles |-> u.uncles]),
                  !.entries = Append(@, [of |-> block, weight |-> u.cur])]

\* After an error the slots handed out before it remain.
IterateBlocksInPPLNSWindow(chained, max) ==
    LET blocks == Walked(chained, max)
        start == [pplns |-> 0, cur |-> 0, depth |-> 0, uncles |-> <<>>, entries |-> <<>>,
                  slots |-> <<>>]
        after[i \in 0..Len(blocks)] ==
            IF i = 0 THEN start ELSE SlotBlock(after[i - 1], blocks[1], max, blocks[i])
        last == {i \in 1..Len(blocks) : Ends(after[i], max, blocks[i])}
        end == IF last = {} THEN Len(blocks) ELSE Min(last)
    IN  [complete |-> last # {}, slots |-> after[end].slots,
         entries |-> IF last = {} THEN Missing ELSE after[end].entries]

-----------------------------------------------------------------------------
(* Shares. *)

ShareOf(entry) == [address |-> entry.of.miner, weight |-> entry.weight]

\* Mutant: the weight of the next share replaces the sum.
MergeOver(s, index, share) ==
    IF s[index].address = share.address
    THEN [seq |-> [s EXCEPT ![index].weight = share.weight], index |-> index]
    ELSE [seq |-> [s EXCEPT ![index + 1] = share], index |-> index + 1]

\* Shares.Compact, in place: index is where the current share is, the rest is dropped.
Merge(s, index, share) ==
    IF s[index].address = share.address
    THEN [seq |-> [s EXCEPT ![index].weight = @ + share.weight], index |-> index]
    ELSE [seq |-> [s EXCEPT ![index + 1] = share], index |-> index + 1]

Compact(s) ==
    LET sorted == SortSeq(s, LAMBDA a, b : a.address < b.address)
        done == FoldLeft(LAMBDA c, i : Merge(c.seq, c.index, c.seq[i]),
                         [seq |-> sorted, index |-> 1], [i \in 1..(Len(s) - 1) |-> i + 1])
    IN  SubSeq(done.seq, 1, done.index)

GetSharesOrdered(window) ==
    IF window = Missing THEN Missing
    ELSE Compact([i \in DOMAIN window |-> ShareOf(window[i])])

\* ShuffleSequence: item i (from 1) is swapped with one of the n - i + 1 from it on.
Choice(word, n, i) == i + (word * (n - i + 1)) \div Word

Shuffle(s, words) ==
    FoldLeft(LAMBDA t, i : LET j == Choice(words[i], Len(s), i)
                           IN [t EXCEPT ![i] = t[j], ![j] = t[i]],
             s, [i \in 1..(Len(s) - 1) |-> i])

\* Mutant: each share gets its proportion, rounded down.
SplitEach(total, s) ==
    LET weight == Total(s, LAMBDA x : x.weight)
    IN  IF weight = 0 THEN Missing
        ELSE [i \in DOMAIN s |-> ((s[i].weight * total) % (Word * Word)) \div weight]

\* SplitReward: each share gets the difference to what was given before.  The product
\* and the reward wrap; the sum is compared with the reward at the end.
SplitReward(total, s) ==
    LET weight == Total(s, LAMBDA x : x.weight) % (Word * Word)
        Upto(i) == Total(SubSeq(s, 1, i), LAMBDA x : x.weight) % (Word * Word)
        Value(i) == (((Upto(i) * total) % (Word * Word)) \div weight) % Word
        given == [i \in DOMAIN s |->
                    (Value(i) - (IF i = 1 THEN 0 ELSE Value(i - 1)) + Word) % Word]
    IN  IF weight = 0 THEN Missing
        ELSE IF Total(given, LAMBDA x : x) % Word # total THEN Missing
        ELSE given

\* CalculateOutputs: no outputs without shares or rewards.
CalculateOutputs(s, words, total) ==
    IF s = Missing THEN Missing
    ELSE LET shuffled == Shuffle(s, words)
             rewards == SplitReward(total, shuffled)
         IN  IF rewards = Missing THEN Missing
             ELSE [i \in DOMAIN s |-> [address |-> shuffled[i].address, reward |-> rewards[i]]]

-----------------------------------------------------------------------------
Init ==
    /\ chain \in Chains /\ limit \in Limits /\ reward \in Rewards
    /\ seeds \in [1..2 -> {0, Word \div 2, Word - 1}]
    /\ entries = <<>> /\ slots = <<>> /\ shares = <<>> /\ outputs = <<>>

Compute ==
    /\ entries = <<>>
    /\ entries' = BlocksInPPLNSWindow(chain, limit)
    /\ slots' = IterateBlocksInPPLNSWindow(chain, limit)
    /\ shares' = GetSharesOrdered(entries')
    /\ outputs' = CalculateOutputs(shares', seeds, reward)
    /\ UNCHANGED <<chain, limit, reward, seeds>>

Next == Compute

Spec == Init /\ [][Next]_vars

-----------------------------------------------------------------------------
Computed == entries # <<>> /\ entries # Missing

\* The window gives out all the weight of the blocks and uncles it counts: what an uncle
\* loses the block above it gets (utils.go:204-240), and no block counts twice.
WeightIsKept ==
    Computed =>
        /\ Total(entries, LAMBDA e : e.weight) = Total(entries, LAMBDA e : e.of.difficulty)
        /\ \A i, j \in DOMAIN entries : entries[i].of = entries[j].of => i = j

\* The weight of the window goes above the limit by its last block only
\* (the comments at utils.go:231 and 239).
LimitIsPassedOnce ==
    Computed => Total(Front(entries), LAMBDA e : e.weight) <= limit

\* The two walks through the window (utils.go:82-177 and 179-262) give the same weights,
\* and fail for the same chains.
WindowsAgree ==
    entries # <<>> =>
        /\ slots.complete = (entries # Missing)
        /\ Computed => slots.entries = entries

\* Each miner of the window has one share, with the sum of the weights, in the order of
\* the addresses, although Compact writes over the slice it reads (share.go:46-68).
OneShareEach ==
    Computed =>
        /\ {shares[i].address : i \in DOMAIN shares} = {entries[i].of.miner : i \in DOMAIN entries}
        /\ \A i, j \in DOMAIN shares : i < j => shares[i].address < shares[j].address
        /\ \A i \in DOMAIN shares :
              shares[i].weight = Total(SelectSeq(entries, LAMBDA e : e.of.miner = shares[i].address),
                                       LAMBDA e : e.weight)

\* The outputs pay the reward in full, each miner of the window once and less than one
\* unit from its proportion; there are none only when the product of reward and weight
\* does not fit (SplitReward, utils.go:470-503).
RewardIsPaid ==
    LET weight == Total(shares, LAMBDA x : x.weight) IN
    Computed =>
        /\ outputs = Missing => weight * reward >= Word * Word
        /\ outputs # Missing =>
              /\ Total(outputs, LAMBDA o : o.reward) = reward
              /\ \A i \in DOMAIN shares :
                    \E j \in DOMAIN outputs :
                        /\ outputs[j].address = shares[i].address
                        /\ outputs[j].reward * weight < shares[i].weight * reward + weight
                        /\ shares[i].weight * reward < outputs[j].reward * weight + weight

====
