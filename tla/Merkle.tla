------------------------------- MODULE Merkle --------------------------------
(***************************************************************************)
(* The tree hash over the transactions of a block and the branch of its    *)
(* first leaf (monero/crypto/merkle.go).  Both are computed in one array   *)
(* that is overwritten from the front while it is read further back.       *)
(*                                                                         *)
(* A leaf is a model value, the hash of two nodes is the pair of them.     *)
(***************************************************************************)
EXTENDS Integers, Sequences

CONSTANT Leaves          \* a sequence of different leaves

VARIABLES count, tree, width, i, mainBranch, rootHash

vars == <<count, tree, width, i, mainBranch, rootHash>>

PreviousPowerOfTwo(x) == CHOOSE p \in {1, 2, 4, 8, 16, 32} : p <= x /\ 2 * p > x

\* The first leaves as they are, the others in pairs, so that a power of two is left.
FirstLevel(n) ==
    LET pow2cnt == PreviousPowerOfTwo(n)
        offset == pow2cnt * 2 - n IN
    [k \in 1..pow2cnt |->
        IF k <= offset THEN Leaves[k]
        ELSE <<Leaves[offset + (k - offset) * 2 - 1], Leaves[offset + (k - offset) * 2]>>]

\* Up to two leaves are hashed at once, and have no branch.
Init ==
    /\ count \in 1..Len(Leaves)
    /\ tree = IF count <= 2 THEN <<>> ELSE FirstLevel(count)
    /\ width = IF count <= 2 THEN 1 ELSE Len(tree) \div 2
    /\ i = 0 /\ mainBranch = <<>>
    /\ rootHash = IF count = 1 THEN Leaves[1]
                  ELSE IF count = 2 THEN <<Leaves[1], Leaves[2]>> ELSE <<>>

\* Mutant: the node is taken from the place next to it.
HashPairNext(k) == <<tree[k + 1], tree[k + 2]>>

HashPair(k) == <<tree[2 * k + 1], tree[2 * k + 2]>>

\* Mutant: the neighbour is taken when it has been overwritten.
TakesBranchLate == i = 2

TakesBranch == i = 0

\* One node of a level; the branch takes the neighbour of the first.
Level ==
    /\ width > 1 /\ i < width
    /\ mainBranch' = IF TakesBranch THEN Append(mainBranch, tree[2]) ELSE mainBranch
    /\ tree' = [tree EXCEPT ![i + 1] = HashPair(i)]
    /\ i' = i + 1
    /\ UNCHANGED <<count, width, rootHash>>

NextLevel ==
    /\ width > 1 /\ i = width
    /\ width' = width \div 2 /\ i' = 0
    /\ UNCHANGED <<count, tree, mainBranch, rootHash>>

Finish ==
    /\ width = 1 /\ rootHash = <<>>
    /\ rootHash' = HashPair(0)
    /\ mainBranch' = Append(mainBranch, tree[2])
    /\ UNCHANGED <<count, tree, width, i>>

Next == Level \/ NextLevel \/ Finish

Spec == Init /\ [][Next]_vars

\* The tree over a power of two of nodes.
RECURSIVE Perfect(_)
Perfect(s) ==
    IF Len(s) = 1 THEN s[1]
    ELSE <<Perfect(SubSeq(s, 1, Len(s) \div 2)), Perfect(SubSeq(s, Len(s) \div 2 + 1, Len(s)))>>

\* The tree over n leaves: as many as needed go in pairs to leave a power of two.
Root(n) ==
    LET half == CHOOSE h \in {1, 2, 4, 8, 16} : h * 2 >= n /\ h < n
        single == 2 * half - n
    IN  IF n = 1 THEN Leaves[1]
        ELSE Perfect([k \in 1..half |-> IF k <= single THEN Leaves[k]
                                        ELSE <<Leaves[2 * k - single - 1], Leaves[2 * k - single]>>])

\* However the array is overwritten, the root is that of the tree, for every number of
\* transactions (merkle.go:27-56).
RootIsTree == rootHash # <<>> => rootHash = Root(count)

\* Hashing the first leaf with the branch gives the root, which is what a branch is for; it
\* takes three leaves (merkle.go:58-95).
BranchProves ==
    (rootHash # <<>> /\ count # 2) =>
        LET up[k \in 0..Len(mainBranch)] ==
                IF k = 0 THEN Leaves[1] ELSE <<up[k - 1], mainBranch[k]>>
        IN  up[Len(mainBranch)] = rootHash
====
