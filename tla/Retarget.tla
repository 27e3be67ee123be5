------------------------------ MODULE Retarget -------------------------------
(***************************************************************************)
(* The difficulty of the next block (NextDifficulty in                     *)
(* p2pool/sidechain/utils.go), from the timestamps and the cumulative      *)
(* difficulties of the blocks and uncles in the window.                    *)
(*                                                                         *)
(* What NthElementSlice returns is given by its sorted order (module       *)
(* NthElement).  Timestamps have the range of a word, difficulties that of *)
(* two; the calls of uint128 panic when they wrap, and the panic is        *)
(* recovered as an error.                                                  *)
(***************************************************************************)
EXTENDS Integers, Sequences, SequencesExt, FiniteSets, FiniteSetsExt

CONSTANTS
    Windows,             \* the inputs: sequences of [timestamp, cumulative]
    TargetBlockTime,
    MinimumDifficulty,
    Word                 \* the range of uint64

VARIABLES data, next

vars == <<data, next>>

None == -1
Error == -2     \* the recovered panic

Double == Word * Word

-----------------------------------------------------------------------------
\* The element that NthElementSlice puts at index k, counted from 0.
Nth(timestamps, k) == SortSeq(timestamps, <)[k + 1]

\* A tenth of the oldest and of the newest is cut, one element less on each side.
CutIndices(n) ==
    LET cutSize == (n + 9) \div 10 IN [low |-> cutSize - 1, up |-> n - cutSize]

\* Mutant: the difference of the timestamps is taken as it is.
DeltaTimestampRaw(low, up, deltaIndex) == up - low

\* The time between the bounds, at least one second for each block.
DeltaTimestamp(low, up, deltaIndex) ==
    IF up > (low + deltaIndex) % Word THEN up - low ELSE deltaIndex

\* uint128: Sub, Mul64 and Div64, which panic.
Scaled(max, min, delta) ==
    IF max < min \/ (max - min) * TargetBlockTime >= Double \/ delta = 0 THEN Error
    ELSE ((max - min) * TargetBlockTime) \div delta

NextDifficulty(d) ==
    LET n == Len(d)
        timestamps == [i \in 1..n |-> d[i].timestamp]
        cut == CutIndices(n)
        lower == Nth(timestamps, cut.low)
        upper == Nth(timestamps, cut.up)
        deltaIndex == IF cut.up > cut.low THEN cut.up - cut.low ELSE 1
        inside == {d[i].cumulative : i \in {j \in 1..n : /\ lower <= d[j].timestamp
                                                         /\ d[j].timestamp <= upper}}
        min == Min(inside \cup {Double - 1})
        max == Max(inside \cup {0})
        cur == Scaled(max, min, DeltaTimestamp(lower, upper, deltaIndex))
    IN  IF cur # Error /\ cur < MinimumDifficulty THEN MinimumDifficulty ELSE cur

-----------------------------------------------------------------------------
Init == data \in Windows /\ next = None

Compute ==
    /\ next = None
    /\ next' = NextDifficulty(data)
    /\ UNCHANGED data

Next == Compute

Spec == Init /\ [][Next]_vars

-----------------------------------------------------------------------------
\* The blocks of rank at least r in time and at least r from the end: what is left when
\* the r - 1 oldest and newest are cut.
Kept(r) ==
    {i \in DOMAIN data :
        /\ Cardinality({j \in DOMAIN data : data[j].timestamp <= data[i].timestamp}) >= r
        /\ Cardinality({j \in DOMAIN data : data[j].timestamp >= data[i].timestamp}) >= r}

\* The next difficulty is the work between the blocks that are left after the cut,
\* scaled to the target time, over the time between them or one second for each of them,
\* and not below the minimum; it is an error only when the scaled work does not fit
\* ("Returns error on wrap", utils.go:401-402).  The order of the data does not matter.
IsTheRate ==
    next # None =>
        LET r == (Len(data) + 9) \div 10
            times == {data[i].timestamp : i \in Kept(r)}
            works == {data[i].cumulative : i \in Kept(r)}
            work == (Max(works) - Min(works)) * TargetBlockTime
            time == Max({Max(times) - Min(times), Len(data) - 2 * r + 1, 1})
        IN  next = IF work >= Double THEN Error ELSE Max({work \div time, MinimumDifficulty})
====
