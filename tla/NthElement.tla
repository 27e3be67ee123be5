----------------------------- MODULE NthElement ------------------------------
(***************************************************************************)
(* The selection of the k-th smallest element (NthElementSlice in          *)
(* utils/nthelement.go), with which the difficulty window is cut: one      *)
(* action for each round of the loop, for each comparison of partition and *)
(* for its end.  Indices count from 0, as in the code.                     *)
(***************************************************************************)
EXTENDS Integers, FiniteSets

CONSTANTS
    N,         \* the length of the slice
    Values     \* what it may hold

ASSUME SliceAssumption == N \in Nat \ {0} /\ Values \subseteq Int

VARIABLES
    given,     \* the slice as it was passed
    s, k,
    left, right,
    i, storeIndex,
    pc

vars == <<given, s, k, left, right, i, storeIndex, pc>>

Index == 0..(N - 1)

Swap(t, x, y) == [t EXCEPT ![x] = t[y], ![y] = t[x]]

Init ==
    /\ s \in [Index -> Values]
    /\ given = s
    /\ k \in Index
    /\ left = 0 /\ right = N - 1
    /\ i = 0 /\ storeIndex = 0
    /\ pc = "select"

\* One element left: it is the one.
Return ==
    /\ pc = "select" /\ left = right
    /\ pc' = "done"
    /\ UNCHANGED <<given, s, k, left, right, i, storeIndex>>

\* The middle element is the pivot; it moves to the end.
Select ==
    /\ pc = "select" /\ left # right
    /\ s' = Swap(s, (left + right) \div 2, right)
    /\ i' = left /\ storeIndex' = left
    /\ pc' = "partition"
    /\ UNCHANGED <<given, k, left, right>>

\* A smaller element goes to the front.
Compare ==
    /\ pc = "partition" /\ i < right
    /\ IF s[i] < s[right]
       THEN s' = Swap(s, storeIndex, i) /\ storeIndex' = storeIndex + 1
       ELSE UNCHANGED <<s, storeIndex>>
    /\ i' = i + 1
    /\ UNCHANGED <<given, k, left, right, pc>>

\* Mutants: the side without k is searched, the pivot stays in the range.
DescendKeepsPivot ==
    /\ right' = IF k < storeIndex THEN storeIndex ELSE right
    /\ left' = IF k > storeIndex THEN storeIndex ELSE left

DescendWrong ==
    /\ right' = IF k > storeIndex THEN storeIndex - 1 ELSE right
    /\ left' = IF k < storeIndex THEN storeIndex + 1 ELSE left

\* The search goes on in the side that holds index k.
Descend ==
    /\ right' = IF k < storeIndex THEN storeIndex - 1 ELSE right
    /\ left' = IF k > storeIndex THEN storeIndex + 1 ELSE left

\* Mutant: the pivot is written to its place and what was there is gone.
PartitionedCopy ==
    /\ pc = "partition" /\ i = right
    /\ s' = [s EXCEPT ![storeIndex] = s[right]]
    /\ pc' = IF k = storeIndex THEN "done" ELSE "select"
    /\ Descend
    /\ UNCHANGED <<given, k, i, storeIndex>>

\* The pivot moves to its place.
Partitioned ==
    /\ pc = "partition" /\ i = right
    /\ s' = Swap(s, right, storeIndex)
    /\ pc' = IF k = storeIndex THEN "done" ELSE "select"
    /\ Descend
    /\ UNCHANGED <<given, k, i, storeIndex>>

Next == Return \/ Select \/ Compare \/ Partitioned

\* The caller waits for the result.
Spec == Init /\ [][Next]_vars /\ WF_vars(Next)

-----------------------------------------------------------------------------
TypeOK ==
    /\ s \in [Index -> Values]
    /\ k \in Index
    /\ left \in Index /\ right \in Index
    /\ i \in Index /\ storeIndex \in Index
    /\ pc \in {"select", "partition", "done"}

\* On return, what is before index k is not greater and what is after it not smaller
\* (the comment on NthElementSlice, nthelement.go:7-10), so s[k] is the element that
\* sorting would put there.
Selected ==
    pc = "done" => /\ \A x \in Index : x < k => s[x] <= s[k]
                   /\ \A x \in Index : x > k => s[k] <= s[x]

\* On return the slice holds the elements it was passed with, each as often.
Permuted ==
    pc = "done" =>
        \A v \in Values : Cardinality({x \in Index : s[x] = v})
                            = Cardinality({x \in Index : given[x] = v})

-----------------------------------------------------------------------------
(* The inductive invariant of the proof: what is left of the range is not  *)
(* greater than what is in it or right of it, and during a partition the   *)
(* part before storeIndex is smaller than the pivot, the part up to i not. *)

Bounded ==
    /\ left <= k /\ k <= right
    /\ \A x, y \in Index : x < left /\ left <= y => s[x] <= s[y]
    /\ \A x, y \in Index : x <= right /\ right < y => s[x] <= s[y]

Parted ==
    pc = "partition" =>
        /\ left < right
        /\ left <= storeIndex /\ storeIndex <= i /\ i <= right
        /\ \A x \in Index : left <= x /\ x < storeIndex => s[x] < s[right]
        /\ \A x \in Index : storeIndex <= x /\ x < i => s[x] >= s[right]

IInv == TypeOK /\ (pc # "done" => Bounded) /\ Parted /\ Selected
====
