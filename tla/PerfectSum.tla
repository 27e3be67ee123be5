----------------------------- MODULE PerfectSum ------------------------------
(***************************************************************************)
(* PerfectSum (p2pool/mempool/mempool.go): a goroutine searches the        *)
(* transactions whose fees add up to a target, and sends each selection    *)
(* over a channel.  The selections under construction share one array,     *)
(* which append writes into; a selection that is sent is a clone.          *)
(***************************************************************************)
EXTENDS Integers, Sequences, FiniteSets, FiniteSetsExt, SequencesExt

CONSTANTS N, MaxFee, MaxTarget

VARIABLES
    fee, targetFee,
    calls,           \* the calls of the recursion still to be made, the next one first
    heap,            \* arrays: the shared one, then a clone for each selection
    received,        \* what the consumer has: array and length
    closed

vars == <<fee, targetFee, calls, heap, received, closed>>

Init ==
    /\ fee \in [1..N -> 0..MaxFee] /\ targetFee \in 1..MaxTarget
    /\ calls = <<[i |-> 1, sum |-> 0, len |-> 0]>>
    /\ heap = <<[i \in 1..N |-> 0]>>
    /\ received = <<>> /\ closed = FALSE

\* Mutant: the slice itself is sent.
CloneAliased(len) == heap' = heap /\ received' = Append(received, [array |-> 1, len |-> len])

Clone(len) ==
    /\ heap' = Append(heap, heap[1])
    /\ received' = Append(received, [array |-> Len(heap) + 1, len |-> len])

\* The channel has no buffer: the goroutine goes on when the consumer has taken the selection.
Found ==
    /\ calls # <<>> /\ Head(calls).sum = targetFee
    /\ Clone(Head(calls).len)
    /\ calls' = Tail(calls)
    /\ UNCHANGED <<fee, targetFee, closed>>

\* Mutant: the search goes on only with the transaction taken.
BranchTaken(c) == <<[i |-> c.i + 1, sum |-> c.sum + fee[c.i], len |-> c.len + 1]>>

\* With the transaction, then without it.
Branch(c) ==
    <<[i |-> c.i + 1, sum |-> c.sum + fee[c.i], len |-> c.len + 1],
      [i |-> c.i + 1, sum |-> c.sum, len |-> c.len]>>

Descend ==
    /\ calls # <<>> /\ Head(calls).sum < targetFee /\ Head(calls).i <= N
    /\ heap' = [heap EXCEPT ![1][Head(calls).len + 1] = Head(calls).i]
    /\ calls' = Branch(Head(calls)) \o Tail(calls)
    /\ UNCHANGED <<fee, targetFee, received, closed>>

GiveUp ==
    /\ calls # <<>> /\ Head(calls).sum # targetFee
    /\ Head(calls).sum > targetFee \/ Head(calls).i > N
    /\ calls' = Tail(calls)
    /\ UNCHANGED <<fee, targetFee, heap, received, closed>>

Close ==
    /\ calls = <<>> /\ ~closed
    /\ closed' = TRUE
    /\ UNCHANGED <<fee, targetFee, calls, heap, received>>

Next == Found \/ Descend \/ GiveUp \/ Close

Spec == Init /\ [][Next]_vars

Selection(r) == {heap[r.array][i] : i \in 1..r.len}
SumOf(txs) == MapThenSumSet(LAMBDA t : fee[t], txs)

\* Whenever the consumer looks at a selection, also after the goroutine went on with its array,
\* its fees add up to the target (mempool.go:104-116).
ReceivedStays == \A i \in DOMAIN received : SumOf(Selection(received[i])) = targetFee

\* When the channel closes, the consumer got every selection once; one that reaches the target
\* is not continued with transactions without fee (mempool.go:104-117).
EverySelectionOnce ==
    closed =>
        /\ \A i, j \in DOMAIN received :
               i # j => Selection(received[i]) # Selection(received[j])
        /\ {Selection(received[i]) : i \in DOMAIN received}
             = {txs \in SUBSET (1..N) : /\ SumOf(txs) = targetFee
                                        /\ fee[Max(txs)] # 0}
====
