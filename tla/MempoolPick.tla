---------------------------- MODULE MempoolPick ------------------------------
(***************************************************************************)
(* Pick (p2pool/mempool/mempool.go): the transactions of a block template, *)
(* best fee per byte first, and above the median weight by replacing ones  *)
(* taken before.  One step is one iteration of the loop.                   *)
(***************************************************************************)
EXTENDS Integers, Sequences, SequencesExt, FiniteSets

CONSTANTS N, MaxFee, MaxWeight, baseReward, minerTxWeight, medianWeight

VARIABLES m, i, m2, finalReward, finalFees, finalWeight, panicked

vars == <<m, i, m2, finalReward, finalFees, finalWeight, panicked>>

\* Compare(a, b) <= 0; equal entries are ordered by id, which the model leaves out.
NotAfter(a, b) ==
    \/ a.Fee * b.Weight > b.Fee * a.Weight
    \/ a.Fee * b.Weight = b.Fee * a.Weight /\ a.Weight <= b.Weight

GetBlockReward(fees, weight) ==
    IF weight <= medianWeight THEN baseReward + fees
    ELSE IF weight > medianWeight * 2 THEN 0
    ELSE ((baseReward * (medianWeight * 2 - weight)) \div medianWeight) \div medianWeight + fees

\* After m.Sort().
Init ==
    /\ m \in [1..N -> [Fee : 0..MaxFee, Weight : 1..MaxWeight]]
    /\ \A a, b \in 1..N : a < b => NotAfter(m[a], m[b])
    /\ i = 0 /\ m2 = <<>> /\ panicked = FALSE
    /\ finalReward = baseReward /\ finalFees = 0 /\ finalWeight = minerTxWeight

tx == m[i + 1]

AddedReward == GetBlockReward(finalFees + tx.Fee, finalWeight + tx.Weight)

\* Index k and reward after the transaction itself was tried: k is 1, whatever i is.
Added ==
    IF AddedReward > finalReward THEN [k |-> 1, reward |-> AddedReward]
    ELSE [k |-> -1, reward |-> finalReward]

\* Then the last hundred taken, from the last one, above the median weight.
Best ==
    IF finalWeight + tx.Weight <= medianWeight THEN Added
    ELSE FoldLeft(LAMBDA best, j :
             LET reward == GetBlockReward(finalFees + m2[j + 1].Fee, finalWeight + m2[j + 1].Weight) IN
             IF reward > best.reward THEN [k |-> j, reward |-> reward] ELSE best,
             Added, [n \in 1..Len(m2) |-> Len(m2) - n])

\* Mutant: the weight of the transaction replaced stays.
ReplaceKeeping(k) ==
    /\ m2' = [m2 EXCEPT ![k + 1] = tx]
    /\ finalFees' = finalFees + tx.Fee - m2[k + 1].Fee
    /\ finalWeight' = finalWeight + tx.Weight

Replace(k) ==
    /\ m2' = [m2 EXCEPT ![k + 1] = tx]
    /\ finalFees' = finalFees + tx.Fee - m2[k + 1].Fee
    /\ finalWeight' = finalWeight + tx.Weight - m2[k + 1].Weight

Pick ==
    /\ i < N /\ ~panicked
    /\ i' = i + 1
    /\ finalReward' = Best.reward
    /\ \E k \in {Best.k} :
          IF k = i
          THEN /\ m2' = Append(m2, tx)
               /\ finalFees' = finalFees + tx.Fee /\ finalWeight' = finalWeight + tx.Weight
               /\ UNCHANGED panicked
          ELSE IF k >= 0 /\ k < Len(m2) THEN Replace(k) /\ UNCHANGED panicked
          ELSE panicked' = (k >= 0) /\ UNCHANGED <<m2, finalFees, finalWeight>>
    /\ UNCHANGED m

Next == Pick

Spec == Init /\ [][Next]_vars

Total(f(_)) == FoldLeft(LAMBDA acc, t : acc + f(t), 0, m2)

\* The running totals the rewards are computed from are those of the transactions taken, also
\* after replacements (mempool.go:86-97).
TotalsMatch ==
    /\ finalFees = Total(LAMBDA t : t.Fee)
    /\ finalWeight = minerTxWeight + Total(LAMBDA t : t.Weight)
====
