---------------------------- MODULE ShareTransfer ----------------------------
(***************************************************************************)
(* A share on its way from one node to another (sidechain/poolblock.go):   *)
(* written in full, pruned (without the outputs of its coinbase) or        *)
(* compact (without the transactions its parent has), read, and completed  *)
(* from the shares the receiver has.                                       *)
(***************************************************************************)
EXTENDS ShareCodec, Forks, FiniteSets

CONSTANTS
    Network,
    TxIds,           \* transactions
    MaxTxs,
    Heights, Times,  \* heights and times around the forks
    ParentId, GrandId, ShareId, UncleId,
    Spend, View, Seed, KeyOf,  \* keys; KeyOf[s]: the transaction key made from the seed s
    PreviousId,
    None

VARIABLES
    pc,
    sent,            \* the share as its sender has it
    store,           \* the shares the receiver can look up, by template id
    pruned, compact,
    windowKnown,     \* whether the receiver can compute the outputs
    wire,
    got, result

vars == <<pc, sent, store, pruned, compact, windowKnown, wire, got, result>>

-----------------------------------------------------------------------------
CalculateShareVersion(main) == P2PoolShareVersion(Network, main.Timestamp)

TemplateTag(b) == Tagged(b.Main.Coinbase.Extra, TxExtraTagMergeMining)

\* CoinbaseExtra(SideTemplateId).
TemplateId(b) == IF TemplateTag(b) = <<>> THEN None ELSE TemplateTag(b)[1].Data[1]

\* The seed of the coinbase key: its own field, or the address before version 2.
GetPrivateKeySeed(b) ==
    IF b.Version > 1 THEN b.Side.KeySeed
    ELSE IF b.Main.MajorVersion < 15 /\ KeyOf[b.Side.Spend] # b.Side.PrivateKey THEN Zero
    ELSE b.Side.Spend

FillPrivateKeys(b) ==
    IF b.Version = 1 THEN [b EXCEPT !.Side.KeySeed = GetPrivateKeySeed(b)]
    ELSE IF b.Side.PrivateKey = Zero THEN [b EXCEPT !.Side.PrivateKey = KeyOf[GetPrivateKeySeed(b)]]
    ELSE b

AppendBinaryFlags(b, p, c) ==
    BlockAppendBinary(b.Main, p, c) \o SideAppendBinary(b.Side, b.Version)

\* FromReader and FromCompactReader.  Only a share without template id meets the test of the
\* merge mining tag, and there the test itself dereferences nil.
FromReader(s, c) ==
    Then(BlockFromReader(s, c), LAMBDA main :
    IF main.val.MajorVersion # NetworkMajorVersion(Network, main.val.Coinbase.GenHeight)
       \/ Tagged(main.val.Coinbase.Extra, TxExtraTagMergeMining) = <<>>
    THEN Fail
    ELSE Then(SideFromReader(main.rest, CalculateShareVersion(main.val)), LAMBDA side :
         Done(FillPrivateKeys([Main |-> main.val, Side |-> side.val,
                               Version |-> CalculateShareVersion(main.val)]), side.rest)))

-----------------------------------------------------------------------------
(* Completing a share. *)

\* The outputs every node with the same window computes (module Payouts).
CalculateOutputs == sent.Main.Coinbase.Outputs

NeedsCompactTransactionFilling(b) ==
    /\ b.Main.ParentIndices # <<>>
    /\ Len(b.Main.ParentIndices) = Len(b.Main.Transactions)
    /\ Contains(b.Main.Transactions, Zero)

\* The transactions named by index; a parent that is another share changes nothing.  The index
\* one past the end passes the test and panics.
FillTransactions(b, parent) ==
    IF ~NeedsCompactTransactionFilling(b) THEN [status |-> "ok", share |-> b]
    ELSE IF parent = None THEN [status |-> "error", share |-> b]
    ELSE IF TemplateId(parent) # b.Side.Parent THEN [status |-> "ok", share |-> b]
    ELSE IF \E i \in DOMAIN b.Main.ParentIndices :
                b.Main.ParentIndices[i] > Len(parent.Main.Transactions)
         THEN [status |-> IF \E i \in DOMAIN b.Main.ParentIndices :
                                 b.Main.ParentIndices[i] = Len(parent.Main.Transactions) + 1
                          THEN "panic" ELSE "error", share |-> b]
    ELSE [status |-> "ok",
          share |-> [b EXCEPT !.Main.Transactions = [i \in DOMAIN @ |->
                         IF b.Main.ParentIndices[i] = 0 THEN @[i]
                         ELSE parent.Main.Transactions[b.Main.ParentIndices[i]]]]]

\* Where the parent has each transaction, from one; 0 where it has not.
FillTransactionParentIndices(b, parent) ==
    IF Len(b.Main.Transactions) = Len(b.Main.ParentIndices) \/ parent = None
    THEN b
    ELSE IF TemplateId(parent) # b.Side.Parent THEN b
    ELSE [b EXCEPT !.Main.ParentIndices = [i \in DOMAIN b.Main.Transactions |->
             LET same == {j \in DOMAIN parent.Main.Transactions :
                              parent.Main.Transactions[j] = b.Main.Transactions[i]} IN
             IF same = {} THEN 0 ELSE CHOOSE j \in same : \A k \in same : j <= k]]

\* Mutant: a stored share is taken as it is.
GetFilledStored(id) == store[id]

\* getTemplateByIdFillingTx: a stored share, completed from the shares below it.  The parent
\* may serve even if it is compact itself; the last share known is taken as it is.
RECURSIVE GetFilled(_)
GetFilled(id) ==
    IF store[id] = None \/ ~NeedsCompactTransactionFilling(store[id]) THEN store[id]
    ELSE LET up == store[store[id].Side.Parent]
             direct == FillTransactions(store[id], up) IN
         IF up = None THEN store[id]
         ELSE IF direct.status = "ok" /\ ~NeedsCompactTransactionFilling(direct.share) THEN direct.share
         ELSE LET filled == FillTransactions(store[id], GetFilled(store[id].Side.Parent)) IN
              IF filled.status = "ok" THEN filled.share ELSE None

\* The outputs, computed from the window; their size is the one announced.
WithOutputs(b) ==
    IF b.Main.Coinbase.Outputs # <<>> THEN [result |-> "ok", share |-> b]
    ELSE IF ~windowKnown THEN [result |-> "no outputs", share |-> b]
    ELSE [result |-> IF Len(OutputsAppendBinary(CalculateOutputs)) = b.Main.Coinbase.OutputsBlobSize
                     THEN "ok" ELSE "wrong size",
          share |-> [b EXCEPT !.Main.Coinbase.Outputs = CalculateOutputs]]

\* PreProcessBlockWithOutputs: transactions and indices from the parent, then the outputs.
Completed(b, parent) ==
    IF ~NeedsCompactTransactionFilling(b) THEN WithOutputs(FillTransactionParentIndices(b, parent))
    ELSE IF parent = None THEN [result |-> "parent missing", share |-> b]
    ELSE LET f == FillTransactions(b, parent) IN
         IF f.status = "ok" THEN WithOutputs(FillTransactionParentIndices(f.share, parent))
         ELSE [result |-> f.status, share |-> f.share]

-----------------------------------------------------------------------------
(* The shares. *)

\* What p2pool puts into the coinbase: key, extra nonce, template id.
Extra(id) ==
    <<[Tag |-> TxExtraTagPubKey, HasVarInt |-> FALSE, VarInt |-> 0, Data |-> <<View>>],
      [Tag |-> TxExtraTagNonce, HasVarInt |-> TRUE, VarInt |-> 2, Data |-> <<7, 8>>],
      [Tag |-> TxExtraTagMergeMining, HasVarInt |-> TRUE, VarInt |-> 32, Data |-> <<id>>]>>

Outputs(major) ==
    [i \in 1..2 |-> [Reward |-> i, Key |-> View,
                     Type |-> IF major >= 15 THEN TxOutToTaggedKey ELSE TxOutToKey,
                     ViewTag |-> IF major >= 15 THEN i ELSE 0]]

Main(id, txs, major, height, time) ==
    [MajorVersion |-> major, MinorVersion |-> major, Timestamp |-> time, PreviousId |-> PreviousId,
     Nonce |-> 5, Transactions |-> txs, ParentIndices |-> <<>>,
     Coinbase |-> [GenHeight |-> height, Outputs |-> Outputs(major), TotalReward |-> 3,
                   OutputsBlobSize |-> 0, Extra |-> Extra(id)]]

Side(parent, uncles, v2) ==
    [Spend |-> Spend, View |-> View, Parent |-> parent, Uncles |-> uncles,
     KeySeed |-> IF v2 THEN Seed ELSE Spend, PrivateKey |-> IF v2 THEN KeyOf[Seed] ELSE KeyOf[Spend],
     Height |-> 9, DifficultyLo |-> 4, DifficultyHi |-> 0, CumulativeLo |-> 1, CumulativeHi |-> 6,
     RandomNumber |-> IF v2 THEN 11 ELSE 0, ExtraNonce |-> IF v2 THEN 12 ELSE 0]

Share(id, txs, parent, uncles, height, time) ==
    [Main |-> Main(id, txs, NetworkMajorVersion(Network, height), height, time),
     Side |-> Side(parent, uncles, P2PoolShareVersion(Network, time) > 1),
     Version |-> P2PoolShareVersion(Network, time)]

\* A share as a compact message holds it.
Hollow(b) ==
    [b EXCEPT !.Main.Transactions =
        [i \in DOMAIN @ |-> IF b.Main.ParentIndices[i] = 0 THEN @[i] ELSE Zero]]

\* The parent is not known, full, or compact with its own parent known.
Init ==
    /\ pc = "send" /\ wire = <<>> /\ got = None /\ result = "none"
    /\ pruned \in BOOLEAN /\ compact \in BOOLEAN /\ windowKnown \in BOOLEAN
    /\ \E height \in Heights, time \in Times, txs, parentTxs \in BoundedSeq(TxIds, MaxTxs) :
       \E grandTxs \in {<<>>, parentTxs}, parentKnown \in {"no", "full", "compact"} :
       \E grand \in {Share(GrandId, grandTxs, Zero, <<>>, height, time)} :
       \E parent \in {FillTransactionParentIndices(
                          Share(ParentId, parentTxs, GrandId, <<UncleId>>, height, time), grand)} :
           /\ sent = FillTransactionParentIndices(
                         Share(ShareId, txs, ParentId, <<UncleId>>, height, time), parent)
           /\ store = [id \in {ParentId, GrandId, UncleId, ShareId, Zero} |->
                          IF id = GrandId THEN grand
                          ELSE IF id # ParentId \/ parentKnown = "no" THEN None
                          ELSE IF parentKnown = "full" THEN parent ELSE Hollow(parent)]

Send ==
    /\ pc = "send" /\ BlockCanBeWritten(sent.Main)
    /\ wire' = AppendBinaryFlags(sent, pruned, compact)
    /\ pc' = "read"
    /\ UNCHANGED <<sent, store, pruned, compact, windowKnown, got, result>>

Receive ==
    /\ pc = "read"
    /\ \E r \in {FromReader(wire, compact)} :
       IF r.ok THEN pc' = "process" /\ got' = r.val /\ UNCHANGED result
       ELSE pc' = "done" /\ result' = "unreadable" /\ UNCHANGED got
    /\ UNCHANGED <<sent, store, pruned, compact, windowKnown, wire>>

\* A stored parent that had to be completed stays completed.
PreProcess ==
    /\ pc = "process"
    /\ pc' = "done"
    /\ \E parent \in {IF \/ NeedsCompactTransactionFilling(got)
                         \/ Len(got.Main.Transactions) # Len(got.Main.ParentIndices)
                      THEN GetFilled(got.Side.Parent) ELSE None} :
       \E r \in {Completed(got, parent)} :
           /\ got' = r.share /\ result' = r.result
           /\ store' = IF parent = None THEN store ELSE [store EXCEPT ![got.Side.Parent] = parent]
    /\ UNCHANGED <<sent, pruned, compact, windowKnown, wire>>

Next == Send \/ Receive \/ PreProcess

Spec == Init /\ [][Next]_vars

-----------------------------------------------------------------------------
\* What makes up the share: everything except the sizes and indices kept for the encoding.
Content(b) == [Main |-> [b.Main EXCEPT !.ParentIndices = <<>>, !.Coinbase.OutputsBlobSize = 0],
               Side |-> b.Side, Version |-> b.Version]

\* A share arrives as it was sent, in every form and on both sides of the forks, whatever the
\* receiver completes it from (poolblock.go:485-549, 558-626).
ArrivesAsSent == result = "ok" => Content(got) = Content(sent)

\* A share can be completed whenever its parent and its window are known; only a compact share
\* that uses its parent needs the parent, and only a pruned one the window (poolblock.go:592-616).
ArrivesWhenKnown ==
    pc = "done" =>
        \/ result = "ok"
        \/ result = "no outputs" /\ pruned /\ ~windowKnown
        \/ result = "parent missing" /\ compact /\ store[ParentId] = None
====
