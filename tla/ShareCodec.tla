----------------------------- MODULE ShareCodec ------------------------------
(***************************************************************************)
(* The binary form of a share: the Monero block (monero/block/block.go)    *)
(* with its coinbase transaction (transaction/coinbase.go, output.go,      *)
(* extra.go), then the side data (sidechain/sidedata.go).                  *)
(*                                                                         *)
(* A blob is a sequence of tokens: a number written as a byte or a varint, *)
(* a hash or a key is one token.  A reader returns what it read and the    *)
(* rest; the first error ends the reading.                                  *)
(***************************************************************************)
EXTENDS Integers, Sequences, SequencesExt

CONSTANT Zero      \* the zero hash, the zero key and the zero nonce

Fail == [ok |-> FALSE, val |-> <<>>, rest |-> <<>>]
Done(val, rest) == [ok |-> TRUE, val |-> val, rest |-> rest]

\* The next read, unless this one failed.
Then(r, More(_)) == IF r.ok THEN More(r) ELSE Fail

\* n tokens.
Fixed(s, n) == IF Len(s) >= n THEN Done(SubSeq(s, 1, n), SubSeq(s, n + 1, Len(s))) ELSE Fail

\* A number of items: a token that is none reads as no items.
Counted(v) == IF v \in 0..64 THEN v ELSE 0

\* n items with the same reader.
ReadMany(Read(_), n, s) ==
    FoldLeft(LAMBDA acc, i :
                 Then(acc, LAMBDA a : Then(Read(a.rest), LAMBDA r : Done(Append(a.val, r.val), r.rest))),
             Done(<<>>, s), [i \in 1..Counted(n) |-> i])

-----------------------------------------------------------------------------
(* Extra tags. *)

TxExtraTagPadding == 0
TxExtraTagPubKey == 1
TxExtraTagNonce == 2
TxExtraTagMergeMining == 3
TxExtraTagAdditionalPubKeys == 4
TxExtraTagMysteriousMinergate == 222

NoTag == [Tag |-> TxExtraTagPadding, HasVarInt |-> FALSE, VarInt |-> 0, Data |-> <<>>]

TagAppendBinary(t) == <<t.Tag>> \o (IF t.HasVarInt THEN <<t.VarInt>> ELSE <<>>) \o t.Data

ExtraAppendBinary(tags) == FlattenSeq([i \in DOMAIN tags |-> TagAppendBinary(tags[i])])

\* The blob that is hashed: without template id, and without the first (four byte) token of
\* the extra nonce.
TagHashingBlob(t, zeroTemplateId) ==
    TagAppendBinary([t EXCEPT !.Data =
        IF zeroTemplateId /\ t.Tag = TxExtraTagMergeMining THEN [i \in DOMAIN @ |-> Zero]
        ELSE IF t.Tag = TxExtraTagNonce THEN [i \in DOMAIN @ |-> IF i = 1 THEN Zero ELSE @[i]]
        ELSE @])

ExtraHashingBlob(tags, zeroTemplateId) ==
    FlattenSeq([i \in DOMAIN tags |-> TagHashingBlob(tags[i], zeroTemplateId)])

\* Padding goes to the end of the extra data, and one zero of it is lost.
ReadPadding(t, s) ==
    IF s # <<>> /\ \A i \in DOMAIN s : s[i] = 0
    THEN [status |-> "ok", rest |-> <<>>,
          tag |-> [t EXCEPT !.Data = [i \in 1..(Len(s) - 1) |-> 0]]]
    ELSE [status |-> "error", rest |-> <<>>, tag |-> t]

\* n tokens of data: ReadFull reports the plain end of the data when there is nothing at all.
ReadData(t, n, s) ==
    IF Len(s) < n THEN [status |-> IF s = <<>> THEN "end" ELSE "error", rest |-> <<>>, tag |-> t]
    ELSE [status |-> "ok", rest |-> SubSeq(s, n + 1, Len(s)), tag |-> [t EXCEPT !.Data = SubSeq(s, 1, n)]]

\* Mutant: the template id is read with a length, as the other tags are.
TagFromReaderCounted(tag, s) ==
    IF Len(s) < 2 THEN [status |-> "end", rest |-> <<>>, tag |-> tag]
    ELSE IF s[1] = TxExtraTagPubKey THEN ReadData([tag EXCEPT !.Tag = s[1]], 1, Tail(s))
    ELSE ReadData([tag EXCEPT !.Tag = s[1], !.HasVarInt = TRUE, !.VarInt = Counted(s[2])],
                  Counted(s[2]), SubSeq(s, 3, Len(s)))

\* HasVarInt and VarInt of the tag read before stay, where this tag does not set them.
TagFromReader(tag, s) ==
    IF s = <<>> THEN [status |-> "end", rest |-> s, tag |-> tag]
    ELSE IF s[1] = TxExtraTagPadding THEN ReadPadding([tag EXCEPT !.Tag = s[1]], Tail(s))
    ELSE IF s[1] = TxExtraTagPubKey THEN ReadData([tag EXCEPT !.Tag = s[1]], 1, Tail(s))
    ELSE IF s[1] \notin {TxExtraTagNonce, TxExtraTagMergeMining, TxExtraTagAdditionalPubKeys,
                         TxExtraTagMysteriousMinergate}
         THEN [status |-> "error", rest |-> <<>>, tag |-> tag]
    ELSE IF Len(s) = 1 THEN [status |-> "end", rest |-> <<>>, tag |-> tag]
    ELSE ReadData([tag EXCEPT !.Tag = s[1], !.HasVarInt = TRUE, !.VarInt = s[2]],
                  IF s[1] = TxExtraTagMergeMining THEN 1 ELSE Counted(s[2]), SubSeq(s, 3, Len(s)))

\* Tags until the end of the data, each at most once.
ExtraFromReader(s) ==
    FoldLeft(LAMBDA acc, i :
                 IF acc.status # "ok" THEN acc
                 ELSE LET r == TagFromReader(acc.last, acc.rest) IN
                      IF r.status # "ok" THEN [acc EXCEPT !.status = r.status]
                      ELSE IF \E j \in DOMAIN acc.tags : acc.tags[j].Tag = r.tag.Tag
                           THEN [acc EXCEPT !.status = "error"]
                      ELSE [status |-> "ok", tags |-> Append(acc.tags, r.tag),
                            last |-> r.tag, rest |-> r.rest],
             [status |-> "ok", tags |-> <<>>, last |-> NoTag, rest |-> s],
             [i \in 1..(Len(s) + 1) |-> i])

Tagged(tags, tag) == SelectSeq(tags, LAMBDA t : t.Tag = tag)

-----------------------------------------------------------------------------
(* Outputs and the coinbase transaction. *)

TxOutToKey == 2
TxOutToTaggedKey == 3

OutputAppend(o) ==
    <<o.Reward, o.Type, o.Key>> \o (IF o.Type = TxOutToTaggedKey THEN <<o.ViewTag>> ELSE <<>>)

OutputsAppendBinary(outputs) ==
    <<Len(outputs)>> \o FlattenSeq([i \in DOMAIN outputs |-> OutputAppend(outputs[i])])

OutputRead(s) ==
    Then(Fixed(s, 3), LAMBDA r :
        IF r.val[2] = TxOutToTaggedKey
        THEN Then(Fixed(r.rest, 1), LAMBDA v :
                 Done([Reward |-> r.val[1], Type |-> r.val[2], Key |-> r.val[3], ViewTag |-> v.val[1]], v.rest))
        ELSE IF r.val[2] = TxOutToKey
        THEN Done([Reward |-> r.val[1], Type |-> r.val[2], Key |-> r.val[3], ViewTag |-> 0], r.rest)
        ELSE Fail)

OutputsFromReader(s) == Then(Fixed(s, 1), LAMBDA n : ReadMany(OutputRead, n.val[1], n.rest))

SumRewards(outputs) == FoldLeft(LAMBDA acc, o : acc + o.Reward, 0, outputs)

\* The size FromReader computes, in tokens: type, key and view tag of every output.
OutputsSize(outputs) ==
    FoldLeft(LAMBDA acc, o : acc + (IF o.Type = TxOutToTaggedKey THEN 3 ELSE 2), 0, outputs)

TxInGen == 255
MinerRewardUnlockTime == 60

\* The part in front of the extra tags.
CoinbaseHead(c, pruned) ==
    <<2, c.GenHeight + MinerRewardUnlockTime, 1, TxInGen, c.GenHeight>> \o
    (IF pruned THEN <<0, c.TotalReward, Len(OutputsAppendBinary(c.Outputs))>>
     ELSE OutputsAppendBinary(c.Outputs))

CoinbaseAppendBinary(c, pruned) ==
    CoinbaseHead(c, pruned) \o <<Len(ExtraAppendBinary(c.Extra))>> \o ExtraAppendBinary(c.Extra) \o <<0>>

CoinbaseHashingBlob(c, zeroTemplateId) ==
    CoinbaseHead(c, FALSE) \o <<Len(ExtraAppendBinary(c.Extra))>>
        \o ExtraHashingBlob(c.Extra, zeroTemplateId) \o <<0>>

\* Without outputs the block is pruned: their sum and size stand in for them.
CoinbaseFromReader(s) ==
    Then(Fixed(s, 5), LAMBDA h :
    IF h.val[1] # 2 \/ h.val[3] # 1 \/ h.val[4] # TxInGen \/ h.val[2] # h.val[5] + MinerRewardUnlockTime
    THEN Fail
    ELSE Then(OutputsFromReader(h.rest), LAMBDA outs :
         Then(IF outs.val = <<>> THEN Fixed(outs.rest, 2)
              ELSE Done(<<SumRewards(outs.val), OutputsSize(outs.val)>>, outs.rest), LAMBDA sums :
         Then(Fixed(sums.rest, 1), LAMBDA n :
         Then(Fixed(n.rest, Counted(n.val[1])), LAMBDA blob :
         Then(Done(ExtraFromReader(blob.val), blob.rest), LAMBDA extra :
         Then(Fixed(extra.rest, 1), LAMBDA rct :
              IF extra.val.status # "end" \/ rct.val[1] # 0 THEN Fail
              ELSE Done([GenHeight |-> h.val[5], Outputs |-> outs.val, TotalReward |-> sums.val[1],
                         OutputsBlobSize |-> sums.val[2], Extra |-> extra.val.tags], rct.rest))))))))

-----------------------------------------------------------------------------
(* The Monero block. *)

HardForkSupportedVersion == 16

BlockHead(b, nonce) == <<b.MajorVersion, b.MinorVersion, b.Timestamp, b.PreviousId, nonce>>

\* In a compact block a transaction that the parent has is its index there, from one.
TransactionsAppend(b, compact) ==
    FlattenSeq([i \in DOMAIN b.Transactions |->
        IF ~compact THEN <<b.Transactions[i]>>
        ELSE IF i \in DOMAIN b.ParentIndices /\ b.ParentIndices[i] # 0 THEN <<b.ParentIndices[i]>>
             ELSE <<0, b.Transactions[i]>>])

BlockAppendBinary(b, pruned, compact) ==
    BlockHead(b, b.Nonce) \o CoinbaseAppendBinary(b.Coinbase, pruned)
        \o <<Len(b.Transactions)>> \o TransactionsAppend(b, compact)

BlockCanBeWritten(b) ==
    b.MajorVersion <= HardForkSupportedVersion /\ b.MinorVersion >= b.MajorVersion

BlockHashingBlob(b, zeroTemplateId) ==
    BlockHead(b, 0) \o CoinbaseHashingBlob(b.Coinbase, zeroTemplateId)
        \o <<Len(b.Transactions)>> \o TransactionsAppend(b, FALSE)

TransactionRead(s) == Then(Fixed(s, 1), LAMBDA r : Done([id |-> r.val[1], index |-> 0], r.rest))

CompactTransactionRead(s) ==
    Then(Fixed(s, 1), LAMBDA i :
        IF i.val[1] = 0
        THEN Then(Fixed(i.rest, 1), LAMBDA id : Done([id |-> id.val[1], index |-> 0], id.rest))
        ELSE Done([id |-> Zero, index |-> i.val[1]], i.rest))

BlockFromReader(s, compact) ==
    Then(Fixed(s, 5), LAMBDA h :
    Then(CoinbaseFromReader(h.rest), LAMBDA c :
    Then(Fixed(c.rest, 1), LAMBDA n :
    Then(IF compact THEN ReadMany(CompactTransactionRead, n.val[1], n.rest)
         ELSE ReadMany(TransactionRead, n.val[1], n.rest), LAMBDA txs :
        Done([MajorVersion |-> h.val[1], MinorVersion |-> h.val[2], Timestamp |-> h.val[3],
              PreviousId |-> h.val[4], Nonce |-> h.val[5], Coinbase |-> c.val,
              Transactions |-> [i \in DOMAIN txs.val |-> txs.val[i].id],
              ParentIndices |-> IF compact THEN [i \in DOMAIN txs.val |-> txs.val[i].index] ELSE <<>>],
             txs.rest)))))

-----------------------------------------------------------------------------
(* Side data. *)

\* Software id and version stand with the two random numbers of the extra buffer.
SideAppendBinary(d, version) ==
    <<d.Spend, d.View, IF version > 1 THEN d.KeySeed ELSE d.PrivateKey, d.Parent, Len(d.Uncles)>>
    \o d.Uncles \o <<d.Height, d.DifficultyLo, d.DifficultyHi, d.CumulativeLo, d.CumulativeHi>>
    \o (IF version > 1 THEN <<d.RandomNumber, d.ExtraNonce>> ELSE <<>>)

SideFromReader(s, version) ==
    Then(Fixed(s, 5), LAMBDA h :
    Then(Fixed(h.rest, Counted(h.val[5])), LAMBDA u :
    Then(Fixed(u.rest, 5), LAMBDA f :
    Then(IF version > 1 THEN Fixed(f.rest, 2) ELSE Done(<<0, 0>>, f.rest), LAMBDA x :
        Done([Spend |-> h.val[1], View |-> h.val[2], Parent |-> h.val[4], Uncles |-> u.val,
              KeySeed |-> IF version > 1 THEN h.val[3] ELSE Zero,
              PrivateKey |-> IF version > 1 THEN Zero ELSE h.val[3],
              Height |-> f.val[1], DifficultyLo |-> f.val[2], DifficultyHi |-> f.val[3],
              CumulativeLo |-> f.val[4], CumulativeHi |-> f.val[5],
              RandomNumber |-> x.val[1], ExtraNonce |-> x.val[2]], x.rest)))))
====
