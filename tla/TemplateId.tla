----------------------------- MODULE TemplateId ------------------------------
(***************************************************************************)
(* The template id of a share (sidechain/consensus.go): the hash of its    *)
(* two blobs, without the fields a miner changes while mining.  The state  *)
(* holds the blobs hashed so far, by template id.                          *)
(***************************************************************************)
EXTENDS ShareCodec, FiniteSets

CONSTANTS
    TxIds, MaxTxs,     \* transactions, and uncles taken from the same hashes
    Nonces, Extras,    \* nonces; data of the extra nonce tag
    Ids,               \* template ids written into a share
    MaxShares

VARIABLE hashed        \* set of <<share, blob that is hashed>>

\* Mutant: nonce, extra nonce and id are hashed.
MasksNothing(b) == BlockAppendBinary(b.Main, FALSE, FALSE) \o SideAppendBinary(b.Side, b.Version)

CalculateSideTemplateId(b) == BlockHashingBlob(b.Main, TRUE) \o SideAppendBinary(b.Side, b.Version)

Shares ==
    {[Version |-> version,
      Main |-> [MajorVersion |-> 16, MinorVersion |-> 16, Timestamp |-> version, PreviousId |-> Zero,
                Nonce |-> nonce, Transactions |-> txs, ParentIndices |-> <<>>,
                Coinbase |-> [GenHeight |-> 1, TotalReward |-> 3, OutputsBlobSize |-> 0,
                    Outputs |-> <<[Reward |-> 3, Type |-> TxOutToKey, Key |-> Zero, ViewTag |-> 0]>>,
                    Extra |-> <<[Tag |-> TxExtraTagNonce, HasVarInt |-> TRUE, VarInt |-> Len(data), Data |-> data],
                                [Tag |-> TxExtraTagMergeMining, HasVarInt |-> TRUE, VarInt |-> 32, Data |-> <<id>>]>>]],
      Side |-> [Spend |-> Zero, View |-> Zero, KeySeed |-> Zero, PrivateKey |-> Zero, Parent |-> Zero,
                Uncles |-> uncles, Height |-> 1, DifficultyLo |-> 1, DifficultyHi |-> 0,
                CumulativeLo |-> 1, CumulativeHi |-> 0, RandomNumber |-> 0, ExtraNonce |-> 0]] :
        version \in 1..2, nonce \in Nonces, txs \in BoundedSeq(TxIds, MaxTxs), data \in Extras,
        id \in Ids, uncles \in BoundedSeq(TxIds, MaxTxs)}

Init == hashed = {}

Hash ==
    /\ Cardinality(hashed) < MaxShares
    /\ \E b \in Shares : hashed' = hashed \cup {<<b, CalculateSideTemplateId(b)>>}

Next == Hash

Spec == Init /\ [][Next]_hashed

\* What a template does not fix: the nonce, the first four bytes of the extra nonce, and the id.
Template(b) ==
    <<b.Version, b.Side, b.Main.Transactions,
      [i \in 2..Len(b.Main.Coinbase.Extra[1].Data) |-> b.Main.Coinbase.Extra[1].Data[i]],
      Len(b.Main.Coinbase.Extra[1].Data)>>

\* Two shares have one template id exactly when they come from one template: nothing the miner
\* may change while mining enters the hash, and the fields of variable length (transactions,
\* uncles, extra nonce, the fields of version 2) never run into each other
\* (consensus.go:195-207, block.go:228-246, extra.go:134-153).
OneIdPerTemplate ==
    \A p, q \in hashed : p[2] = q[2] <=> Template(p[1]) = Template(q[1])
====
