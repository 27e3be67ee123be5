-------------------------- MODULE SideChainStore ---------------------------
(***************************************************************************)
(* The theorems about what SideChain keeps: the indexes of the shares,     *)
(* what pruneOldBlocks leaves, and the uncles a new share may include.     *)
(***************************************************************************)
EXTENDS SideChainProofs, PossibleUncles, WellFoundedInduction

\* The shares verifyBlock passed by their content.
Checked == Valid \ skipped

\* What verifyBlock made sure of: the parent of such a share is valid and one height below it,
\* and a genesis block has none.
CheckedParents ==
  \A b \in Checked :
    IF Height[b] = 0 THEN Parent[b] = NoBlock
    ELSE Parent[b] \in Valid /\ Height[Parent[b]] + 1 = Height[b]

\* Only shares that were added are verified, and only deep ones without a look.
VerifyList == blocksToVerify \in Seq(EverAdded)
VerifiedAdded == Verified \subseteq EverAdded
SkippedDeep == \A b \in skipped : Height[b] # 0 /\ Depth[b] >= ChainWindowSize

\* The tip is a share verifyBlock passed by its content.
TipChecked == chainTip # NoBlock => chainTip \in Checked

\* A pruned share is below one that is still there and could once have been the tip.
Outlives(c, b) == Height[c] >= Height[b] + PruneDistance
PrunedBelow == \A b \in pruned : \E c \in blocksByTemplateId \cap Checked : Outlives(c, b)

\* The part of IndexesAgree that holds throughout pruneOldBlocks.
Indexed ==
  /\ \A b \in Blocks : b \in blocksByTemplateId <=> b \in Range(blocksByHeight[Height[b]])
  /\ \A h \in Heights :
       /\ IsInjective(blocksByHeight[h])
       /\ \A b \in Range(blocksByHeight[h]) : Height[b] = h
       /\ blocksByHeight[h] # <<>> => h \in blocksByHeightKeys

\* Only the key the inner loop of pruneOldBlocks is at may have lost its shares.
KeysLive ==
  \A h \in blocksByHeightKeys :
    blocksByHeight[h] = <<>> => pc = "pruneHeight" /\ h = pruneKey

\* The outer loop has looked at no key above its limit.
PruneLimit ==
  /\ pc \in {"prune", "pruneHeight"}
       => /\ chainTip # NoBlock /\ Height[chainTip] >= PruneDistance
          /\ pruneFrom <= Height[chainTip] - PruneDistance + 1
  /\ pc = "pruneHeight" => pruneKey \in blocksByHeightKeys /\ PruneTo(pruneKey)

\* The inductive invariant.
StoreInv ==
  /\ Indexed /\ KeysLive
  /\ CheckedParents /\ VerifyList /\ VerifiedAdded /\ SkippedDeep /\ TipChecked
  /\ PrunedBelow /\ PruneLimit
-----------------------------------------------------------------------------
(***************************************************************************)
(* Lists without repetition.                                               *)
(***************************************************************************)

\* append(list, b) of a share that is not in the list.
LEMMA AppendFresh ==
  ASSUME NEW S, NEW s \in Seq(S), NEW b \in S, IsInjective(s), b \notin Range(s)
  PROVE  /\ IsInjective(Append(s, b)) /\ Append(s, b) # <<>>
         /\ Range(Append(s, b)) = Range(s) \cup {b}
<1> DEFINE t == Append(s, b)
<1>1. /\ t \in Seq(S) /\ Len(t) = Len(s) + 1 /\ Len(s) \in Nat
      /\ t[Len(s) + 1] = b /\ \A i \in 1 .. Len(s) : t[i] = s[i]
      /\ DOMAIN t = 1 .. Len(s) + 1 /\ DOMAIN s = 1 .. Len(s)
  OBVIOUS
<1> HIDE DEF t
<1>2. IsInjective(t)
  BY <1>1 DEF IsInjective, Range
<1>3. Range(t) = Range(s) \cup {b}
  BY <1>1 DEF Range
<1>4. t # <<>>
  BY <1>1
<1> QED
  BY <1>2, <1>3, <1>4, Zenon DEF t

\* slices.Delete(list, i, i + 1) takes one share out of the list.
LEMMA DeleteFrom ==
  ASSUME NEW S, NEW s \in Seq(S), NEW i \in 1 .. Len(s), IsInjective(s)
  PROVE  LET t == SubSeq(s, 1, i - 1) \o SubSeq(s, i + 1, Len(s))
         IN  IsInjective(t) /\ Range(t) = Range(s) \ {s[i]}
<1> DEFINE l == SubSeq(s, 1, i - 1)
           r == SubSeq(s, i + 1, Len(s))
           t == l \o r
           n == Len(s)
<1>1. /\ l \in Seq(S) /\ Len(l) = i - 1 /\ n \in Nat /\ i \in 1 .. n
      /\ \A j \in 1 .. i - 1 : l[j] = s[j]
  OBVIOUS
<1>2. /\ r \in Seq(S) /\ Len(r) = n - i
      /\ \A j \in 1 .. n - i : r[j] = s[i + j]
  OBVIOUS
<1> HIDE DEF l, r, n
<1>3. /\ DOMAIN t = 1 .. n - 1
      /\ \A j \in 1 .. n - 1 : t[j] = IF j < i THEN l[j] ELSE r[j - i + 1]
  BY <1>1, <1>2
<1>4. \A j \in 1 .. n - 1 : /\ j < i => t[j] = s[j] /\ j \in 1 .. n
                            /\ j >= i => t[j] = s[j + 1] /\ j + 1 \in 1 .. n
  <2>1. ASSUME NEW j \in 1 .. n - 1, j < i PROVE t[j] = s[j] /\ j \in 1 .. n
    BY <1>1, <1>3, <2>1
  <2>2. ASSUME NEW j \in 1 .. n - 1, j >= i PROVE t[j] = s[j + 1] /\ j + 1 \in 1 .. n
    <3>1. t[j] = r[j - i + 1] /\ j - i + 1 \in 1 .. n - i /\ j + 1 \in 1 .. n
      BY <1>1, <1>3, <2>2
    <3>2. r[j - i + 1] = s[i + (j - i + 1)] /\ i + (j - i + 1) = j + 1
      BY <1>1, <1>2, <3>1
    <3> QED
      BY <3>1, <3>2, Zenon
  <2> QED
    BY <2>1, <2>2, Zenon
<1>5. DOMAIN s = 1 .. n
  BY DEF n
<1> HIDE DEF t
<1>a. \A j \in 1 .. n, k \in 1 .. n : s[j] = s[k] => j = k
  BY <1>5, Zenon DEF IsInjective
<1>6. IsInjective(t)
  <2>1. ASSUME NEW j \in 1 .. n - 1, NEW k \in 1 .. n - 1, t[j] = t[k] PROVE j = k
    <3> DEFINE At(m) == IF m < i THEN m ELSE m + 1
    <3>1. At(j) \in 1 .. n /\ t[j] = s[At(j)] /\ At(k) \in 1 .. n /\ t[k] = s[At(k)]
      BY <1>4
    <3> HIDE DEF At
    <3>2. At(j) = At(k)
      BY <1>a, <2>1, <3>1, Zenon
    <3> QED
      BY <1>1, <3>2 DEF At
  <2> QED
    BY <1>3, <2>1, Zenon DEF IsInjective
<1>7. ASSUME NEW x \in Range(t) PROVE x \in Range(s) \ {s[i]}
  <2>1. PICK j \in 1 .. n - 1 : x = t[j]
    BY <1>3, Zenon DEF Range
  <2>2. PICK k \in 1 .. n : x = s[k] /\ k # i
    BY <1>1, <1>4, <2>1
  <2> QED
    BY <1>1, <1>5, <1>a, <2>2, Zenon DEF Range
<1>8. ASSUME NEW x \in Range(s) \ {s[i]} PROVE x \in Range(t)
  <2>1. PICK j \in 1 .. n : x = s[j] /\ j # i
    BY <1>5, Zenon DEF Range
  <2>2. CASE j < i
    <3>1. j \in 1 .. n - 1 /\ t[j] = s[j]
      BY <1>1, <1>4, <2>1, <2>2
    <3> QED
      BY <1>3, <2>1, <3>1, Zenon DEF Range
  <2>3. CASE j > i
    <3>1. j - 1 \in 1 .. n - 1 /\ t[j - 1] = s[j]
      BY <1>1, <1>4, <2>1, <2>3
    <3> QED
      BY <1>3, <2>1, <3>1, Zenon DEF Range
  <2> QED
    BY <1>1, <2>1, <2>2, <2>3
<1> QED
  BY <1>6, <1>7, <1>8, Zenon DEF t, l, r, n
-----------------------------------------------------------------------------
(***************************************************************************)
(* The indexes.                                                            *)
(***************************************************************************)

\* The steps that change an index, or come to or leave a height in pruneOldBlocks.
LEMMA StoreEffects ==
  ASSUME TypeOK, Next
  PROVE  \/ \E b \in Blocks : AddPoolBlock(b)
         \/ \E k \in Heights : PruneHeight(k)
         \/ PruneBlock \/ PruneHeightDone
         \/ UNCHANGED store /\ pc # "pruneHeight" /\ pc' # "pruneHeight"
         \/ UNCHANGED <<store, pruning, pc>>
<1>0. ret \in {"propagate", "done"}
  BY Zenon DEF TypeOK, VerifyTypes
<1>1. ASSUME NEW b \in Blocks,
             \/ AddPoolBlock(b) \/ Receive(b) \/ Reject(b) \/ PowError(b) \/ Admit(b)
             \/ AddPoolBlockAgain(b) \/ Expire(b) \/ WatchMainChainBlock(b)
      PROVE  AddPoolBlock(b) \/ UNCHANGED <<store, pruning, pc>>
  BY <1>1, Zenon DEF Receive, Reject, PowError, Admit, AddPoolBlockAgain, Expire,
                     WatchMainChainBlock
<1>2. ASSUME AfterDepths \/ UpdateDepths \/ Done
      PROVE  UNCHANGED store /\ pc # "pruneHeight" /\ pc' # "pruneHeight"
  BY <1>2, ZenonT(60) DEF AfterDepths, UpdateDepths, Done, InitDepth, InitDepthDone, VisitBlock,
     VisitDone, Propagate, PropagateChild, PropagateParent, PropagateUncle, PropagateDone
<1>3. ASSUME VerifyLoop
      PROVE  UNCHANGED store /\ pc = "verify" /\ pc' \in {"verify", "tip", ret}
  BY <1>3, ZenonT(60) DEF VerifyLoop, SkipVerified, VerifyDone, VerifyPending, VerifyInvalid,
     VerifyOk, Verifying
<1>4. ASSUME UpdateChainTip
      PROVE  UNCHANGED store /\ pc \in {"tip", "broadcast"} /\ pc' \in {"prune", "broadcast", ret}
  BY <1>4, ZenonT(60) DEF UpdateChainTip, IgnoreTip, AdoptTip, KeepTip, BroadcastTip
<1>5. ASSUME PruneDone
      PROVE  UNCHANGED store /\ pc # "pruneHeight" /\ pc' # "pruneHeight"
  BY <1>5, ZenonT(60) DEF PruneDone
<1>6. ASSUME VerifyLoop \/ UpdateChainTip
      PROVE  UNCHANGED store /\ pc # "pruneHeight" /\ pc' # "pruneHeight"
  BY <1>0, <1>3, <1>4, <1>6, Zenon
<1> QED
  BY <1>1, <1>2, <1>5, <1>6, ZenonT(60) DEF Next, LockHolder, PruneOldBlocks

\* Every share has its height among the heights.
LEMMA HeightOf ==
  ASSUME NEW b \in Blocks
  PROVE  /\ Height[b] \in Heights /\ Height[b] \in Nat
         /\ AtHeight(Height[b]) = blocksByHeight[Height[b]]
         /\ AtHeight(Height[b])' = blocksByHeight'[Height[b]]
BY BlocksAssumption, Zenon DEF BlocksAssumption, Heights, AtHeight

\* AddPoolBlock enters a new share in every index, pruneOldBlocks takes it out of every one,
\* and the key of a height goes with its last share.
LEMMA IndexedStep ==
  ASSUME IInv, StoreInv, Next
  PROVE  Indexed' /\ KeysLive'
<1>0. /\ TypeOK /\ Indexed /\ KeysLive
      /\ blocksByHeight \in [Heights -> Seq(Blocks)] /\ blocksByHeightKeys \subseteq Heights
  BY Zenon DEF IInv, StoreInv, TypeOK, StoreTypes
<1>1. ASSUME NEW b \in Blocks, AddPoolBlock(b)
      PROVE  Indexed' /\ KeysLive'
  <2> DEFINE list == blocksByHeight[Height[b]]
             more == Append(list, b)
  <2>1. /\ blocksByTemplateId' = blocksByTemplateId \cup {b} /\ b \notin blocksByTemplateId
        /\ blocksByHeight' = [blocksByHeight EXCEPT ![Height[b]] = more]
        /\ blocksByHeightKeys' = blocksByHeightKeys \cup {Height[b]}
        /\ pc = "free"
    BY <1>1, Zenon DEF AddPoolBlock
  <2>2. Height[b] \in Heights /\ list \in Seq(Blocks) /\ IsInjective(list) /\ b \notin Range(list)
    BY <1>0, <2>1, HeightOf, Zenon DEF Indexed
  <2>3. IsInjective(more) /\ more # <<>> /\ Range(more) = Range(list) \cup {b}
    BY <2>2, AppendFresh
  <2> HIDE DEF more
  <2>4. \A h \in Heights : blocksByHeight'[h] = IF h = Height[b] THEN more ELSE blocksByHeight[h]
    BY <1>0, <2>1, Zenon
  <2>5. Indexed'
    BY <1>0, <2>1, <2>2, <2>3, <2>4, HeightOf DEF Indexed
  <2>6. KeysLive'
    BY <1>0, <2>1, <2>2, <2>3, <2>4, Zenon DEF KeysLive
  <2> QED
    BY <2>5, <2>6, Zenon
<1>2. ASSUME NEW k \in Heights, PruneHeight(k)
      PROVE  Indexed' /\ KeysLive'
  BY <1>0, <1>2, Zenon DEF PruneHeight, Indexed, KeysLive, store
<1>3. CASE PruneBlock
  <2>1. pruneKey \in Heights /\ pruneIndex \in 1 .. Len(blocksByHeight[pruneKey])
    BY <1>0, <1>3, PruneAt, Zenon DEF IInv
  <2>2. PICK k \in Heights : k = pruneKey
    BY <2>1, Zenon
  <2> DEFINE list == blocksByHeight[k]
             b == list[pruneIndex]
             rest == SubSeq(list, 1, pruneIndex - 1) \o SubSeq(list, pruneIndex + 1, Len(list))
  <2>3. list \in Seq(Blocks) /\ IsInjective(list) /\ b \in Blocks /\ b \in Range(list)
    BY <1>0, <2>1, <2>2 DEF Indexed, Range
  <2>4. IsInjective(rest) /\ Range(rest) = Range(list) \ {b} /\ Height[b] = k
    BY <1>0, <2>1, <2>2, <2>3, DeleteFrom, Zenon DEF Indexed
  <2>5. /\ \/ UNCHANGED <<blocksByTemplateId, blocksByHeight>>
           \/ /\ blocksByTemplateId' = blocksByTemplateId \ {b}
              /\ blocksByHeight' = [blocksByHeight EXCEPT ![k] = rest]
        /\ UNCHANGED <<blocksByHeightKeys, pc, pruneKey>> /\ pc = "pruneHeight"
    BY <1>3, <2>2, Zenon DEF PruneBlock
  <2> HIDE DEF b, rest
  <2>6. CASE UNCHANGED <<blocksByTemplateId, blocksByHeight>>
    BY <1>0, <2>5, <2>6, Zenon DEF Indexed, KeysLive
  <2>7. CASE /\ blocksByTemplateId' = blocksByTemplateId \ {b}
             /\ blocksByHeight' = [blocksByHeight EXCEPT ![k] = rest]
    <3>1. \A h \in Heights : blocksByHeight'[h] = IF h = k THEN rest ELSE blocksByHeight[h]
      BY <1>0, <2>7, Zenon
    <3>2. Indexed'
      <4>1. list # <<>>
        BY <2>3 DEF Range
      <4> QED
        BY <1>0, <2>3, <2>4, <2>5, <2>7, <3>1, <4>1, HeightOf DEF Indexed
    <3>3. KeysLive'
      BY <1>0, <2>2, <2>5, <3>1, Zenon DEF KeysLive
    <3> QED
      BY <3>2, <3>3, Zenon
  <2> QED
    BY <2>5, <2>6, <2>7, Zenon
<1>4. CASE PruneHeightDone
  <2>1. /\ UNCHANGED <<blocksByTemplateId, blocksByHeight>>
        /\ blocksByHeightKeys' = IF blocksByHeight[pruneKey] = <<>>
                                 THEN blocksByHeightKeys \ {pruneKey} ELSE blocksByHeightKeys
    BY <1>4, Zenon DEF PruneHeightDone
  <2> QED
    BY <1>0, <2>1, Zenon DEF Indexed, KeysLive
<1>5. CASE UNCHANGED store /\ pc # "pruneHeight" /\ pc' # "pruneHeight"
  BY <1>0, <1>5, Zenon DEF Indexed, KeysLive, store
<1>6. CASE UNCHANGED <<store, pruning, pc>>
  BY <1>0, <1>6, Zenon DEF Indexed, KeysLive, store, pruning
<1> QED
  BY <1>0, <1>1, <1>2, <1>3, <1>4, <1>5, <1>6, StoreEffects, Zenon
-----------------------------------------------------------------------------
(***************************************************************************)
(* Verified shares and the tip.                                            *)
(***************************************************************************)

\* The work list of verifyLoop holds shares that were added: the new one, one whose depth
\* changed, and those listed above a verified one.
LEMMA VerifyListStep ==
  ASSUME IInv, StoreInv, Next
  PROVE  VerifyList'
<1>0. /\ EverAdded \subseteq EverAdded' /\ EverAdded \subseteq Blocks
      /\ TypeOK /\ Lists /\ Control
      /\ blocksToVerify \in Seq(EverAdded)
      /\ blocksToVerify \in Seq(EverAdded')
      /\ blocksToUpdate \in Seq(EverAdded)
  BY Grow, Reached, SeqMono, Zenon DEF IInv, StoreInv, VerifyList, Lists, UpdateList
<1>1. CASE AfterDepths
  <2>1. adding \in EverAdded'
    BY <1>0, <1>1, Zenon DEF AfterDepths, Control
  <2>2. blocksToVerify' \in {blocksToVerify, <<adding>>}
    BY <1>1, Zenon DEF AfterDepths
  <2>3. <<adding>> \in Seq(EverAdded')
    BY <2>1
  <2> QED
    BY <1>0, <2>2, <2>3, Zenon DEF VerifyList
<1>2. CASE VisitBlock
  <2>1. Top(blocksToUpdate) \in EverAdded'
    BY <1>0, <1>2, Pop, Zenon DEF VisitBlock
  <2>2. blocksToVerify' \in {blocksToVerify, <<Top(blocksToUpdate)>>}
    BY <1>2, Zenon DEF VisitBlock, verifying
  <2> QED
    BY <1>0, <2>1, <2>2 DEF VerifyList
<1>3. ASSUME blocksToVerify # <<>>
      PROVE  Rest(blocksToVerify) \in Seq(EverAdded')
  BY <1>0, <1>3, Pop, Zenon
<1>4. CASE SkipVerified \/ \E b \in Blocks : VerifyPending(b) \/ VerifyInvalid(b)
  <2>1. blocksToVerify # <<>> /\ blocksToVerify' = Rest(blocksToVerify)
    BY <1>4, SMTT(60) DEF SkipVerified, VerifyPending, VerifyInvalid, Verifying, PopVerify
  <2> QED
    BY <1>3, <2>1, Zenon DEF VerifyList
<1>5. ASSUME NEW b \in Blocks, VerifyOk(b)
      PROVE  VerifyList'
  <2>1. blocksToVerify # <<>> /\ blocksToVerify' = Rest(blocksToVerify) \o Above(b)
    BY <1>5, Zenon DEF VerifyOk, Verifying
  <2>2. Above(b) \in Seq(StoredAbove(b))
    BY <1>0, AboveBlocks, Zenon
  <2>3. StoredAbove(b) \subseteq EverAdded'
    BY <1>0, Zenon DEF StoredAbove
  <2>4. Above(b) \in Seq(EverAdded')
    BY <2>2, <2>3, SeqMono, Zenon
  <2>5. Rest(blocksToVerify) \o Above(b) \in Seq(EverAdded')
    BY <1>3, <2>1, <2>4
  <2> QED
    BY <2>1, <2>5, Zenon DEF VerifyList
<1>6. CASE UNCHANGED blocksToVerify
  BY <1>0, <1>6, Zenon DEF VerifyList
<1>7. \/ AfterDepths \/ VisitBlock \/ SkipVerified
      \/ \E b \in Blocks : VerifyPending(b) \/ VerifyInvalid(b) \/ VerifyOk(b)
      \/ UNCHANGED blocksToVerify
  BY ZenonT(60) DEF verifying, Next, LockHolder, UpdateDepths, VerifyLoop, UpdateChainTip,
     PruneOldBlocks, Receive, Reject, PowError, Admit, AddPoolBlock, AddPoolBlockAgain, Expire,
     WatchMainChainBlock, Done, InitDepth, InitDepthDone, VisitDone, Propagate, PropagateChild,
     PropagateParent, PropagateUncle, PropagateDone, VerifyDone, IgnoreTip, AdoptTip, KeepTip,
     BroadcastTip, PruneHeight, PruneBlock, PruneHeightDone, PruneDone
<1> QED
  BY <1>1, <1>2, <1>4, <1>5, <1>6, <1>7, Zenon

\* What verifyBlock has checked of a share it passes, if it is not a deep one.
LEMMA OkChecked ==
  ASSUME NEW b \in Blocks, NEW m, VerifyBlock(b, m) = "ok"
  PROVE  /\ Height[b] = 0 => Parent[b] = NoBlock
         /\ Height[b] # 0 /\ ~DeepBlock(b)
              => Parent[b] \in Valid /\ Height[Parent[b]] + 1 = Height[b]
<1>1. Height[b] = 0 => Parent[b] = NoBlock
  BY Zenon DEF VerifyBlock, GenesisVerdict
<1>2. Height[b] # 0 /\ ~DeepBlock(b)
        => Parent[b] \in Valid /\ Height[Parent[b]] + 1 = Height[b]
  BY Zenon DEF VerifyBlock, Valid
<1> QED
  BY <1>1, <1>2, Zenon

\* A verdict comes with the facts it was given for, and they stay.
LEMMA CheckedStep ==
  ASSUME IInv, StoreInv, Next
  PROVE  /\ Checked \subseteq Checked'
         /\ CheckedParents' /\ VerifiedAdded' /\ SkippedDeep'
<1>0. /\ TypeOK /\ CheckedParents /\ VerifiedAdded /\ SkippedDeep /\ Valid \subseteq Valid'
      /\ EverAdded \subseteq EverAdded' /\ Invalid \subseteq Verified
      /\ \A b \in Blocks : Depth'[b] >= Depth[b]
      /\ Depth \in [Blocks -> Nat] /\ skipped \subseteq Blocks
  BY VerdictStep, Grow, DepthStep, Zenon DEF IInv, StoreInv, TypeOK, FlagTypes
<1>d. Depth' \in [Blocks -> Nat]
  BY TypeStep, Zenon DEF TypeOK
<1>w. ChainWindowSize \in Nat \ {0}
  BY ConsensusAssumption, Zenon DEF ConsensusAssumption
<1>s. \A b \in skipped : Height[b] # 0 /\ Depth'[b] >= ChainWindowSize
  BY <1>0, <1>d, <1>w DEF SkippedDeep
<1>1. CASE UNCHANGED <<Verified, Invalid, skipped>>
  <2>1. Checked' = Checked /\ Valid' = Valid
    BY <1>1, Zenon DEF Checked, Valid
  <2> QED
    BY <1>0, <1>1, <1>s, <2>1, Zenon DEF CheckedParents, VerifiedAdded, SkippedDeep
<1>2. ASSUME NEW b \in Blocks, VerifyInvalid(b)
      PROVE  /\ Checked \subseteq Checked'
             /\ CheckedParents' /\ VerifiedAdded' /\ SkippedDeep'
  <2>1. /\ b \in EverAdded /\ b \notin Verified
        /\ Verified' = Verified \cup {b} /\ Invalid' = Invalid \cup {b} /\ skipped' = skipped
    BY <1>2, Pop, Zenon DEF VerifyInvalid, Verifying, StoreInv, VerifyList
  <2>2. Checked' = Checked
    BY <2>1, Zenon DEF Checked, Valid
  <2> QED
    BY <1>0, <1>s, <2>1, <2>2, Zenon DEF CheckedParents, VerifiedAdded, SkippedDeep
<1>3. ASSUME NEW b \in Blocks, VerifyOk(b)
      PROVE  /\ Checked \subseteq Checked'
             /\ CheckedParents' /\ VerifiedAdded' /\ SkippedDeep'
  <2>1. /\ b \in EverAdded /\ b \notin Verified
        /\ Verified' = Verified \cup {b} /\ Invalid' = Invalid
        /\ Depth' = Depth
        /\ skipped' = IF Height[b] # 0 /\ DeepBlock(b) THEN skipped \cup {b} ELSE skipped
    BY <1>3, Pop, Zenon DEF VerifyOk, Verifying, StoreInv, VerifyList
  <2>2. PICK m \in MainDifficultyAnswers : VerifyBlock(b, m) = "ok"
    BY <1>3, Zenon DEF VerifyOk, Verifying
  <2>3. /\ Height[b] = 0 => Parent[b] = NoBlock
        /\ Height[b] # 0 /\ ~DeepBlock(b)
             => Parent[b] \in Valid /\ Height[Parent[b]] + 1 = Height[b]
    BY <2>2, OkChecked, Zenon
  <2>4. /\ Checked \subseteq Checked'
        /\ Checked' \subseteq Checked \cup {b}
        /\ b \in Checked' => Height[b] = 0 \/ ~DeepBlock(b)
    BY <1>0, <2>1, Zenon DEF Checked, Valid
  <2>5. CheckedParents'
    BY <1>0, <2>3, <2>4, Zenon DEF CheckedParents
  <2>6. DeepBlock(b) => Depth[b] >= ChainWindowSize
    BY <1>0, <1>w DEF DeepBlock, UncleBlockDepth
  <2>7. SkippedDeep'
    BY <1>s, <2>1, <2>6, Zenon DEF SkippedDeep
  <2>8. VerifiedAdded'
    BY <1>0, <2>1, Zenon DEF VerifiedAdded
  <2> QED
    BY <2>4, <2>5, <2>7, <2>8, Zenon
<1> QED
  BY <1>0, <1>1, <1>2, <1>3, Effects, Zenon

\* updateChainTip takes only shares verifyBlock passed by their content.
LEMMA TipCheckedStep ==
  ASSUME IInv, StoreInv, Next
  PROVE  TipChecked'
<1>0. TypeOK /\ TipChecked /\ SkippedDeep /\ Checked \subseteq Checked'
  BY CheckedStep, Zenon DEF IInv, StoreInv
<1>1. CASE UNCHANGED chainTip
  BY <1>0, <1>1, Zenon DEF TipChecked
<1>2. CASE AdoptTip
  <2>1. ~TipIgnored(highestBlock) /\ chainTip' = highestBlock
    BY <1>2, Zenon DEF AdoptTip
  <2>2. highestBlock \in Valid /\ ~(Depth[highestBlock] >= ChainWindowSize)
    BY <2>1, Zenon DEF TipIgnored, Valid
  <2>3. highestBlock \in Checked
    BY <1>0, <2>2, Zenon DEF Checked, SkippedDeep
  <2> QED
    BY <1>0, <2>1, <2>3, Zenon DEF TipChecked
<1> QED
  BY <1>0, <1>1, <1>2, Effects, Zenon
-----------------------------------------------------------------------------
(***************************************************************************)
(* What pruneOldBlocks leaves.                                             *)
(***************************************************************************)

\* The distance kept under the tip is more than two shares.
LEMMA Distance == PruneDistance \in Nat /\ PruneDistance > 2
BY ConsensusAssumption DEF ConsensusAssumption, PruneDistance

\* The tip, or a share that outlived it, is there and was checked.
LEMMA TipOrHigher ==
  ASSUME IInv, StoreInv, chainTip # NoBlock
  PROVE  \E c \in blocksByTemplateId \cap Checked : Height[c] >= Height[chainTip]
<1>0. chainTip \in Checked /\ chainTip \in EverAdded
  BY Zenon DEF StoreInv, TipChecked, VerifiedAdded, Checked, Valid
<1>1. \A c \in EverAdded : c \in Blocks /\ Height[c] \in Nat
  BY Reached, HeightOf, Zenon DEF IInv
<1>2. CASE chainTip \in blocksByTemplateId
  BY <1>0, <1>1, <1>2
<1>3. CASE chainTip \in pruned
  <2>1. PICK c \in blocksByTemplateId \cap Checked : Height[c] >= Height[chainTip] + PruneDistance
    BY <1>3, Zenon DEF StoreInv, PrunedBelow, Outlives
  <2>2. Height[c] \in Nat /\ Height[chainTip] \in Nat
    BY <1>0, <1>1, Zenon DEF EverAdded
  <2> QED
    BY <2>1, <2>2, Distance
<1> QED
  BY <1>0, <1>2, <1>3, Zenon DEF EverAdded

\* pruneOldBlocks removes nothing that is not far below a checked share it keeps.
LEMMA PrunedBelowStep ==
  ASSUME IInv, StoreInv, Next
  PROVE  PrunedBelow'
<1>0. /\ TypeOK /\ Control /\ PrunedBelow /\ Checked \subseteq Checked'
      /\ blocksByHeight \in [Heights -> Seq(Blocks)] /\ Indexed
      /\ \A c \in EverAdded : c \in Blocks /\ Height[c] \in Nat
  BY CheckedStep, Reached, HeightOf, Zenon DEF IInv, StoreInv, TypeOK, StoreTypes
<1>1. CASE UNCHANGED <<blocksByTemplateId, blocksByHeight, pruned>>
  BY <1>0, <1>1, Zenon DEF PrunedBelow, Outlives
<1>2. ASSUME NEW b \in Blocks, AddPoolBlock(b)
      PROVE  PrunedBelow'
  <2>1. blocksByTemplateId \subseteq blocksByTemplateId' /\ pruned' = pruned
    BY <1>2, Zenon DEF AddPoolBlock
  <2> QED
    BY <1>0, <2>1, Zenon DEF PrunedBelow, Outlives
<1>3. CASE PruneBlock
  <2> DEFINE b == blocksByHeight[pruneKey][pruneIndex]
  <2>1. pruneKey \in Heights /\ pruneIndex \in 1 .. Len(blocksByHeight[pruneKey])
    BY <1>0, <1>3, PruneAt, Zenon
  <2>2. b \in Range(blocksByHeight[pruneKey])
    BY <1>0, <2>1 DEF Range
  <2>3. b \in blocksByTemplateId /\ Height[b] = pruneKey /\ b \in Blocks
    BY <1>0, <2>1, <2>2 DEF Indexed
  <2>4. \/ UNCHANGED <<blocksByTemplateId, pruned>>
        \/ blocksByTemplateId' = blocksByTemplateId \ {b} /\ pruned' = pruned \cup {b}
    BY <1>3, Zenon DEF PruneBlock
  <2>5. pc = "pruneHeight"
    BY <1>3, Zenon DEF PruneBlock
  <2> HIDE DEF b
  <2>6. chainTip # NoBlock /\ pruneKey <= Height[chainTip] - PruneDistance
    BY <2>5, Zenon DEF StoreInv, PruneLimit, PruneTo
  <2>7. PICK top \in blocksByTemplateId \cap Checked : Height[top] >= Height[chainTip]
    BY <2>6, TipOrHigher, Zenon
  <2>8. /\ Height[top] \in Nat /\ Height[b] \in Nat
        /\ chainTip \in Blocks /\ Height[chainTip] \in Nat
    BY <1>0, <2>3, <2>6, HeightOf, Zenon DEF EverAdded, TypeOK, TipTypes
  <2>9. Height[top] >= Height[b] + PruneDistance /\ top # b
    BY <2>3, <2>6, <2>7, <2>8, Distance
  <2>10. CASE UNCHANGED <<blocksByTemplateId, pruned>>
    BY <1>0, <2>10, Zenon DEF PrunedBelow, Outlives
  <2>11. CASE blocksByTemplateId' = blocksByTemplateId \ {b} /\ pruned' = pruned \cup {b}
    <3>1. top \in (blocksByTemplateId \cap Checked)'
      BY <1>0, <2>7, <2>9, <2>11, Zenon
    <3>2. ASSUME NEW p \in pruned
          PROVE  \E c \in (blocksByTemplateId \cap Checked)' : Outlives(c, p)
      <4>1. PICK c \in blocksByTemplateId \cap Checked : Height[c] >= Height[p] + PruneDistance
        BY <1>0, Zenon DEF PrunedBelow, Outlives
      <4>2. CASE c = b
        <5>1. Height[p] \in Nat
          BY <1>0, Zenon DEF EverAdded
        <5>2. Height[top] >= Height[p] + PruneDistance
          BY <2>8, <2>9, <4>1, <4>2, <5>1, Distance
        <5> QED
          BY <3>1, <5>2, Zenon DEF Outlives
      <4>3. CASE c # b
        <5>1. c \in (blocksByTemplateId \cap Checked)'
          BY <1>0, <2>11, <4>1, <4>3, Zenon
        <5> QED
          BY <4>1, <5>1, Zenon DEF Outlives
      <4> QED
        BY <4>2, <4>3, Zenon
    <3> QED
      BY <2>9, <2>11, <3>1, <3>2, Zenon DEF PrunedBelow, Outlives
  <2> QED
    BY <2>4, <2>10, <2>11, Zenon
<1> QED
  BY <1>0, <1>1, <1>2, <1>3, Effects, Zenon

\* The loop over the keys stops at the first one above its limit.
LEMMA PruneLimitStep ==
  ASSUME IInv, StoreInv, Next
  PROVE  PruneLimit'
<1>0. TypeOK /\ PruneLimit /\ Control /\ Heights \subseteq Nat
  BY HeightOf, Zenon DEF IInv, StoreInv, Heights
<1>1. CASE AdoptTip
  <2>1. pc' \in {"prune", "broadcast"} /\ chainTip' = highestBlock /\ highestBlock \in Blocks
    BY <1>0, <1>1, ZenonT(60) DEF AdoptTip, Control
  <2>2. pc' = "prune" => Height[highestBlock] >= PruneDistance /\ pruneFrom' = 0
    BY <1>1, ZenonT(60) DEF AdoptTip
  <2>3. Height[highestBlock] \in Nat /\ highestBlock # NoBlock
    BY <2>1, HeightOf, BlocksAssumption, Zenon DEF BlocksAssumption
  <2> QED
    BY <2>1, <2>2, <2>3, Distance DEF PruneLimit
<1>2. ASSUME NEW k \in Heights, PruneHeight(k)
      PROVE  PruneLimit'
  <2>1. /\ pc = "prune" /\ pc' = "pruneHeight" /\ pruneKey' = k
        /\ k \in blocksByHeightKeys /\ PruneTo(k)
        /\ UNCHANGED <<chainTip, pruneFrom, blocksByHeightKeys>>
    BY <1>2, Zenon DEF PruneHeight, NextKey, tips, store
  <2> QED
    BY <1>0, <2>1, Zenon DEF PruneLimit, PruneTo
<1>3. CASE PruneBlock
  <2>1. UNCHANGED <<chainTip, pruneFrom, pruneKey, blocksByHeightKeys, pc>>
    BY <1>3, Zenon DEF PruneBlock, tips
  <2> QED
    BY <1>0, <2>1, Zenon DEF PruneLimit, PruneTo
<1>4. CASE PruneHeightDone
  <2>1. /\ pc = "pruneHeight" /\ pc' = "prune" /\ pruneFrom' = pruneKey + 1 /\ chainTip' = chainTip
    BY <1>4, Zenon DEF PruneHeightDone, tips
  <2>2. /\ chainTip # NoBlock /\ Height[chainTip] >= PruneDistance /\ pruneKey \in Nat
        /\ pruneKey <= Height[chainTip] - PruneDistance
    BY <1>0, <2>1, Zenon DEF PruneLimit, PruneTo, Control
  <2>3. Height[chainTip] \in Nat
    BY <2>2, HeightOf, <1>0, Zenon DEF TypeOK, TipTypes
  <2> QED
    BY <2>1, <2>2, <2>3, Distance DEF PruneLimit
<1>5. CASE UNCHANGED <<store, tips, pruning, pc>>
  BY <1>0, <1>5, Zenon DEF PruneLimit, PruneTo, store, tips, pruning
<1>6. CASE pc' \notin {"prune", "pruneHeight"}
  BY <1>6, Zenon DEF PruneLimit
<1>7. \/ AdoptTip \/ PruneBlock \/ PruneHeightDone \/ \E k \in Heights : PruneHeight(k)
      \/ UNCHANGED <<store, tips, pruning, pc>>
      \/ pc' \notin {"prune", "pruneHeight"}
  <2>0. ret \in {"propagate", "done"}
    BY <1>0, Zenon DEF TypeOK, VerifyTypes
  <2>1. \/ AdoptTip \/ PruneBlock \/ PruneHeightDone \/ \E k \in Heights : PruneHeight(k)
        \/ UNCHANGED <<store, tips, pruning, pc>>
        \/ pc' \in {"free", "initDepth", "visit", "propagate", "children", "uncles", "added",
                    "verify", "tip", "broadcast", "done", ret}
    BY ZenonT(60) DEF Next, LockHolder, UpdateDepths, VerifyLoop, UpdateChainTip,
     PruneOldBlocks, Receive, Reject, PowError, Admit, AddPoolBlock, AddPoolBlockAgain, Expire,
     WatchMainChainBlock, AfterDepths, Done, InitDepth, InitDepthDone, VisitBlock, VisitDone,
     Propagate, PropagateChild, PropagateParent, PropagateUncle, PropagateDone, SkipVerified,
     VerifyPending, VerifyInvalid, VerifyOk, Verifying, VerifyDone, IgnoreTip, KeepTip,
     BroadcastTip, PruneDone
  <2> QED
    BY <2>0, <2>1, Zenon
<1> QED
  BY <1>1, <1>2, <1>3, <1>4, <1>5, <1>6, <1>7, Zenon

\* A set of heights has a least one: the keys are sorted before the loop.
LEMMA Least ==
  ASSUME NEW T, T \subseteq Nat, T # {}
  PROVE  \E x \in T : \A y \in T : x <= y
<1> DEFINE less == {p \in Nat \X Nat : p[1] < p[2]}
<1>1. IsWellFoundedOn(less, Nat)
  BY NatLessThanWellFounded, Zenon DEF OpToRel
<1> HIDE DEF less
<1>2. PICK x \in T : \A y \in T : ~ (<<y, x>> \in less)
  BY <1>1, WFMin, Zenon
<1>3. \A y \in T : ~ (y < x)
  BY <1>2, Zenon DEF less
<1> QED
  BY <1>3

\* At and above the parent of a checked share that is there, two heights are listed: those of
\* the two shares or, when the parent was pruned, that of a share which outlived it.
LEMMA TwoKeys ==
  ASSUME IInv, StoreInv, NEW c \in blocksByTemplateId \cap Checked, Height[c] # 0
  PROVE  \E j, k \in blocksByHeightKeys : j < k /\ j >= Height[c] - 1
<1>0. \A b \in EverAdded : b \in Blocks /\ Height[b] \in Nat
  BY Reached, HeightOf, Zenon DEF IInv
<1>1. ASSUME NEW b \in blocksByTemplateId PROVE Height[b] \in blocksByHeightKeys
  <2>1. b \in Blocks /\ Height[b] \in Heights /\ b \in Range(blocksByHeight[Height[b]])
    BY <1>0, HeightOf, Zenon DEF EverAdded, StoreInv, Indexed
  <2>2. blocksByHeight[Height[b]] # <<>>
    BY <2>1 DEF Range
  <2> QED
    BY <2>1, <2>2, Zenon DEF StoreInv, Indexed
<1>2. Parent[c] \in Valid /\ Height[Parent[c]] + 1 = Height[c]
  BY Zenon DEF StoreInv, CheckedParents
<1>3. Parent[c] \in EverAdded
  BY <1>2, Zenon DEF StoreInv, VerifiedAdded, Valid
<1>4. Height[c] \in Nat /\ Height[Parent[c]] \in Nat
  BY <1>0, <1>3, Zenon DEF EverAdded
<1>5. CASE Parent[c] \in blocksByTemplateId
  <2>1. Height[c] \in blocksByHeightKeys /\ Height[Parent[c]] \in blocksByHeightKeys
    BY <1>1, <1>5, Zenon
  <2>2. Height[Parent[c]] < Height[c] /\ Height[Parent[c]] >= Height[c] - 1
    BY <1>2, <1>4
  <2> QED
    BY <2>1, <2>2, Zenon
<1>6. CASE Parent[c] \in pruned
  <2>1. PICK d \in blocksByTemplateId \cap Checked :
          Height[d] >= Height[Parent[c]] + PruneDistance
    BY <1>6, Zenon DEF StoreInv, PrunedBelow, Outlives
  <2>2. Height[d] \in Nat
    BY <1>0, Zenon DEF EverAdded
  <2>3. Height[c] < Height[d] /\ Height[c] >= Height[c] - 1
    BY <1>2, <1>4, <2>1, <2>2, Distance
  <2>4. Height[c] \in blocksByHeightKeys /\ Height[d] \in blocksByHeightKeys
    BY <1>1, Zenon
  <2> QED
    BY <2>3, <2>4, Zenon
<1> QED
  BY <1>3, <1>5, <1>6, Zenon DEF EverAdded

\* Wherever the loop of pruneOldBlocks goes on, two keys are left for it: one to pass over and
\* one to stop at.
LEMMA LiveKey ==
  ASSUME IInv, StoreInv
  PROVE  PruneStopsAtLiveKey
<1> SUFFICES ASSUME pc = "prune"
             PROVE  \E k \in blocksByHeightKeys : NextKey(k)
  BY Zenon DEF PruneStopsAtLiveKey
<1>0. /\ blocksByHeightKeys \subseteq Nat /\ pruneFrom \in Nat /\ pruneSkip \in {0, 1}
      /\ chainTip # NoBlock /\ chainTip \in Blocks
      /\ Height[chainTip] >= PruneDistance /\ pruneFrom <= Height[chainTip] - PruneDistance + 1
  <2>1. Heights \subseteq Nat
    BY HeightOf, Zenon DEF Heights
  <2> QED
    BY <2>1, Zenon DEF IInv, TypeOK, StoreTypes, TipTypes, PruneTypes, StoreInv, PruneLimit
<1>1. PICK c \in blocksByTemplateId \cap Checked : Height[c] >= Height[chainTip]
  BY <1>0, TipOrHigher, Zenon
<1>2. Height[c] \in Nat /\ Height[chainTip] \in Nat
  BY <1>0, HeightOf, Zenon DEF IInv, TypeOK, StoreTypes
<1>3. PICK j, l \in blocksByHeightKeys : j < l /\ j >= Height[c] - 1
  BY <1>0, <1>1, <1>2, TwoKeys, Distance
<1> DEFINE ahead == {k \in blocksByHeightKeys : k >= pruneFrom}
<1>4. j \in ahead /\ l \in ahead /\ ahead \subseteq Nat
  <2>1. j \in Nat /\ l \in Nat /\ PruneDistance \in Nat /\ PruneDistance > 2
    BY <1>0, Distance, Zenon
  <2>2. j >= pruneFrom /\ l >= pruneFrom
    BY <1>0, <1>1, <1>2, <1>3, <2>1
  <2> QED
    BY <1>0, <2>2, Zenon
<1>5. PICK first \in ahead : \A k \in ahead : first <= k
  BY <1>4, Least, Zenon
<1>6. PICK second \in ahead \ {first} : \A k \in ahead \ {first} : second <= k
  <2>1. ahead \ {first} # {}
    BY <1>3, <1>4
  <2> QED
    BY <1>4, <2>1, Least, Zenon
<1>7. KeysBelow(first) = {} /\ KeysBelow(second) = {first}
  BY <1>0, <1>4, <1>5, <1>6 DEF KeysBelow
<1>8. CASE pruneSkip = 1
  <2>1. NextKey(second)
    BY <1>6, <1>7, <1>8, Zenon DEF NextKey
  <2> QED
    BY <2>1, Zenon
<1>9. CASE pruneSkip = 0
  <2>1. NextKey(first)
    BY <1>5, <1>7, <1>9 DEF NextKey
  <2> QED
    BY <2>1, Zenon
<1> QED
  BY <1>0, <1>8, <1>9, Zenon
-----------------------------------------------------------------------------
(***************************************************************************)
(* The theorems.                                                           *)
(***************************************************************************)

\* NewSideChain: no share is stored, so the indexes agree.
LEMMA InitStoreInv ==
  ASSUME Init
  PROVE  StoreInv
<1>1. Indexed
  <2>1. \A h \in Heights : blocksByHeight[h] = <<>>
    BY Zenon DEF Init
  <2>2. Range(<<>>) = {} /\ IsInjective(<<>>)
    BY DEF Range, IsInjective
  <2> QED
    BY <2>1, <2>2, HeightOf, Zenon DEF Init, Indexed
<1>2. KeysLive /\ CheckedParents /\ VerifiedAdded /\ SkippedDeep /\ TipChecked /\ PrunedBelow
  BY Zenon DEF Init, KeysLive, CheckedParents, VerifiedAdded, SkippedDeep, TipChecked, PrunedBelow,
         Checked, Valid
<1>3. VerifyList /\ PruneLimit
  BY DEF Init, VerifyList, PruneLimit
<1> QED
  BY <1>1, <1>2, <1>3, Zenon DEF StoreInv

\* Every step of the node keeps the indexes, the verdicts, and the shares above the pruned ones.
LEMMA StepStoreInv ==
  ASSUME IInv, StoreInv, [Next]_vars
  PROVE  StoreInv'
<1>1. CASE Next
  BY <1>1, IndexedStep, VerifyListStep, CheckedStep, TipCheckedStep, PrunedBelowStep,
     PruneLimitStep, Zenon DEF StoreInv
<1>2. CASE UNCHANGED vars
  <2>1. UNCHANGED <<store, flags, tips, verifying, pruning, Depth, pc>>
    BY <1>2, Zenon DEF vars
  <2>2. Indexed' /\ KeysLive' /\ VerifyList' /\ VerifiedAdded'
    BY <2>1, Zenon DEF StoreInv, Indexed, KeysLive, VerifyList, VerifiedAdded, EverAdded, store, flags,
                verifying, pruning
  <2>3. CheckedParents' /\ SkippedDeep' /\ TipChecked' /\ PrunedBelow'
    BY <2>1, Zenon DEF StoreInv, CheckedParents, SkippedDeep, TipChecked, PrunedBelow, Outlives, Checked,
                Valid, store, flags, tips
  <2>4. PruneLimit'
    BY <2>1, Zenon DEF StoreInv, PruneLimit, PruneTo, store, tips, pruning
  <2> QED
    BY <2>2, <2>3, <2>4, Zenon DEF StoreInv
<1> QED
  BY <1>1, <1>2, Zenon

\* The inductive invariant about the store holds whatever shares arrive in whatever order.
THEOREM StoreInvariance == Spec => [](IInv /\ StoreInv)
<1>1. Init => StoreInv
  BY InitStoreInv, Zenon
<1>2. IInv /\ StoreInv /\ [Next]_vars => StoreInv'
  BY StepStoreInv, Zenon
<1> QED
  BY <1>1, <1>2, Invariance, PTL DEF Spec

\* blocksByTemplateId, blocksByHeight and blocksByHeightKeys hold the same shares, each once and
\* under its height, in the middle of pruneOldBlocks too, which deletes from all three while it
\* ranges over them.
THEOREM IndexesStayInStep == Spec => []IndexesAgree
<1>1. ASSUME IInv, StoreInv
      PROVE  IndexesAgree
  <2>1. /\ Indexed /\ KeysLive /\ blocksByHeightKeys \subseteq Heights
    BY <1>1, Zenon DEF IInv, StoreInv, TypeOK, StoreTypes
  <2> QED
    BY <2>1, HeightOf, Zenon DEF IndexesAgree, Indexed, KeysLive
<1> QED
  BY <1>1, StoreInvariance, PTL

\* The loop of pruneOldBlocks, which passes over a key after each one it deletes, always comes to
\* a key above its limit: it never reads the tail of the slice that slices.Delete has zeroed.
THEOREM PruningStops == Spec => []PruneStopsAtLiveKey
<1>1. IInv /\ StoreInv => PruneStopsAtLiveKey
  BY LiveKey, Zenon
<1> QED
  BY <1>1, StoreInvariance, PTL

\* A pruned share is further below the highest one than BlockSeen looks: under a tip that is the
\* highest share, BlockSeen turns away every pruned share with less difficulty.
THEOREM PrunedSharesAreSeen == Spec => []PrunedStaysOut
<1>1. ASSUME IInv, StoreInv
      PROVE  PrunedStaysOut
  <2> SUFFICES ASSUME TipIsHighest, NEW b \in pruned,
                      CumulativeDifficulty[b] < CumulativeDifficulty[chainTip]
               PROVE  TooOld(b)
    BY Zenon DEF PrunedStaysOut, BlockSeen
  <2>1. PICK c \in blocksByTemplateId \cap Checked : Height[c] >= Height[b] + PruneDistance
    BY <1>1, Zenon DEF StoreInv, PrunedBelow, Outlives
  <2>2. chainTip # NoBlock /\ Height[c] <= Height[chainTip]
    BY <2>1, Zenon DEF TipIsHighest, Checked
  <2>3. b \in Blocks /\ c \in Blocks /\ chainTip \in Blocks
    BY <1>1, <2>1, <2>2, Zenon DEF IInv, TypeOK, StoreTypes, TipTypes
  <2>4. Height[b] \in Nat /\ Height[c] \in Nat /\ Height[chainTip] \in Nat
    BY <2>3, HeightOf, Zenon
  <2>5. PruneDistance = ChainWindowSize * 2 + PruneSpare
    BY Zenon DEF PruneDistance
  <2>6. Height[chainTip] > Height[b] + ChainWindowSize * 2
    BY <2>1, <2>2, <2>4, <2>5, ConsensusAssumption DEF ConsensusAssumption
  <2> QED
    BY <2>2, <2>6, Zenon DEF TooOld
<1> QED
  BY <1>1, StoreInvariance, PTL
-----------------------------------------------------------------------------
(***************************************************************************)
(* Walking up the chain.                                                   *)
(***************************************************************************)

\* The walk of k steps from b, as a function of the number of steps made.
IsWalk(f, b, k) == f = [i \in 0 .. k |-> IF i = 0 THEN b ELSE GetParent(f[i - 1])]

\* A walk can always go one step further.
LEMMA WalkExists ==
  ASSUME NEW b, NEW k \in Nat
  PROVE  \E f : IsWalk(f, b, k)
<1> DEFINE T == {n \in Nat : ~ \E f : IsWalk(f, b, n)}
<1> SUFFICES ASSUME T # {} PROVE FALSE
  BY Zenon
<1>1. PICK n \in T : \A m \in T : n <= m
  BY Least, Zenon
<1>2. CASE n = 0
  <2>1. IsWalk([i \in 0 .. 0 |-> b], b, 0)
    BY DEF IsWalk
  <2> QED
    BY <1>2, <2>1, Zenon
<1>3. CASE n # 0
  <2>1. PICK f : IsWalk(f, b, n - 1)
    BY <1>1, <1>3
  <2> DEFINE g == [i \in 0 .. n |-> IF i = n THEN GetParent(f[n - 1]) ELSE f[i]]
  <2>2. \A i \in 0 .. n - 1 : g[i] = f[i] /\ f[i] = IF i = 0 THEN b ELSE GetParent(f[i - 1])
    BY <2>1 DEF IsWalk
  <2>3. \A i \in 0 .. n : g[i] = IF i = 0 THEN b ELSE GetParent(g[i - 1])
    <3> TAKE i \in 0 .. n
    <3>1. CASE i = n
      <4>1. g[i] = GetParent(f[n - 1]) /\ g[n - 1] = f[n - 1]
        BY <1>3, <2>2, <3>1
      <4> QED
        BY <1>3, <3>1, <4>1, Zenon
    <3>2. CASE i # n
      <4>1. i \in 0 .. n - 1 /\ (i # 0 => i - 1 \in 0 .. n - 1)
        BY <3>2
      <4>2. i # 0 => g[i - 1] = f[i - 1]
        BY <2>2, <4>1, Zenon
      <4> HIDE DEF g
      <4> QED
        BY <2>2, <4>1, <4>2, Zenon
    <3> QED
      BY <3>1, <3>2, Zenon
  <2>4. IsWalk(g, b, n)
    <3>1. g = [i \in 0 .. n |-> g[i]]
      BY Zenon
    <3> HIDE DEF g
    <3> QED
      BY <2>3, <3>1, Zenon DEF IsWalk
  <2> QED
    BY <2>4, Zenon
<1> QED
  BY <1>2, <1>3, Zenon

\* Two walks from one block agree as far as both go.
LEMMA WalksAgree ==
  ASSUME NEW b, NEW k \in Nat, NEW l \in Nat, k <= l, NEW f, NEW g,
         IsWalk(f, b, k), IsWalk(g, b, l), NEW i \in 0 .. k
  PROVE  f[i] = g[i]
<1> DEFINE T == {n \in Nat : n <= k /\ f[n] # g[n]}
<1> SUFFICES ASSUME T # {} PROVE FALSE
  OBVIOUS
<1>1. PICK n \in T : \A m \in T : n <= m
  BY Least, Zenon
<1>2. /\ f[n] = IF n = 0 THEN b ELSE GetParent(f[n - 1])
      /\ g[n] = IF n = 0 THEN b ELSE GetParent(g[n - 1])
  BY DEF IsWalk
<1>3. n # 0 => f[n - 1] = g[n - 1]
  BY <1>1
<1> QED
  BY <1>2, <1>3, Zenon

\* The ancestors of a block are what a walk from it visits.
LEMMA AncestorWalk ==
  ASSUME NEW b, NEW k \in Nat
  PROVE  \E f : IsWalk(f, b, k) /\ Ancestor(b, k) = f[k]
<1> DEFINE up == CHOOSE f : IsWalk(f, b, k)
<1>1. IsWalk(up, b, k)
  BY WalkExists, Zenon
<1>2. Ancestor(b, k) = up[k]
  BY Zenon DEF Ancestor, IsWalk
<1> QED
  BY <1>1, <1>2, Zenon

\* A block is its own ancestor at no distance, and the next ancestor is the parent of the last.
LEMMA AncestorUp ==
  ASSUME NEW b
  PROVE  /\ Ancestor(b, 0) = b
         /\ \A k \in Nat : Ancestor(b, k + 1) = GetParent(Ancestor(b, k))
<1>1. Ancestor(b, 0) = b
  BY AncestorWalk DEF IsWalk
<1>2. ASSUME NEW k \in Nat PROVE Ancestor(b, k + 1) = GetParent(Ancestor(b, k))
  <2>1. PICK f : IsWalk(f, b, k) /\ Ancestor(b, k) = f[k]
    BY AncestorWalk, Zenon
  <2>2. PICK g : IsWalk(g, b, k + 1) /\ Ancestor(b, k + 1) = g[k + 1]
    BY AncestorWalk
  <2>3. f[k] = g[k]
    BY <2>1, <2>2, WalksAgree
  <2>4. g[k + 1] = GetParent(g[k])
    BY <2>2 DEF IsWalk
  <2> QED
    BY <2>1, <2>2, <2>3, <2>4, Zenon
<1> QED
  BY <1>1, <1>2, Zenon

\* Under a checked tip close to the genesis block, the walk ends there.
LEMMA WalkEnds ==
  ASSUME IInv, StoreInv, NEW b \in Checked, NEW k \in 0 .. 2, k > Height[b]
  PROVE  Ancestor(b, k) = NoBlock
<1>1. /\ Valid \subseteq Blocks /\ blocksByTemplateId \subseteq Blocks
      /\ NoBlock \notin Blocks /\ b \in Blocks
  BY BlocksAssumption, Zenon DEF IInv, TypeOK, FlagTypes, StoreTypes, BlocksAssumption, Checked, Valid
<1>2. /\ Ancestor(b, 0) = b /\ Ancestor(b, 1) = GetParent(b)
      /\ Ancestor(b, 2) = GetParent(GetParent(b))
  <2>1. /\ Ancestor(b, 0) = b /\ Ancestor(b, 0 + 1) = GetParent(Ancestor(b, 0))
        /\ Ancestor(b, 1 + 1) = GetParent(Ancestor(b, 1))
    BY AncestorUp, Zenon
  <2>2. 0 + 1 = 1 /\ 1 + 1 = 2
    OBVIOUS
  <2> QED
    BY <2>1, <2>2, Zenon
<1>3. GetParent(NoBlock) = NoBlock
  BY Zenon DEF GetParent
<1>4. \A c : Parent[c] = NoBlock => GetParent(c) = NoBlock
  BY <1>1, Zenon DEF GetParent
<1>5. \A c : GetParent(c) \in {NoBlock, Parent[c]}
  BY Zenon DEF GetParent
<1>6. Height[b] \in Nat
  BY <1>1, HeightOf, Zenon
<1>7. CASE Height[b] = 0
  <2>1. Parent[b] = NoBlock
    BY <1>7, Zenon DEF StoreInv, CheckedParents
  <2>2. k = 1 \/ k = 2
    BY <1>7
  <2> QED
    BY <1>2, <1>3, <1>4, <2>1, <2>2, Zenon
<1>8. CASE Height[b] = 1
  <2>1. Parent[b] \in Valid /\ Height[Parent[b]] + 1 = 1
    BY <1>8 DEF StoreInv, CheckedParents
  <2>2. Height[Parent[b]] = 0
    BY <1>1, <2>1, HeightOf
  <2>3. Parent[b] \in Checked
    BY <2>1, <2>2, Zenon DEF StoreInv, SkippedDeep, Checked
  <2>4. Parent[Parent[b]] = NoBlock
    BY <2>2, <2>3, Zenon DEF StoreInv, CheckedParents
  <2>5. k = 2
    BY <1>8
  <2> QED
    BY <1>2, <1>3, <1>4, <1>5, <2>4, <2>5, Zenon
<1> QED
  BY <1>6, <1>7, <1>8

\* Both collect the same blocks that a share on the tip may not name as uncles.
LEMMA MinedAgree ==
  ASSUME IInv, StoreInv, chainTip # NoBlock, NEW b \in Blocks, Parent[b] = chainTip
  PROVE  MinedUnder(chainTip) = MinedBlocks(b)
<1> DEFINE ks == {j \in 0 .. UncleBlockDepth - 1 : j <= Height[chainTip]}
           under == {Ancestor(chainTip, k) : k \in ks} \ {NoBlock}
           last == {Ancestor(Parent[b], k) : k \in 0 .. UncleBlockDepth - 1} \ {NoBlock}
<1>1. chainTip \in Checked /\ chainTip \in Blocks
  BY Zenon DEF StoreInv, TipChecked, IInv, TypeOK, TipTypes
<1>2. \A k \in 0 .. UncleBlockDepth - 1 : k \in ks \/ Ancestor(chainTip, k) = NoBlock
  <2>1. UncleBlockDepth - 1 = 2 /\ Height[chainTip] \in Nat
    BY <1>1, HeightOf DEF UncleBlockDepth
  <2> QED
    BY <1>1, <2>1, WalkEnds
<1>3. ks \subseteq 0 .. UncleBlockDepth - 1
  BY Zenon
<1>4. under = last
  <2> HIDE DEF ks
  <2> QED
    BY <1>2, <1>3, Zenon
<1>5. MinedUnder(chainTip) = under \cup UNION {Range(Uncles[a]) : a \in under}
  BY Zenon DEF MinedUnder
<1>6. MinedBlocks(b) = last \cup UNION {Range(Uncles[a]) : a \in last}
  BY Zenon DEF MinedBlocks
<1> QED
  BY <1>4, <1>5, <1>6, Zenon

\* For every share chain and every order of arrival, GetPossibleUncles offers for a share on the
\* tip exactly the uncles that verifyBlock takes from it.
THEOREM OfferedUnclesVerify == Spec => []OffersWhatVerifies
<1>1. ASSUME IInv, StoreInv
      PROVE  OffersWhatVerifies
  <2> SUFFICES ASSUME NEW b \in Blocks, Parent[b] = chainTip, chainTip # NoBlock,
                      Height[b] = Height[chainTip] + 1
               PROVE  GetPossibleUncles(chainTip, Height[b])
                        = {u \in blocksByTemplateId : UncleVerdict(b, u) = "ok"}
    BY Zenon DEF OffersWhatVerifies
  <2>1. MinedUnder(chainTip) = MinedBlocks(b)
    BY <1>1, MinedAgree, Zenon
  <2>2. ASSUME NEW u PROVE SameChain(chainTip, u, Height[b]) <=> UncleOnSameChain(b, u)
    BY Zenon DEF SameChain, UncleOnSameChain
  <2>3. /\ blocksByTemplateId \subseteq Blocks /\ NoBlock \notin Blocks
        /\ chainTip \in Blocks
    BY <1>1, BlocksAssumption, Zenon DEF IInv, TypeOK, StoreTypes, TipTypes, BlocksAssumption
  <2>4. ASSUME NEW u \in blocksByTemplateId
        PROVE  /\ Height[u] <= Height[chainTip] <=> Height[u] < Height[b]
               /\ Height[u] + UncleBlockDepth > Height[chainTip]
                    <=> Height[u] + UncleBlockDepth >= Height[b]
    <3>1. Height[u] \in Nat /\ Height[chainTip] \in Nat
      BY <2>3, HeightOf, Zenon
    <3> QED
      BY <3>1 DEF UncleBlockDepth
  <2>5. ASSUME NEW u \in blocksByTemplateId
        PROVE  u \in GetPossibleUncles(chainTip, Height[b]) <=> UncleVerdict(b, u) = "ok"
    <3>1. u # NoBlock
      BY <2>3, Zenon
    <3>2. u \in GetPossibleUncles(chainTip, Height[b])
            <=> /\ u \in Verified /\ u \notin Invalid
                /\ Height[u] < Height[b] /\ Height[u] + UncleBlockDepth >= Height[b]
                /\ u \notin MinedBlocks(b) /\ UncleOnSameChain(b, u)
      BY <2>1, <2>2, <2>4, Zenon DEF GetPossibleUncles
    <3>3. UncleVerdict(b, u) = "ok"
            <=> /\ u \in Verified /\ u \notin Invalid
                /\ Height[u] < Height[b] /\ Height[u] + UncleBlockDepth >= Height[b]
                /\ u \notin MinedBlocks(b) /\ UncleOnSameChain(b, u)
      BY <3>1, Zenon DEF UncleVerdict
    <3> QED
      BY <3>2, <3>3, Zenon
  <2>6. GetPossibleUncles(chainTip, Height[b]) \subseteq blocksByTemplateId
    BY Zenon DEF GetPossibleUncles
  <2> QED
    BY <2>5, <2>6, Zenon
<1> QED
  BY <1>1, StoreInvariance, PTL
====
