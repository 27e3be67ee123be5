-------------------------- MODULE SideChainDepths --------------------------
(***************************************************************************)
(* The theorems about SideChain for shares whose heights agree: depths     *)
(* settle, and the window under the tip stays whole.                       *)
(***************************************************************************)
EXTENDS SideChainStore

(***************************************************************************)
(* Depths, for shares whose heights agree: updateDepths gives up, and      *)
(* leaves depths unsettled, at a share that names a parent or an uncle at  *)
(* the wrong height.                                                       *)
(***************************************************************************)
HeightsAgree ==
  \A b \in Blocks :
    /\ Parent[b] \in Blocks => Height[b] = Height[Parent[b]] + 1
    /\ \A i \in DOMAIN Uncles[b] :
         Uncles[b][i] \in Blocks => Height[b] - Height[Uncles[b][i]] \in 1 .. UncleBlockDepth

\* verifyLoop and what it calls.
InVerifyLoop == pc \in {"verify", "tip", "prune", "pruneHeight", "broadcast"}

\* updateDepths has taken block from its work list and not looked at its parent yet.
BeforeParent == pc \in {"propagate", "children"} \/ (InVerifyLoop /\ ret = "propagate")

Settled(c) == Parent[c] \in blocksByTemplateId => Depth[Parent[c]] >= Depth[c] + 1

\* The parent of c will still be raised: from the work list, from the share at hand, or, for
\* the new share, from those above it that its first loop has yet to see.
Awaited(c) ==
  \/ c \in Range(blocksToUpdate)
  \/ BeforeParent /\ c = block
  \/ pc = "initDepth" /\ (c = adding \/ (Parent[c] = adding /\ c \in Range(todo)))

SettledOrAwaited == \A c \in blocksByTemplateId : Settled(c) \/ Awaited(c)
BlockDepthKept == BeforeParent => blockDepth = Depth[block]
UnclesLeft == pc = "uncles" => Range(todo) \subseteq Range(Uncles[block])
ListUsed == blocksToUpdate # <<>> => BeforeParent \/ pc \in {"visit", "uncles"}

\* The inductive invariant.
DepthInv ==
  SettledOrAwaited /\ BlockDepthKept /\ UnclesLeft /\ ListUsed /\ returnFromUncles = FALSE

\* The elements of a list, the last or the first of them apart, and with one more.
LEMMA RangeOf ==
  ASSUME NEW S, NEW s \in Seq(S)
  PROVE  /\ s # <<>> => Range(s) = Range(Rest(s)) \cup {Top(s)}
         /\ s # <<>> => Range(s) = Range(Tail(s)) \cup {Head(s)}
         /\ \A b \in S : Range(Append(s, b)) = Range(s) \cup {b} /\ Append(s, b) # <<>>
<1>1. ASSUME s # <<>> PROVE Range(s) = Range(Rest(s)) \cup {Top(s)}
  <2>0. Len(s) \in Nat \ {0} /\ DOMAIN s = 1 .. Len(s)
    BY <1>1
  <2> DEFINE n == Len(s)
             r == SubSeq(s, 1, n - 1)
  <2>1. DOMAIN r = 1 .. n - 1 /\ \A i \in 1 .. n - 1 : r[i] = s[i]
    BY <2>0
  <2>2. Rest(s) = r /\ Top(s) = s[n]
    BY Zenon DEF Rest, Top
  <2> HIDE DEF n, r
  <2>3. n \in Nat \ {0} /\ DOMAIN s = 1 .. n
    BY <2>0, Zenon DEF n
  <2>4. Range(s) = Range(r) \cup {s[n]}
    BY <2>1, <2>3 DEF Range
  <2> QED
    BY <2>2, <2>4, Zenon
<1>2. ASSUME s # <<>> PROVE Range(s) = Range(Tail(s)) \cup {Head(s)}
  <2> DEFINE n == Len(s)
             t == Tail(s)
  <2>1. /\ n \in Nat \ {0} /\ DOMAIN s = 1 .. n
        /\ DOMAIN t = 1 .. n - 1
        /\ \A i \in 1 .. n - 1 : t[i] = s[i + 1]
        /\ Head(s) = s[1]
    BY <1>2
  <2> HIDE DEF n, t
  <2>2. \A x \in Range(s) : x = s[1] \/ x \in Range(t)
    <3>1. ASSUME NEW i \in 1 .. n, i # 1 PROVE i - 1 \in 1 .. n - 1 /\ t[i - 1] = s[i]
      <4>1. i - 1 \in 1 .. n - 1 /\ (i - 1) + 1 = i
        BY <2>1, <3>1
      <4>2. t[i - 1] = s[(i - 1) + 1]
        BY <2>1, <4>1, Zenon
      <4> QED
        BY <4>1, <4>2, Zenon
    <3>2. ASSUME NEW x \in Range(s) PROVE x = s[1] \/ x \in Range(t)
      <4>1. PICK i \in 1 .. n : x = s[i]
        BY <2>1, Zenon DEF Range
      <4>2. i # 1 => t[i - 1] \in Range(t)
        BY <2>1, <3>1, Zenon DEF Range
      <4> QED
        BY <3>1, <4>1, <4>2, Zenon
    <3> QED
      BY <3>2, Zenon
  <2>3. Range(t) \cup {s[1]} \subseteq Range(s)
    BY <2>1 DEF Range
  <2> QED
    BY <2>1, <2>2, <2>3, Zenon DEF t
<1>3. ASSUME NEW b \in S PROVE Range(Append(s, b)) = Range(s) \cup {b} /\ Append(s, b) # <<>>
  <2>1. /\ Len(s) \in Nat /\ DOMAIN s = 1 .. Len(s)
        /\ DOMAIN Append(s, b) = 1 .. Len(s) + 1
        /\ Append(s, b)[Len(s) + 1] = b
        /\ \A i \in 1 .. Len(s) : Append(s, b)[i] = s[i]
        /\ Append(s, b) # <<>>
    OBVIOUS
  <2> QED
    BY <2>1 DEF Range
<1> QED
  BY <1>1, <1>2, <1>3, Zenon

\* The shares one above b are among those updateDepths looks at.
LEMMA AboveHas ==
  ASSUME IInv, StoreInv, NEW b \in Blocks, NEW c \in blocksByTemplateId, Height[c] = Height[b] + 1
  PROVE  c \in Range(Above(b))
<1>1. c \in Blocks /\ blocksByTemplateId \subseteq Blocks
  BY Zenon DEF IInv, TypeOK, StoreTypes
<1>2. c \in Range(AtHeight(Height[b] + 1))
  BY <1>1, HeightOf DEF StoreInv, Indexed
<1> DEFINE one == AtHeight(Height[b] + 1)
           two == AtHeight(Height[b] + 2)
           three == AtHeight(Height[b] + 3)
<1>3. \A h : AtHeight(h) \in Seq(Blocks)
  BY DEF AtHeight, IInv, TypeOK, StoreTypes
<1>4. one \in Seq(Blocks) /\ two \in Seq(Blocks) /\ three \in Seq(Blocks) /\ c \in Range(one)
  BY <1>2, <1>3, Zenon
<1> HIDE DEF one, two, three
<1>5. c \in Range(one \o two \o three)
  <2>1. PICK i \in 1 .. Len(one) : one[i] = c
    BY <1>4 DEF Range
  <2>2. one \o two \in Seq(Blocks) /\ i \in 1 .. Len(one \o two) /\ (one \o two)[i] = c
    BY <1>4, <2>1
  <2>3. i \in 1 .. Len(one \o two \o three) /\ (one \o two \o three)[i] = c
    BY <1>4, <2>2
  <2>4. one \o two \o three \in Seq(Blocks)
    BY <1>4
  <2> QED
    BY <2>3, <2>4 DEF Range
<1> QED
  BY <1>5, Zenon DEF one, two, three, Above

\* verifyLoop and what it calls leave the work of updateDepths as it is.
LEMMA VerifyKeepsDepths ==
  ASSUME IInv, DepthInv, VerifyLoop \/ UpdateChainTip \/ PruneOldBlocks
  PROVE  DepthInv'
<1>1. /\ UNCHANGED <<depthLoop, Depth, ret>>
      /\ InVerifyLoop /\ (InVerifyLoop' \/ pc' = ret)
      /\ blocksByTemplateId' \subseteq blocksByTemplateId
  <2>1. CASE VerifyLoop
    BY <2>1, ZenonT(60) DEF VerifyLoop, SkipVerified, VerifyDone, VerifyPending, VerifyInvalid,
       VerifyOk, Verifying, verifying, store, InVerifyLoop
  <2>2. CASE UpdateChainTip
    BY <2>2, ZenonT(60) DEF UpdateChainTip, IgnoreTip, AdoptTip, KeepTip, BroadcastTip, verifying,
       store, InVerifyLoop
  <2>3. CASE PruneOldBlocks
    BY <2>3, ZenonT(60) DEF PruneOldBlocks, PruneHeight, PruneBlock, PruneHeightDone, PruneDone,
       verifying, store, InVerifyLoop
  <2> QED
    BY <2>1, <2>2, <2>3, Zenon
<1>2. BeforeParent' <=> BeforeParent
  <2>1. ret \in {"propagate", "done"}
    BY Zenon DEF IInv, TypeOK, VerifyTypes
  <2> QED
    BY <1>1, <2>1, Zenon DEF BeforeParent, InVerifyLoop
<1>3. pc # "initDepth" /\ pc # "visit" /\ pc # "uncles" /\ pc' # "uncles"
  BY <1>1, Zenon DEF InVerifyLoop, IInv, TypeOK, VerifyTypes
<1>4. SettledOrAwaited'
  BY <1>1, <1>2, <1>3, Zenon DEF DepthInv, SettledOrAwaited, Settled, Awaited, depthLoop
<1> QED
  BY <1>1, <1>2, <1>3, <1>4, Zenon DEF DepthInv, BlockDepthKept, UnclesLeft, ListUsed, depthLoop

\* Entering and leaving AddPoolBlock: the new share, and those built on it, are awaited.
LEMMA AddKeepsDepths ==
  ASSUME HeightsAgree, IInv, StoreInv, DepthInv,
         (\E b \in Blocks : AddPoolBlock(b)) \/ AfterDepths \/ Done
  PROVE  DepthInv'
<1>0. pc \in {"free", "added", "done"}
        => /\ blocksToUpdate = <<>>
           /\ \A c \in blocksByTemplateId : Settled(c)
  <2>1. pc \in {"free", "added", "done"}
          => ~BeforeParent /\ pc \notin {"visit", "uncles", "initDepth"}
    BY Zenon DEF BeforeParent, InVerifyLoop
  <2>2. Range(<<>>) = {}
    BY DEF Range
  <2> QED
    BY <2>1, <2>2, Zenon DEF DepthInv, ListUsed, SettledOrAwaited, Awaited
<1>1. ASSUME NEW b \in Blocks, AddPoolBlock(b)
      PROVE  DepthInv'
  <2>1. /\ pc = "free" /\ pc' = "initDepth" /\ adding' = b /\ todo' = Above(b)
        /\ blocksByTemplateId' = blocksByTemplateId \cup {b} /\ Depth' = Depth
        /\ UNCHANGED <<blocksToUpdate, returnFromUncles>>
    BY <1>1, Zenon DEF AddPoolBlock
  <2>2. ASSUME NEW c \in blocksByTemplateId' PROVE Settled(c)' \/ Awaited(c)'
    <3>1. CASE c = b
      BY <2>1, <3>1, Zenon DEF Awaited
    <3>2. CASE c \in blocksByTemplateId /\ Parent[c] = b
      <4>1. c \in Blocks
        BY <3>2, Zenon DEF IInv, TypeOK, StoreTypes
      <4>2. Height[c] = Height[b] + 1
        BY <3>2, <4>1, Zenon DEF HeightsAgree
      <4> QED
        BY <2>1, <3>2, <4>2, AboveHas, Zenon DEF Awaited
    <3>3. CASE c \in blocksByTemplateId /\ Parent[c] # b
      BY <1>0, <2>1, <3>3, Zenon DEF Settled
    <3> QED
      BY <2>1, <3>1, <3>2, <3>3, Zenon
  <2>3. ~BeforeParent'
    BY <2>1, Zenon DEF BeforeParent, InVerifyLoop
  <2> QED
    BY <1>0, <2>1, <2>2, <2>3, Zenon
    DEF DepthInv, SettledOrAwaited, BlockDepthKept, UnclesLeft, ListUsed
<1>2. CASE AfterDepths \/ Done
  <2>1. /\ pc \in {"added", "done"} /\ UNCHANGED <<Depth, blocksByTemplateId>>
        /\ blocksToUpdate' \in {blocksToUpdate, <<>>}
        /\ returnFromUncles' \in {returnFromUncles, FALSE}
        /\ pc' \in {"done", "free"} \/ (InVerifyLoop' /\ ret' = "done")
    BY <1>2, ZenonT(60) DEF AfterDepths, Done, store, depthLoop, InVerifyLoop
  <2>2. ~BeforeParent' /\ pc' # "uncles"
    BY <2>1, Zenon DEF BeforeParent, InVerifyLoop
  <2>3. \A c \in blocksByTemplateId : Settled(c)'
    BY <1>0, <2>1, Zenon DEF Settled
  <2> QED
    BY <1>0, <2>1, <2>2, <2>3, Zenon
    DEF DepthInv, SettledOrAwaited, BlockDepthKept, UnclesLeft, ListUsed
<1> QED
  BY <1>1, <1>2, Zenon

\* Raising the depth of a share unsettles no other one.
LEMMA RaiseSettles ==
  ASSUME IInv, NEW x \in Blocks, NEW d \in Int, RaiseDepth(x, d), UNCHANGED blocksByTemplateId
  PROVE  /\ \A c \in blocksByTemplateId : Settled(c) /\ c # x => Settled(c)'
         /\ Depth[x] >= d => \A c \in blocksByTemplateId : Settled(c) => Settled(c)'
         /\ Depth'[x] >= d
         /\ \A c \in Blocks : c # x => Depth'[c] = Depth[c]
<1>1. Depth \in [Blocks -> Nat] /\ blocksByTemplateId \subseteq Blocks
  BY Zenon DEF IInv, TypeOK, StoreTypes
<1>2. /\ \A c \in Blocks : c # x => Depth'[c] = Depth[c]
      /\ Depth'[x] >= d /\ Depth'[x] >= Depth[x] /\ (Depth[x] >= d => Depth'[x] = Depth[x])
      /\ Depth' \in [Blocks -> Nat]
  BY <1>1 DEF RaiseDepth
<1>3. ASSUME NEW c \in blocksByTemplateId, Settled(c), Depth'[c] = Depth[c]
      PROVE  Settled(c)'
  <2> SUFFICES ASSUME Parent[c] \in blocksByTemplateId
               PROVE  Depth'[Parent[c]] >= Depth'[c] + 1
    BY Zenon DEF Settled
  <2>1. /\ Parent[c] \in Blocks /\ c \in Blocks
        /\ Depth[Parent[c]] >= Depth[c] + 1
    BY <1>1, <1>3, Zenon DEF Settled
  <2>2. /\ Depth[Parent[c]] \in Nat /\ Depth[c] \in Nat /\ Depth'[Parent[c]] \in Nat
        /\ Depth'[Parent[c]] >= Depth[Parent[c]]
    BY <1>1, <1>2, <2>1
  <2> QED
    BY <1>3, <2>1, <2>2
<1> QED
  BY <1>1, <1>2, <1>3, Zenon

\* The first loop of updateDepths raises the new share above each one built on it.
LEMMA InitDepthSettles ==
  ASSUME HeightsAgree, IInv, DepthInv, InitDepth
  PROVE  DepthInv'
<1> DEFINE child == Head(todo)
<1>1. /\ adding \in Blocks /\ child \in StoredAbove(adding) /\ pc = "initDepth" /\ todo # <<>>
      /\ todo \in Seq(StoredAbove(adding))
  BY Reached, Zenon DEF InitDepth, IInv, Lists, TodoLists
<1>2. /\ child \in Blocks /\ child # adding /\ blocksByTemplateId \subseteq Blocks
      /\ Depth \in [Blocks -> Nat]
  BY <1>1, Reached, HeightOf DEF StoredAbove, IInv, TypeOK, StoreTypes
<1>3. ~WrongChild(adding, child)
  BY <1>1, <1>2, Zenon DEF HeightsAgree, WrongChild
<1>4. /\ todo' = Tail(todo) /\ pc' = "initDepth"
      /\ UNCHANGED <<adding, blocksToUpdate, returnFromUncles, blocksByTemplateId>>
      /\ IF Parent[child] = adding \/ ~SecondUncle(child, adding)
         THEN RaiseDepth(adding, Depth[child] + 1) ELSE UNCHANGED Depth
  BY <1>1, <1>3, Zenon DEF InitDepth, store
<1>5. Range(todo) = Range(Tail(todo)) \cup {child}
  BY <1>1, RangeOf, Zenon
<1>6. ~BeforeParent /\ ~BeforeParent' /\ blocksToUpdate = <<>> /\ Range(<<>>) = {}
  BY <1>1, <1>4 DEF BeforeParent, InVerifyLoop, DepthInv, ListUsed, Range
<1> HIDE DEF child
<1>7. ASSUME NEW c \in blocksByTemplateId, c # adding, Settled(c)
      PROVE  Settled(c)'
  <2>1. CASE UNCHANGED Depth
    BY <1>4, <1>7, <2>1, Zenon DEF Settled
  <2>2. CASE RaiseDepth(adding, Depth[child] + 1)
    BY <1>1, <1>2, <1>4, <1>7, <2>2, RaiseSettles
  <2> QED
    BY <1>4, <2>1, <2>2, Zenon
<1>8. ASSUME NEW c \in blocksByTemplateId, c = child, Parent[c] = adding
      PROVE  Settled(c)'
  <2>1. RaiseDepth(adding, Depth[child] + 1)
    BY <1>4, <1>8, Zenon
  <2>2. Depth'[adding] >= Depth[child] + 1 /\ Depth'[child] = Depth[child]
    BY <1>1, <1>2, <1>4, <2>1, RaiseSettles
  <2> QED
    BY <1>8, <2>2, Zenon DEF Settled
<1>9. SettledOrAwaited'
  <2> SUFFICES ASSUME NEW c \in blocksByTemplateId PROVE Settled(c)' \/ Awaited(c)'
    BY <1>4, Zenon DEF SettledOrAwaited
  <2>1. CASE c = adding
    BY <1>4, <2>1, Zenon DEF Awaited
  <2>2. CASE c # adding /\ Settled(c)
    BY <1>7, <2>2, Zenon
  <2>3. CASE Parent[c] = adding /\ c \in Range(todo)
    BY <1>4, <1>5, <1>8, <2>3, Zenon DEF Awaited
  <2> QED
    BY <1>1, <1>6, <2>1, <2>2, <2>3, Zenon DEF DepthInv, SettledOrAwaited, Awaited
<1> QED
  BY <1>4, <1>6, <1>9, Zenon DEF DepthInv, BlockDepthKept, UnclesLeft, ListUsed

\* Going to the next share of the work list.
LEMMA VisitSettles ==
  ASSUME IInv, DepthInv,
         InitDepthDone \/ VisitBlock \/ VisitDone \/ Propagate \/ PropagateDone
  PROVE  DepthInv'
<1>0. blocksToUpdate \in Seq(Blocks) /\ Range(<<>>) = {} /\ Range(<<adding>>) = {adding}
  BY DEF IInv, TypeOK, DepthLoopTypes, Range
<1>1. CASE InitDepthDone
  <2>1. /\ pc = "initDepth" /\ todo = <<>> /\ blocksToUpdate' = <<adding>> /\ pc' = "visit"
        /\ UNCHANGED <<returnFromUncles, blocksByTemplateId, Depth>>
    BY <1>1, Zenon DEF InitDepthDone, store
  <2>2. ~BeforeParent /\ ~BeforeParent' /\ blocksToUpdate = <<>>
    BY <2>1, Zenon DEF BeforeParent, InVerifyLoop, DepthInv, ListUsed
  <2>3. SettledOrAwaited'
    BY <1>0, <2>1, <2>2, Zenon DEF DepthInv, SettledOrAwaited, Awaited, Settled
  <2> QED
    BY <2>1, <2>2, <2>3, Zenon DEF DepthInv, BlockDepthKept, UnclesLeft, ListUsed
<1>2. CASE VisitBlock
  <2>1. /\ pc = "visit" /\ blocksToUpdate # <<>> /\ blocksToUpdate' = Rest(blocksToUpdate)
        /\ block' = Top(blocksToUpdate) /\ blockDepth' = Depth[Top(blocksToUpdate)]
        /\ pc' = "propagate" \/ (pc' = "verify" /\ ret' = "propagate")
        /\ UNCHANGED <<returnFromUncles, blocksByTemplateId, Depth>>
    BY <1>2, Zenon DEF VisitBlock, store
  <2>2. ~BeforeParent /\ BeforeParent' /\ pc' # "uncles"
    BY <2>1, Zenon DEF BeforeParent, InVerifyLoop
  <2>3. Range(blocksToUpdate) = Range(Rest(blocksToUpdate)) \cup {Top(blocksToUpdate)}
    BY <1>0, <2>1, RangeOf, Zenon
  <2>4. SettledOrAwaited'
    BY <2>1, <2>2, <2>3, Zenon DEF DepthInv, SettledOrAwaited, Awaited, Settled
  <2> QED
    BY <2>1, <2>2, <2>4, Zenon DEF DepthInv, BlockDepthKept, UnclesLeft, ListUsed
<1>3. CASE VisitDone
  <2>1. /\ pc = "visit" /\ blocksToUpdate = <<>> /\ pc' = "added"
        /\ UNCHANGED <<blocksToUpdate, returnFromUncles, blocksByTemplateId, Depth>>
    BY <1>3, Zenon DEF VisitDone, store, depthLoop
  <2>2. ~BeforeParent /\ ~BeforeParent'
    BY <2>1, Zenon DEF BeforeParent, InVerifyLoop
  <2>3. SettledOrAwaited'
    BY <1>0, <2>1, <2>2, Zenon DEF DepthInv, SettledOrAwaited, Awaited, Settled
  <2> QED
    BY <2>1, <2>2, <2>3, Zenon DEF DepthInv, BlockDepthKept, UnclesLeft, ListUsed
<1>4. CASE Propagate
  <2>1. /\ pc = "propagate" /\ pc' = "children"
        /\ UNCHANGED <<blocksToUpdate, block, blockDepth, returnFromUncles, blocksByTemplateId,
                       Depth>>
    BY <1>4, Zenon DEF Propagate, store
  <2>2. BeforeParent /\ BeforeParent'
    BY <2>1, Zenon DEF BeforeParent
  <2>3. SettledOrAwaited'
    BY <2>1, <2>2, Zenon DEF DepthInv, SettledOrAwaited, Awaited, Settled
  <2> QED
    BY <2>1, <2>2, <2>3, Zenon DEF DepthInv, BlockDepthKept, UnclesLeft, ListUsed
<1>5. CASE PropagateDone
  <2>1. /\ pc = "uncles" /\ pc' = "visit"
        /\ UNCHANGED <<blocksToUpdate, returnFromUncles, blocksByTemplateId, Depth>>
    BY <1>5, Zenon DEF PropagateDone, store, depthLoop, DepthInv
  <2>2. ~BeforeParent /\ ~BeforeParent'
    BY <2>1, Zenon DEF BeforeParent, InVerifyLoop
  <2>3. SettledOrAwaited'
    BY <2>1, <2>2, Zenon DEF DepthInv, SettledOrAwaited, Awaited, Settled
  <2> QED
    BY <2>1, <2>2, <2>3, Zenon DEF DepthInv, BlockDepthKept, UnclesLeft, ListUsed
<1> QED
  BY <1>1, <1>2, <1>3, <1>4, <1>5, Zenon

\* A share whose depth is raised is put on the work list, and the others stay as they were.
LEMMA RaiseAwaits ==
  ASSUME IInv, NEW x \in Blocks, NEW d \in Int, RaiseDepth(x, d), UNCHANGED blocksByTemplateId,
         blocksToUpdate' = IF Depth[x] < d THEN Append(blocksToUpdate, x) ELSE blocksToUpdate
  PROVE  /\ Range(blocksToUpdate) \subseteq Range(blocksToUpdate')
         /\ \A c \in blocksByTemplateId : Settled(c) => Settled(c)' \/ c \in Range(blocksToUpdate')
<1>1. blocksToUpdate \in Seq(Blocks) /\ Depth[x] \in Nat
  BY Zenon DEF IInv, TypeOK, DepthLoopTypes
<1>2. CASE Depth[x] < d
  <2>1. Range(blocksToUpdate') = Range(blocksToUpdate) \cup {x}
    BY <1>1, <1>2, RangeOf
  <2>2. \A c \in blocksByTemplateId : Settled(c) /\ c # x => Settled(c)'
    BY RaiseSettles, Zenon
  <2> QED
    BY <2>1, <2>2, Zenon
<1>3. CASE ~(Depth[x] < d)
  <2>1. \A c \in blocksByTemplateId : Settled(c) => Settled(c)'
    <3>1. Depth[x] >= d
      BY <1>1, <1>3
    <3> QED
      BY <3>1, RaiseSettles, Zenon
  <2> QED
    BY <1>3, <2>1, Zenon
<1> QED
  BY <1>2, <1>3, Zenon

\* The shares above the one at hand.
LEMMA ChildSettles ==
  ASSUME HeightsAgree, IInv, DepthInv, PropagateChild
  PROVE  DepthInv'
<1> DEFINE child == Head(todo)
<1>1. block \in Blocks /\ child \in StoredAbove(block) /\ pc = "children"
  BY Reached, Zenon DEF PropagateChild, IInv
<1>2. child \in Blocks /\ child # block
  BY <1>1, Reached, HeightOf DEF StoredAbove, IInv
<1>3. ~WrongChild(block, child)
  BY <1>1, <1>2, Zenon DEF HeightsAgree, WrongChild
<1>4. /\ pc' = "children" /\ RaiseDepth(child, ChildDepth(child))
      /\ blocksToUpdate' = IF Depth[child] < ChildDepth(child)
                           THEN Append(blocksToUpdate, child) ELSE blocksToUpdate
      /\ UNCHANGED <<block, blockDepth, returnFromUncles, blocksByTemplateId>>
  BY <1>1, <1>3, Zenon DEF PropagateChild, store
<1> HIDE DEF child
<1>5. ChildDepth(child) \in Int
  BY <1>1, <1>2, ChildDepthInt, Zenon DEF IInv
<1>6. BeforeParent /\ BeforeParent'
  BY <1>1, <1>4, Zenon DEF BeforeParent
<1>7. SettledOrAwaited'
  BY <1>1, <1>2, <1>4, <1>5, <1>6, RaiseAwaits, Zenon DEF DepthInv, SettledOrAwaited, Awaited
<1>8. Depth'[block] = Depth[block]
  BY <1>1, <1>2, <1>4, <1>5, RaiseSettles, Zenon
<1> QED
  BY <1>4, <1>6, <1>7, <1>8, Zenon DEF DepthInv, BlockDepthKept, UnclesLeft, ListUsed

\* The parent of the share at hand ends up deeper than it.
LEMMA ParentSettles ==
  ASSUME HeightsAgree, IInv, DepthInv, PropagateParent
  PROVE  DepthInv'
<1> DEFINE parent == GetParent(block)
<1>1. /\ block \in Blocks /\ pc = "children" /\ block # NoBlock
      /\ parent # NoBlock => parent \in Blocks /\ parent = Parent[block]
  BY Reached, BlocksAssumption, Zenon DEF PropagateParent, IInv, BlocksAssumption
<1>2. parent # NoBlock => Height[parent] + 1 = Height[block] /\ parent # block
  BY <1>1, HeightOf DEF HeightsAgree
<1>3. /\ pc' = "uncles" /\ todo' = Uncles[block]
      /\ IF parent # NoBlock /\ Depth[parent] < blockDepth + 1
         THEN /\ RaiseDepth(parent, blockDepth + 1)
              /\ blocksToUpdate' = Append(blocksToUpdate, parent)
         ELSE UNCHANGED <<Depth, blocksToUpdate>>
      /\ UNCHANGED <<block, blockDepth, returnFromUncles, blocksByTemplateId>>
  BY <1>1, <1>2, ZenonT(60) DEF PropagateParent, store
<1>4. Parent[block] \in blocksByTemplateId => parent = Parent[block] /\ parent # NoBlock
  <2>1. NoBlock \notin blocksByTemplateId
    BY BlocksAssumption, Zenon DEF BlocksAssumption, IInv, TypeOK, StoreTypes
  <2> QED
    BY <1>1, <2>1, Zenon DEF GetParent
<1> HIDE DEF parent
<1>5. BeforeParent /\ ~BeforeParent' /\ blockDepth = Depth[block]
  BY <1>1, <1>3, Zenon DEF BeforeParent, InVerifyLoop, DepthInv, BlockDepthKept
<1>6. blockDepth \in Nat /\ blockDepth + 1 \in Int /\ Depth \in [Blocks -> Nat]
  BY DEF IInv, TypeOK, DepthLoopTypes
<1>7. /\ Range(blocksToUpdate) \subseteq Range(blocksToUpdate')
      /\ \A c \in blocksByTemplateId : Settled(c) => Settled(c)' \/ c \in Range(blocksToUpdate')
  <2>1. CASE parent # NoBlock /\ Depth[parent] < blockDepth + 1
    BY <1>1, <1>3, <1>6, <2>1, RaiseAwaits, Zenon
  <2>2. CASE ~(parent # NoBlock /\ Depth[parent] < blockDepth + 1)
    BY <1>3, <2>2, Zenon DEF Settled
  <2> QED
    BY <2>1, <2>2, Zenon
<1>8. Settled(block)'
  <2> SUFFICES ASSUME Parent[block] \in blocksByTemplateId
               PROVE  Depth'[Parent[block]] >= Depth'[block] + 1
    BY <1>3, Zenon DEF Settled
  <2>1. parent = Parent[block] /\ parent # NoBlock /\ parent \in Blocks
    BY <1>1, <1>4, Zenon
  <2>2. CASE Depth[parent] < blockDepth + 1
    <3>1. Depth'[parent] >= blockDepth + 1 /\ Depth'[block] = Depth[block]
      BY <1>1, <1>2, <1>3, <1>6, <2>1, <2>2, RaiseSettles, Zenon
    <3> QED
      BY <1>5, <2>1, <3>1, Zenon
  <2>3. CASE ~(Depth[parent] < blockDepth + 1)
    <3>1. Depth' = Depth /\ Depth[parent] \in Nat
      BY <1>3, <1>6, <2>1, <2>3, Zenon
    <3> QED
      BY <1>5, <1>6, <2>1, <2>3, <3>1
  <2> QED
    BY <2>2, <2>3, Zenon
<1>9. SettledOrAwaited'
  <2> SUFFICES ASSUME NEW c \in blocksByTemplateId PROVE Settled(c)' \/ Awaited(c)'
    BY <1>3, Zenon DEF SettledOrAwaited
  <2>1. CASE c = block
    BY <1>8, <2>1, <1>3, Zenon DEF Settled
  <2>2. CASE c # block
    BY <1>1, <1>7, <2>2, Zenon DEF DepthInv, SettledOrAwaited, Awaited
  <2> QED
    BY <2>1, <2>2, Zenon
<1> QED
  BY <1>3, <1>5, <1>9, Zenon DEF DepthInv, BlockDepthKept, UnclesLeft, ListUsed

\* The uncles of the share at hand.
LEMMA UncleSettles ==
  ASSUME HeightsAgree, IInv, DepthInv, PropagateUncle
  PROVE  DepthInv'
<1> DEFINE uncle == Head(todo)
           d == Height[block] - Height[uncle]
<1>1. /\ block \in Blocks /\ pc = "uncles" /\ pc' = "uncles" /\ todo # <<>>
      /\ todo' \in {<<>>, Tail(todo)}
      /\ HasUncle(block, uncle) => uncle \in Blocks
      /\ UNCHANGED <<block, blockDepth, blocksByTemplateId>>
  <2>1. /\ pc = "uncles" /\ pc' = "uncles" /\ todo # <<>> /\ todo' \in {<<>>, Tail(todo)}
        /\ UNCHANGED <<block, blockDepth, blocksByTemplateId>>
    BY ZenonT(60) DEF PropagateUncle, store
  <2>2. TypeOK /\ Lists /\ Control
    BY Zenon DEF IInv
  <2> QED
    BY <2>1, <2>2, Reached, Zenon
<1>2. todo \in Seq(Blocks \cup {NoBlock}) /\ blockDepth \in Nat /\ Depth \in [Blocks -> Nat]
  BY Zenon DEF IInv, TypeOK, DepthLoopTypes
<1>3. Range(todo) = Range(Tail(todo)) \cup {uncle} /\ Range(<<>>) = {}
  <2>1. Range(<<>>) = {}
    BY DEF Range
  <2> QED
    BY <1>1, <1>2, <2>1, RangeOf, Zenon
<1>4. uncle \in Range(Uncles[block])
  BY <1>1, <1>3, Zenon DEF DepthInv, UnclesLeft
<1>5. uncle \in Blocks => ~(d < 1 \/ d > UncleBlockDepth) /\ d \in Int
  <2>1. PICK i \in DOMAIN Uncles[block] : Uncles[block][i] = uncle
    BY <1>4, Zenon DEF Range
  <2>2. uncle \in Blocks => d \in 1 .. UncleBlockDepth
    BY <1>1, <2>1, Zenon DEF HeightsAgree
  <2> QED
    BY <2>2 DEF UncleBlockDepth
<1>6. /\ UNCHANGED returnFromUncles
      /\ \/ UNCHANGED <<Depth, blocksToUpdate>>
         \/ /\ uncle \in Blocks /\ RaiseDepth(uncle, blockDepth + d)
            /\ blocksToUpdate' = IF Depth[uncle] < blockDepth + d
                                 THEN Append(blocksToUpdate, uncle) ELSE blocksToUpdate
  BY <1>1, <1>5, ZenonT(60) DEF PropagateUncle
<1> HIDE DEF uncle, d
<1>7. /\ Range(blocksToUpdate) \subseteq Range(blocksToUpdate')
      /\ \A c \in blocksByTemplateId : Settled(c) => Settled(c)' \/ c \in Range(blocksToUpdate')
  <2>1. CASE UNCHANGED <<Depth, blocksToUpdate>>
    BY <1>1, <2>1, Zenon DEF Settled
  <2>2. CASE /\ uncle \in Blocks /\ RaiseDepth(uncle, blockDepth + d)
             /\ blocksToUpdate' = IF Depth[uncle] < blockDepth + d
                                  THEN Append(blocksToUpdate, uncle) ELSE blocksToUpdate
    <3>1. blockDepth + d \in Int
      BY <1>2, <1>5, <2>2
    <3> QED
      BY <1>1, <2>2, <3>1, RaiseAwaits, Zenon
  <2> QED
    BY <1>6, <2>1, <2>2, Zenon
<1>8. ~BeforeParent /\ ~BeforeParent'
  BY <1>1, Zenon DEF BeforeParent, InVerifyLoop
<1>9. SettledOrAwaited'
  BY <1>1, <1>7, <1>8, Zenon DEF DepthInv, SettledOrAwaited, Awaited
<1> QED
  BY <1>1, <1>3, <1>6, <1>8, <1>9, Zenon DEF DepthInv, BlockDepthKept, UnclesLeft, ListUsed

\* Every step keeps the shares settled or awaited.
LEMMA StepDepthInv ==
  ASSUME HeightsAgree, IInv, StoreInv, DepthInv, [Next]_vars
  PROVE  DepthInv'
<1>1. ASSUME UNCHANGED <<depthLoop, blocksByTemplateId, Depth, ret, pc>>
      PROVE  DepthInv'
  <2>1. BeforeParent' <=> BeforeParent
    BY <1>1, Zenon DEF BeforeParent, InVerifyLoop
  <2>2. SettledOrAwaited'
    BY <1>1, <2>1, Zenon DEF DepthInv, SettledOrAwaited, Awaited, Settled, depthLoop
  <2> QED
    BY <1>1, <2>1, <2>2, Zenon DEF DepthInv, BlockDepthKept, UnclesLeft, ListUsed, depthLoop
<1>2. ASSUME NEW b \in Blocks,
             \/ Receive(b) \/ Reject(b) \/ PowError(b) \/ Admit(b)
             \/ AddPoolBlockAgain(b) \/ Expire(b) \/ WatchMainChainBlock(b)
      PROVE  DepthInv'
  <2>1. UNCHANGED <<depthLoop, blocksByTemplateId, Depth, ret, pc>>
    BY <1>2, Zenon DEF Receive, Reject, PowError, Admit, AddPoolBlockAgain, Expire,
                       WatchMainChainBlock, store, verifying
  <2> QED
    BY <1>1, <2>1, Zenon
<1>3. CASE UNCHANGED vars
  BY <1>1, <1>3, Zenon DEF vars, store, verifying
<1>4. CASE UpdateDepths
  BY <1>4, InitDepthSettles, VisitSettles, ChildSettles, ParentSettles, UncleSettles, Zenon
  DEF UpdateDepths
<1>5. ASSUME (\E b \in Blocks : AddPoolBlock(b)) \/ AfterDepths \/ Done
      PROVE  DepthInv'
  BY <1>5, AddKeepsDepths, Zenon
<1>6. ASSUME VerifyLoop \/ UpdateChainTip \/ PruneOldBlocks
      PROVE  DepthInv'
  BY <1>6, VerifyKeepsDepths, Zenon
<1> QED
  BY <1>2, <1>3, <1>4, <1>5, <1>6, ZenonT(60) DEF Next, LockHolder

\* For shares whose heights agree, every parent that is stored is deeper than each share built
\* on it once AddPoolBlock returns: the work list of updateDepths, which verifyLoop and
\* pruneOldBlocks interrupt, misses none.
THEOREM DepthsSettle ==
  ASSUME HeightsAgree
  PROVE  Spec => []DepthsSettled
<1>1. Init => DepthInv
  BY Zenon DEF Init, DepthInv, SettledOrAwaited, BlockDepthKept, UnclesLeft, ListUsed, BeforeParent,
         InVerifyLoop
<1>2. IInv /\ StoreInv /\ DepthInv /\ [Next]_vars => DepthInv'
  BY StepDepthInv, Zenon
<1>3. DepthInv => DepthsSettled
  <2> SUFFICES ASSUME DepthInv, pc = "free" PROVE \A c \in blocksByTemplateId : Settled(c)
    BY Zenon DEF DepthsSettled, Settled
  <2>1. blocksToUpdate = <<>> /\ ~BeforeParent /\ Range(<<>>) = {}
    BY DEF DepthInv, ListUsed, BeforeParent, InVerifyLoop, Range
  <2> QED
    BY <2>1, Zenon DEF DepthInv, SettledOrAwaited, Awaited
<1> QED
  BY <1>1, <1>2, <1>3, StoreInvariance, PTL DEF Spec
-----------------------------------------------------------------------------
(***************************************************************************)
(* The window under the tip, for shares whose heights agree.               *)
(***************************************************************************)
\* What a walk does, in any state.
WalksUp ==
  \A b : /\ Ancestor(b, 0) = b
         /\ \A k \in Nat : Ancestor(b, k + 1) = GetParent(Ancestor(b, k))

LEMMA WalksUpNow == WalksUp
BY AncestorUp, Zenon DEF WalksUp

LEMMA WalksUpNext == WalksUp'
BY WalksUpNow, PTL

\* The ancestor k steps up is k heights down.
LEMMA AncestorHeight ==
  ASSUME HeightsAgree, NEW b \in Blocks, NEW k \in Nat, Ancestor(b, k) # NoBlock
  PROVE  Ancestor(b, k) \in Blocks /\ Height[Ancestor(b, k)] = Height[b] - k
<1> DEFINE Right(n) == Ancestor(b, n) \in Blocks /\ Height[Ancestor(b, n)] = Height[b] - n
           T == {n \in Nat : Ancestor(b, n) # NoBlock /\ ~Right(n)}
<1> SUFFICES ASSUME T # {} PROVE FALSE
  BY Zenon
<1>0. NoBlock \notin Blocks /\ Height[b] \in Nat /\ GetParent(NoBlock) = NoBlock
  BY BlocksAssumption, HeightOf, Zenon DEF BlocksAssumption, GetParent
<1>1. PICK n \in T : \A m \in T : n <= m
  BY Least, Zenon
<1>2. CASE n = 0
  BY <1>0, <1>2, WalksUpNow DEF WalksUp
<1>3. CASE n # 0
  <2>1. PICK m \in Nat : n = m + 1
    BY <1>3
  <2> DEFINE a == Ancestor(b, m)
  <2>2. Ancestor(b, n) = GetParent(a)
    BY <2>1, WalksUpNow, Zenon DEF WalksUp
  <2>3. a # NoBlock /\ m \notin T
    BY <1>0, <1>1, <2>1, <2>2
  <2>4. a \in Blocks /\ Height[a] = Height[b] - m
    BY <2>3, Zenon
  <2> HIDE DEF a
  <2>5. GetParent(a) # NoBlock
    BY <2>2, Zenon
  <2>6. GetParent(a) = Parent[a] /\ Parent[a] \in Blocks
    BY <2>4, <2>5, BlocksAssumption, Zenon DEF GetParent, BlocksAssumption
  <2>7. Height[a] = Height[Parent[a]] + 1 /\ Height[Parent[a]] \in Nat
    BY <2>4, <2>6, HeightOf, Zenon DEF HeightsAgree
  <2>8. Height[Parent[a]] = Height[b] - n
    BY <1>0, <2>1, <2>4, <2>7
  <2> QED
    BY <2>2, <2>6, <2>8, Zenon
<1> QED
  BY <1>2, <1>3, Zenon

\* A step that keeps the links of the shares in a window keeps the window.
LEMMA WindowStays ==
  ASSUME HeightsAgree, NEW tip \in Blocks, WindowComplete(tip),
         \A a \in Blocks : Height[a] > Height[tip] - ChainWindowSize =>
           /\ GetParent(a) # NoBlock => GetParent(a)' = GetParent(a)
           /\ \A i \in DOMAIN Uncles[a] :
                HasUncle(a, Uncles[a][i]) => HasUncle(a, Uncles[a][i])'
  PROVE  WindowComplete(tip)'
<1> DEFINE Anc(k) == Ancestor(tip, k)
           On(k) == \A j \in 0 .. k - 1 : Anc(j) # NoBlock /\ Height[Anc(j)] # 0
           T == {k \in Nat : k < ChainWindowSize /\ On(k)' /\ Anc(k)' # Anc(k)}
<1>0. /\ Height[tip] \in Nat /\ ChainWindowSize \in Nat
      /\ \A k \in Nat : Anc(k) # NoBlock => Anc(k) \in Blocks /\ Height[Anc(k)] = Height[tip] - k
  BY HeightOf, AncestorHeight, ConsensusAssumption, Zenon DEF ConsensusAssumption
<1>1. ASSUME NEW k \in Nat, k < ChainWindowSize, On(k)
      PROVE  Anc(k) # NoBlock /\ \A i \in DOMAIN Uncles[Anc(k)] : HasUncle(Anc(k), Uncles[Anc(k)][i])
  <2>1. k \in 0 .. ChainWindowSize - 1
    BY <1>0, <1>1
  <2> QED
    BY <1>1, <2>1, Zenon DEF WindowComplete
<1>w. /\ Anc(0) = tip /\ Anc(0)' = tip
      /\ \A k \in Nat : Anc(k + 1) = GetParent(Anc(k)) /\ Anc(k + 1)' = GetParent(Anc(k))'
  BY WalksUpNow, WalksUpNext, Zenon DEF WalksUp
<1> HIDE DEF Anc
<1>2. ASSUME NEW k \in Nat, k < ChainWindowSize, On(k)', \A j \in Nat : j < k => Anc(j)' = Anc(j)
      PROVE  On(k) /\ Anc(k)' = Anc(k)
  <2>1. On(k)
    BY <1>2
  <2>2. CASE k = 0
    BY <1>w, <2>1, <2>2, Zenon
  <2>3. CASE k # 0
    <3>1. PICK j \in Nat : k = j + 1
      BY <2>3
    <3>2. Anc(j) # NoBlock /\ Anc(j)' = Anc(j)
      BY <1>2, <2>1, <3>1
    <3>3. Anc(k) # NoBlock /\ Anc(k) = GetParent(Anc(j)) /\ Anc(k)' = GetParent(Anc(j))'
      BY <1>1, <1>2, <1>w, <2>1, <3>1, Zenon
    <3>4. PICK a \in Blocks : a = Anc(j) /\ Height[a] = Height[tip] - j
      BY <1>0, <3>2, Zenon
    <3>5. Height[a] > Height[tip] - ChainWindowSize
      BY <1>0, <1>2, <3>1, <3>4
    <3>6. GetParent(a)' = GetParent(a)
      BY <3>3, <3>4, <3>5, Zenon
    <3>7. Anc(k)' = GetParent(a)'
      BY <3>2, <3>3, <3>4, Zenon DEF GetParent
    <3> QED
      BY <2>1, <3>3, <3>4, <3>6, <3>7, Zenon
  <2> QED
    BY <2>2, <2>3, Zenon
<1>3. T = {}
  <2> SUFFICES ASSUME T # {} PROVE FALSE
    BY Zenon
  <2>1. PICK k \in T : \A m \in T : k <= m
    BY Least, Zenon
  <2>2. ASSUME NEW j \in Nat, j < k PROVE Anc(j)' = Anc(j)
    <3>1. j \notin T /\ j < ChainWindowSize
      BY <1>0, <2>1, <2>2
    <3>2. On(j)'
      BY <2>2
    <3> QED
      BY <3>1, <3>2, Zenon
  <2> QED
    BY <1>2, <2>2, Zenon
<1>4. ASSUME NEW k \in 0 .. ChainWindowSize - 1, On(k)'
      PROVE  Anc(k)' # NoBlock /\ \A i \in DOMAIN Uncles[Anc(k)'] :
                                    HasUncle(Anc(k), Uncles[Anc(k)][i])'
  <2>1. k \in Nat /\ k < ChainWindowSize
    BY <1>0
  <2>2. ASSUME NEW j \in Nat, j <= k PROVE Anc(j)' = Anc(j)
    <3>1. On(j)' /\ j < ChainWindowSize
      BY <1>0, <1>4, <2>1, <2>2
    <3> QED
      BY <1>3, <3>1, Zenon
  <2>3. On(k) /\ Anc(k)' = Anc(k)
    BY <1>2, <1>4, <2>1, <2>2
  <2>4. PICK a \in Blocks : a = Anc(k) /\ Height[a] = Height[tip] - k
    BY <1>0, <1>1, <2>1, <2>3, Zenon
  <2>5. /\ Height[a] > Height[tip] - ChainWindowSize
        /\ \A i \in DOMAIN Uncles[a] : HasUncle(a, Uncles[a][i])
    BY <1>0, <1>1, <2>1, <2>3, <2>4
  <2>6. \A i \in DOMAIN Uncles[a] : HasUncle(a, Uncles[a][i])'
    BY <2>5, Zenon
  <2>7. Anc(k)' = a /\ Anc(k) # NoBlock
    BY <1>1, <2>1, <2>3, <2>4, Zenon
  <2> QED
    BY <2>4, <2>6, <2>7, Zenon DEF HasUncle
<1> QED
  BY <1>4, Zenon DEF WindowComplete, Anc

\* GetDifficultyForNextBlock and the payouts of the next share find every block and uncle they
\* walk over from the tip.
TipWindowComplete == chainTip # NoBlock => WindowComplete(chainTip)

\* The window of the tip is the window of the share it is, in any state.
TipNamed == \A t : t = chainTip => (WindowComplete(t) <=> WindowComplete(chainTip))

LEMMA TipNamedNow == TipNamed
BY Zenon DEF TipNamed

LEMMA TipNamedNext == TipNamed'
BY TipNamedNow, PTL

\* No step cuts a link of a share that is in the window of the tip: pruneOldBlocks removes what
\* is further down, also further than the uncles of the last share of the window.
LEMMA LinksKept ==
  ASSUME HeightsAgree, ChainWindowSize > 1, IInv, StoreInv, Next, chainTip # NoBlock,
         NEW a \in Blocks, Height[a] > Height[chainTip] - ChainWindowSize
  PROVE  /\ GetParent(a) # NoBlock => GetParent(a)' = GetParent(a)
         /\ \A i \in DOMAIN Uncles[a] :
              HasUncle(a, Uncles[a][i]) => HasUncle(a, Uncles[a][i])'
<1>0. /\ TypeOK /\ Control /\ Indexed /\ NoBlock \notin Blocks
      /\ chainTip \in Blocks /\ Height[chainTip] \in Nat /\ Height[a] \in Nat
      /\ blocksByTemplateId \subseteq Blocks
      /\ blocksByHeight \in [Heights -> Seq(Blocks)]
  BY HeightOf, BlocksAssumption, Zenon
  DEF IInv, StoreInv, TypeOK, TipTypes, StoreTypes, BlocksAssumption
<1>1. ASSUME blocksByTemplateId \subseteq blocksByTemplateId', iterationCache \subseteq iterationCache'
      PROVE  /\ GetParent(a) # NoBlock => GetParent(a)' = GetParent(a)
             /\ \A i \in DOMAIN Uncles[a] :
                  HasUncle(a, Uncles[a][i]) => HasUncle(a, Uncles[a][i])'
  BY <1>1, Zenon DEF GetParent, HasUncle
<1>2. CASE PruneBlock
  <2> DEFINE b == blocksByHeight[pruneKey][pruneIndex]
  <2>1. pruneKey \in Heights /\ pruneIndex \in 1 .. Len(blocksByHeight[pruneKey])
    BY <1>0, <1>2, PruneAt, Zenon
  <2>2. b \in Range(blocksByHeight[pruneKey])
    BY <1>0, <2>1 DEF Range
  <2>3. Height[b] = pruneKey /\ b \in Blocks
    BY <1>0, <2>1, <2>2 DEF Indexed
  <2>4. \/ UNCHANGED <<blocksByTemplateId, iterationCache>>
        \/ /\ blocksByTemplateId' = blocksByTemplateId \ {b}
           /\ iterationCache' = iterationCache \ {b}
    BY <1>2, Zenon DEF PruneBlock
  <2>5. pruneKey <= Height[chainTip] - PruneDistance
    BY <1>2, Zenon DEF PruneBlock, StoreInv, PruneLimit, PruneTo
  <2> HIDE DEF b
  <2>6. Height[b] + UncleBlockDepth < Height[a]
    <3>1. /\ ChainWindowSize \in Nat /\ PruneSpare \in Nat \ {0} /\ Height[b] \in Nat
      BY <2>3, HeightOf, ConsensusAssumption, Zenon DEF ConsensusAssumption
    <3> QED
      BY <1>0, <2>3, <2>5, <3>1 DEF PruneDistance, UncleBlockDepth
  <2>7. a # b /\ Parent[a] # b
    <3>1. Height[b] \in Nat
      BY <2>3, HeightOf, Zenon
    <3> QED
      BY <1>0, <2>3, <2>6, <3>1 DEF HeightsAgree, UncleBlockDepth
  <2>8. \A i \in DOMAIN Uncles[a] : Uncles[a][i] # b
    <3> SUFFICES ASSUME NEW i \in DOMAIN Uncles[a], Uncles[a][i] = b PROVE FALSE
      BY Zenon
    <3>1. Height[a] - Height[b] \in 1 .. UncleBlockDepth
      BY <2>3, Zenon DEF HeightsAgree
    <3>2. Height[b] \in Nat
      BY <2>3, HeightOf, Zenon
    <3> QED
      BY <1>0, <2>6, <3>1, <3>2 DEF UncleBlockDepth
  <2>9. CASE UNCHANGED <<blocksByTemplateId, iterationCache>>
    BY <1>1, <2>9, Zenon
  <2>10. CASE /\ blocksByTemplateId' = blocksByTemplateId \ {b}
              /\ iterationCache' = iterationCache \ {b}
    BY <2>7, <2>8, <2>10, Zenon DEF GetParent, HasUncle
  <2> QED
    BY <2>4, <2>9, <2>10, Zenon
<1>3. CASE ~PruneBlock
  <2>1. blocksByTemplateId \subseteq blocksByTemplateId'
    BY <1>0, <1>3, Effects, Zenon DEF AddPoolBlock
  <2>2. iterationCache \subseteq iterationCache'
    <3>1. ASSUME NEW b \in Blocks, VerifyOk(b) PROVE iterationCache \subseteq iterationCache'
      BY <3>1, Zenon DEF VerifyOk
    <3> QED
      BY <1>0, <1>3, <3>1, Effects, Zenon
  <2> QED
    BY <1>1, <2>1, <2>2, Zenon
<1> QED
  BY <1>2, <1>3, Zenon

\* For shares whose heights agree, the window under the chain tip is complete at every moment:
\* neither the shares AddPoolBlock brings, nor the ones pruneOldBlocks takes away, nor a change
\* of the tip leaves a hole in it, so that the next share's difficulty and payouts can be
\* computed.
THEOREM WindowNeverBreaks ==
  ASSUME HeightsAgree, ChainWindowSize > 1
  PROVE  Spec => []TipWindowComplete
<1>1. Init => TipWindowComplete
  BY Zenon DEF Init, TipWindowComplete
<1>2. ASSUME IInv, StoreInv, TipWindowComplete, [Next]_vars
      PROVE  TipWindowComplete'
  <2> SUFFICES ASSUME chainTip' # NoBlock
               PROVE  WindowComplete(chainTip)'
    BY Zenon DEF TipWindowComplete
  <2>0. TypeOK /\ Control
    BY <1>2, Zenon DEF IInv
  <2>1. ASSUME NEW tip \in Blocks, tip = chainTip', WindowComplete(tip),
               UNCHANGED <<blocksByTemplateId, iterationCache>>
        PROVE  WindowComplete(tip)'
    <3>1. ASSUME NEW a \in Blocks
          PROVE  /\ GetParent(a)' = GetParent(a)
                 /\ \A i \in DOMAIN Uncles[a] :
                      HasUncle(a, Uncles[a][i]) => HasUncle(a, Uncles[a][i])'
      BY <2>1, Zenon DEF GetParent, HasUncle
    <3> QED
      BY <2>1, <3>1, WindowStays, Zenon
  <2>2. \E tip \in Blocks : tip = chainTip' /\ WindowComplete(tip)'
    <3>1. CASE UNCHANGED vars
      <4>1. UNCHANGED <<chainTip, blocksByTemplateId, iterationCache>>
        BY <3>1, Zenon DEF vars, store, flags, tips
      <4>2. PICK tip \in Blocks : tip = chainTip
        BY <2>0, <4>1, Zenon DEF TypeOK, TipTypes
      <4>3. WindowComplete(tip)
        BY <1>2, <4>1, <4>2, Zenon DEF TipWindowComplete
      <4> QED
        BY <2>1, <4>1, <4>2, <4>3, Zenon
    <3>2. CASE AdoptTip
      <4>1. /\ WindowComplete(highestBlock) /\ chainTip' = highestBlock /\ pc = "tip"
            /\ UNCHANGED <<blocksByTemplateId, iterationCache>>
        BY <3>2, Zenon DEF AdoptTip, NextDifficultyKnown, store, flags
      <4>2. PICK tip \in Blocks : tip = highestBlock
        BY <2>0, <4>1, Zenon DEF Control
      <4> QED
        BY <2>1, <4>1, <4>2, Zenon
    <3>3. CASE Next /\ UNCHANGED chainTip
      <4>1. PICK tip \in Blocks : tip = chainTip
        BY <2>0, <3>3, Zenon DEF TypeOK, TipTypes
      <4>2. WindowComplete(tip)
        BY <1>2, <3>3, <4>1, Zenon DEF TipWindowComplete
      <4>3. WindowComplete(tip)'
        BY <1>2, <3>3, <4>1, <4>2, LinksKept, WindowStays, Zenon
      <4> QED
        BY <3>3, <4>1, <4>3, Zenon
    <3> QED
      BY <1>2, <2>0, <3>1, <3>2, <3>3, Effects, Zenon
  <2>3. PICK tip \in Blocks : tip = chainTip' /\ WindowComplete(tip)'
    BY <2>2, Zenon
  <2> QED
    BY <2>3, TipNamedNext, Zenon DEF TipNamed
<1> QED
  BY <1>1, <1>2, StoreInvariance, PTL DEF Spec
====
