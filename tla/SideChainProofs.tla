-------------------------- MODULE SideChainProofs --------------------------
(***************************************************************************)
(* The inductive invariant of SideChain, for every set of shares and every *)
(* window size; the proof that each step keeps its types, the lists and    *)
(* the local variables the loops rely on; and the theorems about types,    *)
(* verdicts, broadcasts and depths.                                        *)
(***************************************************************************)
EXTENDS SideChain, TLAPS

\* The shares stored or pruned at one height, and those above a share.
StoredAt(h) == {b \in EverAdded : Height[b] = h}
StoredAbove(b) == {c \in EverAdded : Height[c] > Height[b]}

\* What the loops rely on: the lists hold shares that were added, under their height.
HeightLists == \A h \in Heights : blocksByHeight[h] \in Seq(StoredAt(h))
CacheLists == \A b \in iterationCache : Parent[b] \in EverAdded /\ Uncles[b] \in Seq(EverAdded)
UpdateList == blocksToUpdate \in Seq(EverAdded)
TodoLists ==
  /\ pc = "initDepth" => todo \in Seq(StoredAbove(adding))
  /\ pc = "children" => todo \in Seq(StoredAbove(block))
  /\ pc = "uncles" /\ block \in iterationCache => todo \in Seq(EverAdded)
Lists == HeightLists /\ CacheLists /\ UpdateList /\ TodoLists

\* Which local variables are set where.
Control ==
  /\ pc # "free" => adding \in EverAdded
  /\ pc \in {"propagate", "children", "uncles"} => block \in EverAdded
  /\ pc \in {"verify", "tip", "prune", "pruneHeight", "broadcast"} /\ ret = "propagate"
       => block \in EverAdded
  /\ pc = "tip" => highestBlock \in Blocks
  /\ pc \in {"prune", "pruneHeight", "broadcast"} => highestBlock \in Valid
  /\ pc = "pruneHeight" => /\ pruneKey \in Heights
                           /\ pruneIndex <= Len(blocksByHeight[pruneKey])

\* The inductive invariant.
IInv ==
  /\ TypeOK /\ Lists /\ Control
  /\ Invalid \subseteq Verified
  /\ BroadcastOnce
  /\ ValidParent
  /\ DepthBound
  /\ block # NoBlock => blockDepth <= Depth[block]
-----------------------------------------------------------------------------
(***************************************************************************)
(* Sequences.                                                              *)
(***************************************************************************)

\* The elements of a work list stay in the set they were taken from.
LEMMA SeqMono == ASSUME NEW S, NEW T, S \subseteq T, NEW s \in Seq(S) PROVE s \in Seq(T)
OBVIOUS

\* Taking the last element off a work list, as the pops of updateDepths and verifyLoop do.
LEMMA Pop ==
  ASSUME NEW S, NEW s \in Seq(S), s # <<>>
  PROVE  Rest(s) \in Seq(S) /\ Top(s) \in S
BY DEF Rest, Top

\* Taking the first element off the rest of a range.
LEMMA Advance ==
  ASSUME NEW S, NEW s \in Seq(S), s # <<>>
  PROVE  Head(s) \in S /\ Tail(s) \in Seq(S)
OBVIOUS

\* slices.Delete(v, i, i+1) keeps the other elements.
LEMMA DeleteOne ==
  ASSUME NEW S, NEW s \in Seq(S), NEW i \in 1 .. Len(s)
  PROVE  /\ SubSeq(s, 1, i - 1) \o SubSeq(s, i + 1, Len(s)) \in Seq(S)
         /\ Len(SubSeq(s, 1, i - 1) \o SubSeq(s, i + 1, Len(s))) = Len(s) - 1
<1> DEFINE l == SubSeq(s, 1, i - 1)
           r == SubSeq(s, i + 1, Len(s))
<1>1. l \in Seq(S) /\ Len(l) = i - 1
  OBVIOUS
<1>2. r \in Seq(S) /\ Len(r) = Len(s) - i
  OBVIOUS
<1> HIDE DEF l, r
<1>3. l \o r \in Seq(S) /\ Len(l \o r) = Len(s) - 1
  BY <1>1, <1>2
<1> QED
  BY <1>3, Zenon DEF l, r

\* Above(b) lists shares that were added, at greater heights than b.
LEMMA AboveStored ==
  ASSUME NEW b \in Blocks, BlocksAssumption, EverAdded \subseteq Blocks,
         \A h \in Heights : blocksByHeight[h] \in Seq(StoredAt(h))
  PROVE  Above(b) \in Seq(StoredAbove(b))
<1>1. ASSUME NEW h \in Nat, h > Height[b]
      PROVE  AtHeight(h) \in Seq(StoredAbove(b))
  <2>1. CASE h \in Heights
    <3>1. StoredAt(h) \subseteq StoredAbove(b)
      BY <1>1, Zenon DEF StoredAt, StoredAbove
    <3> QED
      BY <2>1, <3>1, SeqMono, Zenon DEF AtHeight
  <2>2. CASE h \notin Heights
    BY <2>2 DEF AtHeight
  <2> QED
    BY <2>1, <2>2, Zenon
<1>2. Height[b] \in Nat
  BY Zenon DEF BlocksAssumption
<1> DEFINE one == AtHeight(Height[b] + 1)
           two == AtHeight(Height[b] + 2)
           three == AtHeight(Height[b] + 3)
           T == StoredAbove(b)
<1>3. one \in Seq(T) /\ two \in Seq(T) /\ three \in Seq(T)
  BY <1>1, <1>2, SMTT(60)
<1> HIDE DEF one, two, three, T
<1>4. one \o two \o three \in Seq(T)
  BY <1>3
<1> QED
  BY <1>4, Zenon DEF one, two, three, T, Above
-----------------------------------------------------------------------------
(***************************************************************************)
(* Types.                                                                  *)
(***************************************************************************)

\* What an action leaves alone keeps its type.
LEMMA TypeFrame ==
  ASSUME TypeOK
  PROVE  /\ UNCHANGED store => StoreTypes'
         /\ UNCHANGED flags => FlagTypes'
         /\ UNCHANGED casts => CastTypes'
         /\ UNCHANGED tips => TipTypes'
         /\ UNCHANGED intake => IntakeTypes'
         /\ UNCHANGED depthLoop => DepthLoopTypes'
         /\ UNCHANGED verifying => VerifyTypes'
         /\ UNCHANGED pruning => PruneTypes'
<1>1. UNCHANGED store => StoreTypes'
  BY Zenon DEF TypeOK, StoreTypes, store
<1>2. UNCHANGED flags => FlagTypes'
  BY Zenon DEF TypeOK, FlagTypes, flags
<1>3. UNCHANGED casts => CastTypes'
  BY Zenon DEF TypeOK, CastTypes, casts
<1>4. UNCHANGED tips => TipTypes'
  BY Zenon DEF TypeOK, TipTypes, tips
<1>5. UNCHANGED intake => IntakeTypes'
  BY Zenon DEF TypeOK, IntakeTypes, intake
<1>6. UNCHANGED depthLoop => DepthLoopTypes'
  BY Zenon DEF TypeOK, DepthLoopTypes, depthLoop
<1>7. UNCHANGED verifying => VerifyTypes'
  BY Zenon DEF TypeOK, VerifyTypes, verifying
<1>8. UNCHANGED pruning => PruneTypes'
  BY Zenon DEF TypeOK, PruneTypes, pruning
<1> QED
  BY <1>1, <1>2, <1>3, <1>4, <1>5, <1>6, <1>7, <1>8, Zenon

\* The steps outside of the lock, and of the goroutines that find nothing to do.
LEMMA TypeReceive ==
  ASSUME TypeOK, NEW b \in Blocks,
         \/ Receive(b) \/ Reject(b) \/ PowError(b) \/ Admit(b)
         \/ AddPoolBlockAgain(b) \/ Expire(b) \/ WatchMainChainBlock(b)
  PROVE  TypeOK'
<1>1. CASE Receive(b)
  <2>1. PICK nonce \in Nonces :
          \/ UNCHANGED <<seenBlocks, inFlight>>
          \/ /\ seenBlocks' = seenBlocks \cup {<<b, nonce>>}
             /\ inFlight' = inFlight \cup {<<b, nonce>>}
    BY <1>1, Zenon DEF Receive
  <2>2. <<b, nonce>> \in FullIds
    BY Zenon DEF FullIds
  <2>3. IntakeTypes'
    BY <1>1, <2>1, <2>2, ZenonT(60) DEF Receive, TypeOK, IntakeTypes
  <2> QED
    BY <1>1, <2>3, TypeFrame, Zenon DEF Receive, TypeOK
<1>2. CASE Reject(b) \/ PowError(b) \/ Admit(b) \/ AddPoolBlockAgain(b)
           \/ Expire(b) \/ WatchMainChainBlock(b)
  <2>1. IntakeTypes'
    BY <1>2, Zenon DEF Reject, PowError, Admit, AddPoolBlockAgain, Expire, WatchMainChainBlock,
              TypeOK, IntakeTypes
  <2> QED
    BY <1>2, <2>1, TypeFrame, ZenonT(60) DEF Reject, PowError, Admit, AddPoolBlockAgain, Expire,
              WatchMainChainBlock, TypeOK
<1> QED
  BY <1>1, <1>2, Zenon

\* Above(b) as a list of shares.
LEMMA AboveBlocks ==
  ASSUME TypeOK, Lists, NEW b \in Blocks
  PROVE  Above(b) \in Seq(StoredAbove(b)) /\ Above(b) \in Seq(Blocks)
<1>1. EverAdded \subseteq Blocks
  BY Zenon DEF TypeOK, StoreTypes, EverAdded
<1>2. Above(b) \in Seq(StoredAbove(b))
  BY <1>1, AboveStored, BlocksAssumption, SMTT(60) DEF Lists, HeightLists
<1>3. StoredAbove(b) \subseteq Blocks
  BY <1>1, Zenon DEF StoredAbove
<1> QED
  BY <1>2, <1>3, SeqMono, Zenon

\* Entering and leaving AddPoolBlock.
LEMMA TypeAdd ==
  ASSUME TypeOK, Lists, Control,
         (\E b \in Blocks : AddPoolBlock(b)) \/ AfterDepths \/ Done
  PROVE  TypeOK'
<1>1. ASSUME NEW b \in Blocks, AddPoolBlock(b)
      PROVE  TypeOK'
  <2>1. StoreTypes'
    <3>1. Height[b] \in Heights
      BY Zenon DEF Heights
    <3>2. blocksByHeight[Height[b]] \in Seq(Blocks)
      BY <3>1, Zenon DEF TypeOK, StoreTypes
    <3>3. Append(blocksByHeight[Height[b]], b) \in Seq(Blocks)
      BY <3>2, SMTT(60)
    <3> QED
      BY <1>1, <3>1, <3>3, Zenon DEF AddPoolBlock, TypeOK, StoreTypes
  <2>2. IntakeTypes'
    BY <1>1, SMTT(60) DEF AddPoolBlock, TypeOK, IntakeTypes
  <2>3. DepthLoopTypes'
    <3>1. Above(b) \in Seq(Blocks \cup {NoBlock})
      BY AboveBlocks, SeqMono, Zenon
    <3> QED
      BY <1>1, <3>1, Zenon DEF AddPoolBlock, TypeOK, DepthLoopTypes
  <2>4. CastTypes'
    <3>1. WantBroadcast' \in {WantBroadcast, WantBroadcast \cup {b}} /\ UNCHANGED <<Broadcasted, sent>>
      BY <1>1, Zenon DEF AddPoolBlock
    <3> QED
      BY <3>1, ZenonT(60) DEF TypeOK, CastTypes
  <2> QED
    BY <1>1, <2>1, <2>2, <2>3, <2>4, TypeFrame, ZenonT(60) DEF AddPoolBlock, TypeOK
<1>2. CASE AfterDepths
  <2>1. adding \in Blocks
    BY <1>2, Zenon DEF AfterDepths, Control, TypeOK, StoreTypes, EverAdded
  <2>2. VerifyTypes'
    <3>1. <<adding>> \in Seq(Blocks)
      BY <2>1
    <3>2. blocksToVerify' \in {blocksToVerify, <<adding>>}
      BY <1>2, Zenon DEF AfterDepths
    <3>3. highestBlock' \in {highestBlock, adding, NoBlock}
      BY <1>2, Zenon DEF AfterDepths
    <3> QED
      BY <1>2, <2>1, <3>1, <3>2, <3>3, Zenon DEF AfterDepths, TypeOK, VerifyTypes
  <2>3. pc' \in {"done", "tip", "verify"}
    BY <1>2, Zenon DEF AfterDepths
  <2> QED
    BY <1>2, <2>2, <2>3, TypeFrame, Zenon DEF AfterDepths, TypeOK
<1>3. CASE Done
  <2>1. TipTypes'
    <3>1. syncTip' \in {adding, syncTip}
      BY <1>3, Zenon DEF Done
    <3> QED
      BY <1>3, <3>1, Zenon DEF Done, TypeOK, TipTypes, DepthLoopTypes
  <2>2. DepthLoopTypes'
    <3>1. todo' \in Seq(Blocks \cup {NoBlock}) /\ blocksToUpdate' \in Seq(Blocks)
      BY <1>3 DEF Done
    <3>2. adding' = NoBlock /\ block' = NoBlock /\ blockDepth' \in Nat
      BY <1>3, Zenon DEF Done
    <3>3. returnFromUncles' \in BOOLEAN
      BY <1>3, Zenon DEF Done
    <3> QED
      BY <3>1, <3>2, <3>3, Zenon DEF DepthLoopTypes
  <2> QED
    BY <1>3, <2>1, <2>2, TypeFrame, Zenon DEF Done, TypeOK
<1> QED
  BY <1>1, <1>2, <1>3, Zenon

\* What raising a depth changes.
LEMMA Raise ==
  ASSUME Depth \in [Blocks -> Nat], NEW b \in Blocks, NEW d \in Int, RaiseDepth(b, d)
  PROVE  /\ Depth' \in [Blocks -> Nat]
         /\ \A c \in Blocks : Depth'[c] >= Depth[c] /\ (c # b => Depth'[c] = Depth[c])
         /\ Depth'[b] \in {Depth[b], d}
BY DEF RaiseDepth

\* The share a step of updateDepths is at was added, and so were those it looks at.
LEMMA Reached ==
  ASSUME TypeOK, Lists, Control
  PROVE  /\ EverAdded \subseteq Blocks
         /\ pc = "initDepth" => adding \in Blocks
         /\ pc \in {"propagate", "children", "uncles"} => block \in Blocks
         /\ pc = "initDepth" /\ todo # <<>>
              => /\ Head(todo) \in StoredAbove(adding)
                 /\ Tail(todo) \in Seq(StoredAbove(adding))
         /\ pc = "children" /\ todo # <<>>
              => /\ Head(todo) \in StoredAbove(block)
                 /\ Tail(todo) \in Seq(StoredAbove(block))
         /\ pc \in {"children", "uncles"} /\ GetParent(block) # NoBlock
              => GetParent(block) \in EverAdded /\ GetParent(block) = Parent[block]
         /\ pc = "uncles" /\ todo # <<>> /\ HasUncle(block, Head(todo))
              => Head(todo) \in EverAdded
<1>1. EverAdded \subseteq Blocks
  BY Zenon DEF TypeOK, StoreTypes, EverAdded
<1>2. pc = "initDepth" => adding \in Blocks
  BY <1>1, Zenon DEF Control
<1>3. pc \in {"propagate", "children", "uncles"} => block \in Blocks
  BY <1>1, Zenon DEF Control
<1>4. pc = "initDepth" /\ todo # <<>>
        => Head(todo) \in StoredAbove(adding) /\ Tail(todo) \in Seq(StoredAbove(adding))
  BY Advance, Zenon DEF Lists, TodoLists
<1>5. pc = "children" /\ todo # <<>>
        => Head(todo) \in StoredAbove(block) /\ Tail(todo) \in Seq(StoredAbove(block))
  BY Advance, Zenon DEF Lists, TodoLists
<1>6. pc \in {"children", "uncles"} /\ GetParent(block) # NoBlock
        => GetParent(block) \in EverAdded /\ GetParent(block) = Parent[block]
  BY Zenon DEF Lists, CacheLists, GetParent, EverAdded
<1>7. pc = "uncles" /\ todo # <<>> /\ HasUncle(block, Head(todo)) => Head(todo) \in EverAdded
  <2>1. CASE block \in iterationCache
    BY <2>1, Advance, Zenon DEF Lists, TodoLists
  <2>2. CASE block \notin iterationCache
    BY <2>2, Zenon DEF HasUncle, EverAdded
  <2> QED
    BY <2>1, <2>2, Zenon
<1> QED
  BY <1>1, <1>2, <1>3, <1>4, <1>5, <1>6, <1>7, Zenon

\* The depth one share asks of another is a number.
LEMMA ChildDepthInt ==
  ASSUME TypeOK, block \in Blocks, NEW child \in Blocks
  PROVE  /\ ChildDepth(child) \in Int
         /\ ChildDepth(child) \in {blockDepth - 1, blockDepth - (Height[child] - Height[block]), 0}
<1>1. Height[child] \in Nat /\ Height[block] \in Nat
  BY BlocksAssumption, Zenon DEF BlocksAssumption
<1>2. blockDepth \in Nat
  BY Zenon DEF TypeOK, DepthLoopTypes
<1>3. ChildDepth(child) \in {blockDepth - 1, blockDepth - (Height[child] - Height[block]), 0}
  BY Zenon DEF ChildDepth
<1> QED
  BY <1>1, <1>2, <1>3

\* The rounds of updateDepths.
LEMMA TypeDepths ==
  ASSUME TypeOK, Lists, Control, UpdateDepths
  PROVE  TypeOK'
<1> DEFINE Listed == Blocks \cup {NoBlock}
<1>0. /\ Depth \in [Blocks -> Nat] /\ blockDepth \in Nat
      /\ adding \in Listed /\ block \in Listed
      /\ todo \in Seq(Listed)
      /\ blocksToUpdate \in Seq(Blocks)
      /\ EverAdded \subseteq Blocks
  BY Reached, Zenon DEF TypeOK, DepthLoopTypes
<1>f. returnFromUncles \in BOOLEAN
  BY Zenon DEF TypeOK, DepthLoopTypes
<1>a. \A s \in Seq(Blocks), b \in Blocks : Append(s, b) \in Seq(Blocks)
  OBVIOUS
<1>h. \A b \in Blocks : Height[b] \in Nat
  BY BlocksAssumption, Zenon DEF BlocksAssumption
<1>n. todo # <<>> => Tail(todo) \in Seq(Listed)
  BY <1>0, Advance, Zenon
<1>e. <<>> \in Seq(Listed)
  OBVIOUS
<1> HIDE DEF Listed
<1>1. CASE InitDepth
  <2>1. adding \in Blocks /\ Head(todo) \in Blocks
    BY <1>1, <1>0, Reached, Zenon DEF InitDepth, StoredAbove
  <2>2. Depth' \in [Blocks -> Nat]
    <3>1. Depth[Head(todo)] + 1 \in Int
      BY <2>1, <1>0
    <3>2. UNCHANGED Depth \/ RaiseDepth(adding, Depth[Head(todo)] + 1)
      BY <1>1, Zenon DEF InitDepth
    <3> QED
      BY <3>1, <3>2, <2>1, <1>0, Raise, Zenon
  <2>3. todo' \in Seq(Listed)
    BY <1>1, <1>n, <1>e, Zenon DEF InitDepth
  <2>4. DepthLoopTypes'
    BY <1>1, <2>3, <1>0, <1>f, Zenon DEF InitDepth, DepthLoopTypes, Listed
  <2>5. pc' \in {"added", "initDepth"}
    BY <1>1, Zenon DEF InitDepth
  <2> QED
    BY <1>1, <2>2, <2>4, <2>5, TypeFrame, SMTT(60) DEF InitDepth, TypeOK
<1>2. CASE InitDepthDone
  <2>1. <<adding>> \in Seq(Blocks)
    BY <1>2, Reached DEF InitDepthDone
  <2>2. DepthLoopTypes'
    BY <1>2, <2>1, <1>0, <1>f, SMTT(60) DEF InitDepthDone, DepthLoopTypes, Listed
  <2> QED
    BY <1>2, <2>2, TypeFrame, Zenon DEF InitDepthDone, TypeOK
<1>3. CASE VisitBlock
  <2>1. Top(blocksToUpdate) \in Blocks /\ Rest(blocksToUpdate) \in Seq(Blocks)
    BY <1>3, <1>0, Pop, Zenon DEF VisitBlock
  <2>2. DepthLoopTypes'
    <3>1. blockDepth' \in Nat /\ block' \in Listed /\ blocksToUpdate' \in Seq(Blocks)
      BY <1>3, <2>1, <1>0, Zenon DEF VisitBlock, Listed
    <3> QED
      BY <1>3, <3>1, <1>0, <1>f, Zenon DEF VisitBlock, DepthLoopTypes, Listed
  <2>3. VerifyTypes'
    <3>1. <<Top(blocksToUpdate)>> \in Seq(Blocks)
      BY <2>1
    <3>2. \/ UNCHANGED verifying
          \/ /\ ret' = "propagate" /\ highestBlock' = NoBlock
             /\ blocksToVerify' = <<Top(blocksToUpdate)>>
      BY <1>3, Zenon DEF VisitBlock
    <3> QED
      BY <3>1, <3>2, TypeFrame, Zenon DEF VerifyTypes
  <2>4. pc' \in {"verify", "propagate"}
    BY <1>3, Zenon DEF VisitBlock
  <2> QED
    BY <1>3, <2>2, <2>3, <2>4, TypeFrame, Zenon DEF VisitBlock, TypeOK
<1>4. CASE VisitDone
  BY <1>4, TypeFrame, Zenon DEF VisitDone, TypeOK
<1>5. CASE Propagate
  <2>1. Above(block) \in Seq(Listed)
    BY <1>5, Reached, AboveBlocks, SeqMono, Zenon DEF Propagate, Listed
  <2>2. DepthLoopTypes'
    BY <1>5, <2>1, <1>0, <1>f, SMTT(60) DEF Propagate, DepthLoopTypes, Listed
  <2> QED
    BY <1>5, <2>2, TypeFrame, SMTT(60) DEF Propagate, TypeOK
<1>6. CASE PropagateChild
  <2>1. block \in Blocks /\ Head(todo) \in Blocks
    BY <1>6, <1>0, Reached, Zenon DEF PropagateChild, StoredAbove
  <2>2. Depth' \in [Blocks -> Nat]
    <3>1. UNCHANGED Depth \/ RaiseDepth(Head(todo), ChildDepth(Head(todo)))
      BY <1>6, Zenon DEF PropagateChild
    <3> QED
      BY <3>1, <2>1, <1>0, Raise, ChildDepthInt, Zenon
  <2>3. todo' \in Seq(Listed)
    BY <1>6, <1>n, <1>e, Zenon DEF PropagateChild
  <2>4. blocksToUpdate' \in Seq(Blocks)
    <3>1. blocksToUpdate' \in {blocksToUpdate, Append(blocksToUpdate, Head(todo))}
      BY <1>6, Zenon DEF PropagateChild
    <3> QED
      BY <3>1, <2>1, <1>0, <1>a, Zenon
  <2>5. DepthLoopTypes'
    BY <1>6, <2>3, <2>4, <1>0, <1>f, Zenon DEF PropagateChild, DepthLoopTypes, Listed
  <2>6. pc' \in {"added", "children"}
    BY <1>6, SMTT(60) DEF PropagateChild
  <2> QED
    BY <1>6, <2>2, <2>5, <2>6, TypeFrame, SMTT(60) DEF PropagateChild, TypeOK
<1>7. CASE PropagateParent
  <2> DEFINE parent == GetParent(block)
  <2>1. block \in Blocks /\ (parent # NoBlock => parent \in Blocks)
    BY <1>7, <1>0, Reached, Zenon DEF PropagateParent
  <2>2. Uncles[block] \in Seq(Listed)
    BY <2>1, BlocksAssumption, Zenon DEF BlocksAssumption, Listed
  <2>3. /\ UNCHANGED Depth \/ (parent # NoBlock /\ RaiseDepth(parent, blockDepth + 1))
        /\ \/ UNCHANGED blocksToUpdate
           \/ parent # NoBlock /\ blocksToUpdate' = Append(blocksToUpdate, parent)
        /\ todo' \in {todo, Uncles[block]}
    BY <1>7, Zenon DEF PropagateParent
  <2> HIDE DEF parent
  <2>4. Depth' \in [Blocks -> Nat]
    <3>1. blockDepth + 1 \in Int
      BY <1>0
    <3> QED
      BY <2>1, <2>3, <3>1, <1>0, Raise, Zenon
  <2>5. blocksToUpdate' \in Seq(Blocks)
    BY <2>1, <2>3, <1>0, <1>a, Zenon
  <2>6. DepthLoopTypes'
    BY <1>7, <2>2, <2>3, <2>5, <1>0, <1>f, ZenonT(60) DEF PropagateParent, DepthLoopTypes, Listed
  <2>7. pc' \in {"added", "uncles"}
    BY <1>7, SMTT(60) DEF PropagateParent
  <2> QED
    BY <1>7, <2>4, <2>6, <2>7, TypeFrame, SMTT(60) DEF PropagateParent, TypeOK
<1>8. CASE PropagateUncle
  <2> DEFINE uncle == Head(todo)
             d == Height[block] - Height[uncle]
  <2>1. /\ \/ UNCHANGED <<Depth, blocksToUpdate>>
           \/ /\ HasUncle(block, uncle)
              /\ RaiseDepth(uncle, blockDepth + d)
              /\ blocksToUpdate' \in {blocksToUpdate, Append(blocksToUpdate, uncle)}
        /\ todo' \in {<<>>, Tail(todo)}
        /\ todo # <<>> /\ pc = "uncles"
    BY <1>8, ZenonT(60) DEF PropagateUncle
  <2>2. HasUncle(block, uncle) => uncle \in Blocks /\ block \in Blocks
    BY <2>1, <1>0, Reached, Zenon
  <2>3. HasUncle(block, uncle) => blockDepth + d \in Int
    BY <2>2, <1>0, <1>h
  <2> HIDE DEF uncle, d
  <2>4. Depth' \in [Blocks -> Nat]
    BY <2>1, <2>2, <2>3, <1>0, Raise, Zenon
  <2>5. blocksToUpdate' \in Seq(Blocks)
    BY <2>1, <2>2, <1>0, <1>a, Zenon
  <2>6. todo' \in Seq(Listed)
    BY <2>1, <1>n, <1>e, Zenon
  <2>7. returnFromUncles' \in BOOLEAN
    <3>1. returnFromUncles' \in {returnFromUncles, TRUE}
      BY <1>8, Zenon DEF PropagateUncle
    <3> QED
      BY <3>1, <1>f, Zenon
  <2>8. DepthLoopTypes'
    BY <1>8, <2>5, <2>6, <2>7, <1>0, SMTT(60) DEF PropagateUncle, DepthLoopTypes, Listed
  <2> QED
    BY <1>8, <2>4, <2>8, TypeFrame, Zenon DEF PropagateUncle, TypeOK
<1>9. CASE PropagateDone
  <2>1. pc' \in {"added", "visit"}
    BY <1>9, Zenon DEF PropagateDone
  <2> QED
    BY <1>9, <2>1, TypeFrame, Zenon DEF PropagateDone, TypeOK
<1> QED
  BY <1>1, <1>2, <1>3, <1>4, <1>5, <1>6, <1>7, <1>8, <1>9, SMTT(60) DEF UpdateDepths

\* The block on top of the work list of verifyLoop.
LEMMA OnTop ==
  ASSUME TypeOK, blocksToVerify # <<>>
  PROVE  Rest(blocksToVerify) \in Seq(Blocks) /\ Top(blocksToVerify) \in Blocks
BY Pop, Zenon DEF TypeOK, VerifyTypes

\* The rounds of verifyLoop.
LEMMA TypeVerify ==
  ASSUME TypeOK, Lists, Control, VerifyLoop
  PROVE  TypeOK'
<1>0. highestBlock \in Blocks \cup {NoBlock} /\ ret \in {"propagate", "done"}
  BY Zenon DEF TypeOK, VerifyTypes
<1>1. CASE SkipVerified
  <2>1. VerifyTypes'
    BY <1>1, <1>0, OnTop, SMTT(60) DEF SkipVerified, PopVerify, VerifyTypes
  <2> QED
    BY <1>1, <2>1, TypeFrame, Zenon DEF SkipVerified, TypeOK
<1>2. CASE VerifyDone
  <2>1. pc' \in {"tip", ret}
    BY <1>2, SMTT(60) DEF VerifyDone
  <2> QED
    BY <1>2, <1>0, <2>1, TypeFrame, Zenon DEF VerifyDone, TypeOK
<1>3. ASSUME NEW b \in Blocks, VerifyPending(b)
      PROVE  TypeOK'
  <2>1. VerifyTypes'
    BY <1>3, <1>0, OnTop, SMTT(60) DEF VerifyPending, Verifying, PopVerify, VerifyTypes
  <2> QED
    BY <1>3, <2>1, TypeFrame, Zenon DEF VerifyPending, TypeOK
<1>4. ASSUME NEW b \in Blocks, VerifyInvalid(b)
      PROVE  TypeOK'
  <2>1. VerifyTypes'
    BY <1>4, <1>0, OnTop, SMTT(60) DEF VerifyInvalid, Verifying, PopVerify, VerifyTypes
  <2>2. FlagTypes'
    BY <1>4, SMTT(60) DEF VerifyInvalid, TypeOK, FlagTypes
  <2> QED
    BY <1>4, <2>1, <2>2, TypeFrame, SMTT(60) DEF VerifyInvalid, TypeOK
<1>5. ASSUME NEW b \in Blocks, VerifyOk(b)
      PROVE  TypeOK'
  <2>1. VerifyTypes'
    <3>1. Rest(blocksToVerify) \in Seq(Blocks)
      BY <1>5, OnTop, Zenon DEF VerifyOk, Verifying
    <3>2. Above(b) \in Seq(Blocks)
      BY AboveBlocks, Zenon
    <3>3. Rest(blocksToVerify) \o Above(b) \in Seq(Blocks)
      BY <3>1, <3>2
    <3>4. highestBlock' \in {b, highestBlock}
      BY <1>5, Zenon DEF VerifyOk
    <3> QED
      BY <1>5, <1>0, <3>3, <3>4, SMTT(60) DEF VerifyOk, VerifyTypes
  <2>2. FlagTypes'
    <3>1. /\ Verified' = Verified \cup {b} /\ Invalid' = Invalid
          /\ skipped' \in {skipped, skipped \cup {b}}
          /\ iterationCache' \in {iterationCache, iterationCache \cup {b}}
      BY <1>5, Zenon DEF VerifyOk
    <3> QED
      BY <3>1, Zenon DEF TypeOK, FlagTypes
  <2>3. CastTypes'
    <3>1. /\ Broadcasted' \in {Broadcasted, Broadcasted \cup {b}}
          /\ sent' \in {sent, [sent EXCEPT ![b] = @ + 1]}
          /\ UNCHANGED WantBroadcast
      BY <1>5, Zenon DEF VerifyOk, BroadcastVerified
    <3> QED
      BY <3>1 DEF TypeOK, CastTypes
  <2> QED
    BY <1>5, <2>1, <2>2, <2>3, TypeFrame, SMTT(60) DEF VerifyOk, TypeOK
<1> QED
  BY <1>1, <1>2, <1>3, <1>4, <1>5, Zenon DEF VerifyLoop

\* updateChainTip.
LEMMA TypeTip ==
  ASSUME TypeOK, Lists, Control, UpdateChainTip
  PROVE  TypeOK'
<1>0. ret \in {"propagate", "done"}
  BY SMTT(60) DEF TypeOK, VerifyTypes
<1>1. CASE IgnoreTip \/ KeepTip
  <2>1. pc' \in {ret, "broadcast"}
    BY <1>1, SMTT(60) DEF IgnoreTip, KeepTip
  <2> QED
    BY <1>1, <1>0, <2>1, TypeFrame, Zenon DEF IgnoreTip, KeepTip, TypeOK
<1>2. CASE AdoptTip
  <2>1. highestBlock \in Blocks
    <3>1. pc = "tip"
      BY <1>2, Zenon DEF AdoptTip
    <3> QED
      BY <3>1, SMTT(60) DEF Control
  <2>2. TipTypes'
    <3>1. precalcFinished' \in BOOLEAN
      BY <1>2, ZenonT(60) DEF AdoptTip
    <3>2. currentDifficulty' \in Nat
      BY <1>2, <2>1, BlocksAssumption, SMTT(60) DEF AdoptTip, BlocksAssumption
    <3> QED
      BY <1>2, <2>1, <3>1, <3>2, ZenonT(60) DEF AdoptTip, TipTypes
  <2>3. CastTypes'
    <3>1. WantBroadcast' = WantBroadcast \cup {highestBlock} /\ UNCHANGED <<Broadcasted, sent>>
      BY <1>2, ZenonT(60) DEF AdoptTip
    <3>2. CastTypes
      BY Zenon DEF TypeOK
    <3> QED
      BY <2>1, <3>1, <3>2, ZenonT(60) DEF CastTypes
  <2>4. PruneTypes'
    <3>1. \/ UNCHANGED pruning
          \/ /\ pruneFrom' = 0 /\ pruneSkip' = 0 /\ numBlocksPruned' = 0
             /\ UNCHANGED <<pruneKey, pruneIndex>>
      BY <1>2, ZenonT(60) DEF AdoptTip
    <3>2. PruneTypes
      BY Zenon DEF TypeOK
    <3> QED
      BY <3>1, <3>2, SMTT(60) DEF PruneTypes, pruning
  <2>5. pc' \in {"prune", "broadcast"}
    BY <1>2, ZenonT(60) DEF AdoptTip
  <2>6. UNCHANGED <<store, flags, intake, depthLoop, verifying, Depth>>
    BY <1>2, ZenonT(60) DEF AdoptTip
  <2>7. (StoreTypes /\ FlagTypes /\ IntakeTypes /\ DepthLoopTypes /\ VerifyTypes)'
    BY <2>6, TypeFrame, Zenon
  <2> QED
    BY <2>2, <2>3, <2>4, <2>5, <2>6, <2>7, ZenonT(60) DEF TypeOK
<1>3. CASE BroadcastTip
  <2>1. highestBlock \in Blocks
    BY <1>3, Zenon DEF BroadcastTip, Control, Valid, TypeOK, FlagTypes
  <2>2. CastTypes'
    <3>1. /\ Broadcasted' \in {Broadcasted, Broadcasted \cup {highestBlock}}
          /\ sent' \in {sent, [sent EXCEPT ![highestBlock] = @ + 1]}
          /\ UNCHANGED WantBroadcast
      BY <1>3, Zenon DEF BroadcastTip
    <3> QED
      BY <2>1, <3>1 DEF TypeOK, CastTypes
  <2> QED
    BY <1>3, <1>0, <2>2, TypeFrame, SMTT(60) DEF BroadcastTip, TypeOK
<1> QED
  BY <1>1, <1>2, <1>3, Zenon DEF UpdateChainTip

\* The inner loop of pruneOldBlocks stays inside the list it deletes from.
LEMMA PruneAt ==
  ASSUME TypeOK, Control, PruneBlock
  PROVE  pruneKey \in Heights /\ pruneIndex \in 1 .. Len(blocksByHeight[pruneKey])
<1>1. pc = "pruneHeight" /\ pruneIndex > 0
  BY Zenon DEF PruneBlock
<1>2. pruneKey \in Heights /\ pruneIndex <= Len(blocksByHeight[pruneKey])
  BY <1>1, Zenon DEF Control
<1>3. pruneIndex \in Nat
  BY Zenon DEF TypeOK, PruneTypes
<1>4. Len(blocksByHeight[pruneKey]) \in Nat
  BY <1>2 DEF TypeOK, StoreTypes
<1> QED
  BY <1>1, <1>2, <1>3, <1>4, SMTT(60)

\* pruneOldBlocks.
LEMMA TypePrune ==
  ASSUME TypeOK, Lists, Control, PruneOldBlocks
  PROVE  TypeOK'
<1>0. Heights \subseteq Nat
  BY BlocksAssumption, SMTT(60) DEF BlocksAssumption, Heights
<1>1. ASSUME NEW k \in Heights, PruneHeight(k)
      PROVE  TypeOK'
  <2>1. Len(blocksByHeight[k]) \in Nat
    BY DEF TypeOK, StoreTypes
  <2>2. PruneTypes'
    BY <1>0, <1>1, <2>1, SMTT(60) DEF PruneHeight, TypeOK, PruneTypes
  <2> QED
    BY <1>1, <2>2, TypeFrame, Zenon DEF PruneHeight, TypeOK
<1>2. CASE PruneBlock
  <2> DEFINE list == blocksByHeight[pruneKey]
             b == list[pruneIndex]
             rest == SubSeq(list, 1, pruneIndex - 1) \o SubSeq(list, pruneIndex + 1, Len(list))
  <2>1. pruneKey \in Heights /\ pruneIndex \in 1 .. Len(list)
    BY <1>2, PruneAt, Zenon
  <2>2. list \in Seq(Blocks)
    BY <2>1, Zenon DEF TypeOK, StoreTypes
  <2>3. rest \in Seq(Blocks) /\ b \in Blocks
    BY <2>1, <2>2, DeleteOne
  <2>4. \/ UNCHANGED <<blocksByTemplateId, blocksByHeight, iterationCache, pruned, numBlocksPruned>>
        \/ /\ blocksByTemplateId' = blocksByTemplateId \ {b}
           /\ blocksByHeight' = [blocksByHeight EXCEPT ![pruneKey] = rest]
           /\ iterationCache' = iterationCache \ {b}
           /\ pruned' = pruned \cup {b}
           /\ numBlocksPruned' = numBlocksPruned + 1
    BY <1>2, Zenon DEF PruneBlock
  <2> HIDE DEF list, b, rest
  <2>5. StoreTypes'
    BY <1>2, <2>1, <2>3, <2>4, ZenonT(60) DEF PruneBlock, TypeOK, StoreTypes
  <2>6. FlagTypes'
    BY <1>2, <2>4, Zenon DEF PruneBlock, TypeOK, FlagTypes
  <2>7. PruneTypes'
    <3>1. pruneIndex > 0 /\ pruneIndex' = pruneIndex - 1
      BY <1>2, Zenon DEF PruneBlock
    <3>2. UNCHANGED <<pruneFrom, pruneSkip, pruneKey>>
      BY <1>2, Zenon DEF PruneBlock
    <3>3. numBlocksPruned' \in {numBlocksPruned, numBlocksPruned + 1}
      BY <2>4, ZenonT(60)
    <3>4. PruneTypes
      BY Zenon DEF TypeOK
    <3> QED
      BY <3>1, <3>2, <3>3, <3>4 DEF PruneTypes
  <2> QED
    BY <1>2, <2>5, <2>6, <2>7, TypeFrame, Zenon DEF PruneBlock, TypeOK
<1>3. CASE PruneHeightDone
  <2>1. StoreTypes'
    <3>1. blocksByHeightKeys' \in {blocksByHeightKeys, blocksByHeightKeys \ {pruneKey}}
      BY <1>3, Zenon DEF PruneHeightDone
    <3> QED
      BY <1>3, <3>1, ZenonT(60) DEF PruneHeightDone, TypeOK, StoreTypes
  <2>2. PruneTypes'
    <3>1. pruneSkip' \in {0, 1}
      BY <1>3, Zenon DEF PruneHeightDone
    <3>2. pruneFrom' = pruneKey + 1 /\ UNCHANGED <<pruneKey, pruneIndex, numBlocksPruned>>
      BY <1>3, ZenonT(60) DEF PruneHeightDone
    <3>3. PruneTypes
      BY Zenon DEF TypeOK
    <3> QED
      BY <3>1, <3>2, <3>3, SMTT(60) DEF PruneTypes
  <2> QED
    BY <1>3, <2>1, <2>2, TypeFrame, ZenonT(60) DEF PruneHeightDone, TypeOK
<1>4. CASE PruneDone
  <2>1. TipTypes'
    BY <1>4, ZenonT(60) DEF PruneDone, TypeOK, TipTypes
  <2>2. IntakeTypes'
    BY <1>4, Zenon DEF PruneDone, TypeOK, IntakeTypes
  <2> QED
    BY <1>4, <2>1, <2>2, TypeFrame, Zenon DEF PruneDone, TypeOK
<1> QED
  BY <1>1, <1>2, <1>3, <1>4, Zenon DEF PruneOldBlocks

\* Every step keeps the types.
LEMMA TypeStep ==
  ASSUME IInv, [Next]_vars
  PROVE  TypeOK'
<1>1. CASE Next
  BY <1>1, TypeReceive, TypeAdd, TypeDepths, TypeVerify, TypeTip, TypePrune, SMTT(60)
     DEF Next, LockHolder, IInv
<1>2. CASE UNCHANGED vars
  BY <1>2, TypeFrame, Zenon DEF vars, IInv, TypeOK
<1> QED
  BY <1>1, <1>2, SMTT(60)
-----------------------------------------------------------------------------
(***************************************************************************)
(* Which steps change what.                                                *)
(***************************************************************************)

\* Each variable of the invariant and the steps that change it: shares come and go only in
\* AddPoolBlock and in the inner loop of pruneOldBlocks, verdicts are given only in
\* verifyLoop, depths are raised only in updateDepths, and so on.
LEMMA Effects ==
  ASSUME TypeOK, Next
  PROVE  /\ \/ UNCHANGED <<blocksByTemplateId, blocksByHeight, pruned>>
            \/ (\E b \in Blocks : AddPoolBlock(b)) \/ PruneBlock
         /\ \/ UNCHANGED <<Verified, Invalid, skipped>>
            \/ \E b \in Blocks : VerifyInvalid(b) \/ VerifyOk(b)
         /\ UNCHANGED iterationCache \/ (\E b \in Blocks : VerifyOk(b)) \/ PruneBlock
         /\ UNCHANGED <<sent, Broadcasted>> \/ (\E b \in Blocks : VerifyOk(b)) \/ BroadcastTip
         /\ \/ UNCHANGED Depth
            \/ InitDepth \/ PropagateChild \/ PropagateParent \/ PropagateUncle
         /\ UNCHANGED <<block, blockDepth>> \/ VisitBlock \/ Done
         /\ \/ UNCHANGED blocksToUpdate
            \/ InitDepthDone \/ VisitBlock \/ Done
            \/ PropagateChild \/ PropagateParent \/ PropagateUncle
         /\ \/ pc' \notin {"initDepth", "children", "uncles"}
            \/ UNCHANGED <<pc, todo, adding, block, iterationCache>>
            \/ (\E b \in Blocks : AddPoolBlock(b)) \/ InitDepth
            \/ Propagate \/ PropagateChild \/ PropagateParent \/ PropagateUncle
         /\ UNCHANGED chainTip \/ AdoptTip
<1>0. ret \in {"propagate", "done"}
  BY Zenon DEF TypeOK, VerifyTypes
<1> USE DEF Next, LockHolder, UpdateDepths, VerifyLoop, UpdateChainTip, PruneOldBlocks,
            Receive, Reject, PowError, Admit, AddPoolBlockAgain, Expire, WatchMainChainBlock,
            AfterDepths, InitDepthDone, VisitDone, PropagateDone, SkipVerified, VerifyPending,
            VerifyDone, IgnoreTip, KeepTip, PruneHeight, PruneHeightDone, PruneDone
<1>1. \/ UNCHANGED <<blocksByTemplateId, blocksByHeight, pruned>>
      \/ (\E b \in Blocks : AddPoolBlock(b)) \/ PruneBlock
  BY ZenonT(60) DEF store, Done, InitDepth, VisitBlock, Propagate, PropagateChild, PropagateParent,
           PropagateUncle, VerifyInvalid, VerifyOk, AdoptTip, BroadcastTip
<1>2. \/ UNCHANGED <<Verified, Invalid, skipped>>
      \/ \E b \in Blocks : VerifyInvalid(b) \/ VerifyOk(b)
  BY ZenonT(60) DEF flags, AddPoolBlock, Done, InitDepth, VisitBlock, Propagate, PropagateChild,
         PropagateParent, PropagateUncle, AdoptTip, BroadcastTip, PruneBlock
<1>3. UNCHANGED iterationCache \/ (\E b \in Blocks : VerifyOk(b)) \/ PruneBlock
  BY ZenonT(60) DEF flags, AddPoolBlock, Done, InitDepth, VisitBlock, Propagate, PropagateChild,
         PropagateParent, PropagateUncle, VerifyInvalid, AdoptTip, BroadcastTip
<1>4. UNCHANGED <<sent, Broadcasted>> \/ (\E b \in Blocks : VerifyOk(b)) \/ BroadcastTip
  BY ZenonT(60) DEF casts, AddPoolBlock, Done, InitDepth, VisitBlock, Propagate, PropagateChild,
         PropagateParent, PropagateUncle, VerifyInvalid, AdoptTip, PruneBlock
<1>5. \/ UNCHANGED Depth
      \/ InitDepth \/ PropagateChild \/ PropagateParent \/ PropagateUncle
  BY ZenonT(60) DEF AddPoolBlock, Done, VisitBlock, Propagate, VerifyInvalid, VerifyOk, AdoptTip,
         BroadcastTip, PruneBlock
<1>6. UNCHANGED <<block, blockDepth>> \/ VisitBlock \/ Done
  BY ZenonT(60) DEF depthLoop, AddPoolBlock, InitDepth, Propagate, PropagateChild, PropagateParent,
         PropagateUncle, VerifyInvalid, VerifyOk, AdoptTip, BroadcastTip, PruneBlock
<1>7. \/ UNCHANGED blocksToUpdate
      \/ InitDepthDone \/ VisitBlock \/ Done
      \/ PropagateChild \/ PropagateParent \/ PropagateUncle
  BY ZenonT(60) DEF depthLoop, AddPoolBlock, InitDepth, Propagate, VerifyInvalid, VerifyOk, AdoptTip,
         BroadcastTip, PruneBlock
<1>8. \/ pc' \notin {"initDepth", "children", "uncles"}
      \/ UNCHANGED <<pc, todo, adding, block, iterationCache>>
      \/ (\E b \in Blocks : AddPoolBlock(b)) \/ InitDepth
      \/ Propagate \/ PropagateChild \/ PropagateParent \/ PropagateUncle
  <2>1. CASE LockHolder /\ ~UpdateDepths /\ ~VerifyLoop
    <3>1. pc' \in {"done", "tip", "verify", "prune", "pruneHeight", "broadcast", "free", ret}
      BY <2>1, ZenonT(60) DEF Done, AdoptTip, BroadcastTip, PruneBlock
    <3> QED
      BY <1>0, <3>1, ZenonT(60)
  <2>2. CASE VerifyLoop
    <3>1. pc' \in {"verify", "tip", ret}
      BY <2>2, ZenonT(60) DEF VerifyInvalid, VerifyOk, Verifying
    <3> QED
      BY <1>0, <3>1, ZenonT(60)
  <2>3. CASE UpdateDepths
    <3>1. \/ InitDepth \/ Propagate \/ PropagateChild \/ PropagateParent \/ PropagateUncle
          \/ pc' \in {"visit", "added", "verify", "propagate"}
      BY <2>3, Zenon DEF VisitBlock
    <3> QED
      BY <3>1, ZenonT(60)
  <2>4. CASE ~LockHolder
    <3>1. PICK b \in Blocks :
            \/ AddPoolBlock(b) \/ Receive(b) \/ Reject(b) \/ PowError(b) \/ Admit(b)
            \/ AddPoolBlockAgain(b) \/ Expire(b) \/ WatchMainChainBlock(b)
      BY <2>4, ZenonT(60) DEF Next
    <3>2. AddPoolBlock(b) \/ UNCHANGED <<pc, depthLoop, flags>>
      BY <3>1, Zenon DEF Receive, Reject, PowError, Admit, AddPoolBlockAgain, Expire,
                         WatchMainChainBlock
    <3> QED
      BY <3>2, ZenonT(60) DEF depthLoop, flags
  <2> QED
    BY <2>1, <2>2, <2>3, <2>4, ZenonT(60)
<1>9. UNCHANGED chainTip \/ AdoptTip
  BY ZenonT(60) DEF tips, AddPoolBlock, Done, InitDepth, VisitBlock, Propagate, PropagateChild,
         PropagateParent, PropagateUncle, VerifyInvalid, VerifyOk, BroadcastTip, PruneBlock
<1> QED
  BY <1>1, <1>2, <1>3, <1>4, <1>5, <1>6, <1>7, <1>8, <1>9, ZenonT(60)

\* No share that was added is forgotten, and the lists of shares only grow.
LEMMA Grow ==
  ASSUME IInv, Next
  PROVE  /\ EverAdded \subseteq EverAdded'
         /\ \A h \in Heights : StoredAt(h) \subseteq StoredAt(h)'
         /\ \A b \in Blocks : StoredAbove(b) \subseteq StoredAbove(b)'
<1>1. EverAdded \subseteq EverAdded'
  <2>1. CASE UNCHANGED <<blocksByTemplateId, blocksByHeight, pruned>>
    BY <2>1, Zenon DEF EverAdded
  <2>2. CASE \E b \in Blocks : AddPoolBlock(b)
    BY <2>2, Zenon DEF AddPoolBlock, EverAdded
  <2>3. CASE PruneBlock
    BY <2>3, Zenon DEF PruneBlock, EverAdded
  <2> QED
    BY <2>1, <2>2, <2>3, Effects, Zenon DEF IInv
<1>2. \A h \in Heights : StoredAt(h) \subseteq StoredAt(h)'
  BY <1>1, Zenon DEF StoredAt
<1>3. \A b \in Blocks : StoredAbove(b) \subseteq StoredAbove(b)'
  BY <1>1, Zenon DEF StoredAbove
<1> QED
  BY <1>1, <1>2, <1>3, Zenon
-----------------------------------------------------------------------------
(***************************************************************************)
(* The lists.                                                              *)
(***************************************************************************)

\* blocksByHeight lists shares under their own height.
LEMMA HeightListsStep ==
  ASSUME IInv, Next
  PROVE  HeightLists'
<1>0. /\ HeightLists /\ TypeOK
      /\ \A h \in Heights : blocksByHeight[h] \in Seq(StoredAt(h)')
  BY Grow, SeqMono, Zenon DEF IInv, Lists, HeightLists
<1>1. CASE UNCHANGED <<blocksByTemplateId, blocksByHeight, pruned>>
  BY <1>0, <1>1, Zenon DEF HeightLists
<1>2. ASSUME NEW b \in Blocks, AddPoolBlock(b)
      PROVE  HeightLists'
  <2>1. b \in StoredAt(Height[b])' /\ Height[b] \in Heights
    BY <1>2, Zenon DEF AddPoolBlock, StoredAt, EverAdded, Heights
  <2>2. Append(blocksByHeight[Height[b]], b) \in Seq(StoredAt(Height[b])')
    BY <1>0, <2>1
  <2>3. blocksByHeight' = [blocksByHeight EXCEPT ![Height[b]] = Append(@, b)]
    BY <1>2, Zenon DEF AddPoolBlock
  <2>4. blocksByHeight \in [Heights -> Seq(Blocks)]
    BY <1>0, Zenon DEF TypeOK, StoreTypes
  <2> QED
    BY <1>0, <2>1, <2>2, <2>3, <2>4, Zenon DEF HeightLists
<1>3. CASE PruneBlock
  <2>1. pruneKey \in Heights /\ pruneIndex \in 1 .. Len(blocksByHeight[pruneKey])
    BY <1>3, <1>0, PruneAt, Zenon DEF IInv
  <2>2. PICK k \in Heights : k = pruneKey
    BY <2>1, Zenon
  <2> DEFINE list == blocksByHeight[k]
             rest == SubSeq(list, 1, pruneIndex - 1) \o SubSeq(list, pruneIndex + 1, Len(list))
  <2>3. rest \in Seq(StoredAt(k)')
    BY <2>1, <2>2, <1>0, DeleteOne, Zenon
  <2>4. \/ UNCHANGED blocksByHeight
        \/ blocksByHeight' = [blocksByHeight EXCEPT ![k] = rest]
    BY <1>3, <2>2, Zenon DEF PruneBlock
  <2>5. blocksByHeight \in [Heights -> Seq(Blocks)]
    BY <1>0, Zenon DEF TypeOK, StoreTypes
  <2> HIDE DEF list, rest
  <2> QED
    BY <1>0, <2>3, <2>4, <2>5, SMTT(60) DEF HeightLists
<1> QED
  BY <1>1, <1>2, <1>3, <1>0, Effects, Zenon

\* A filled iterationCache points to shares that were added.
LEMMA CacheListsStep ==
  ASSUME IInv, Next
  PROVE  CacheLists'
<1>0. \A b \in iterationCache : Parent[b] \in EverAdded' /\ Uncles[b] \in Seq(EverAdded')
  BY Grow, SeqMono, Zenon DEF IInv, Lists, CacheLists
<1>1. ASSUME NEW b \in Blocks, VerifyOk(b)
      PROVE  CacheLists'
  <2>1. CASE iterationCache' = iterationCache
    BY <2>1, <1>0, Zenon DEF CacheLists
  <2>2. CASE iterationCache' = iterationCache \cup {b} /\ FillsCache(b)
    <3>1. Parent[b] \in EverAdded
      BY <2>2, Zenon DEF FillsCache, EverAdded
    <3>2. Uncles[b] \in Seq(EverAdded)
      BY <2>2, BlocksAssumption DEF BlocksAssumption, FillsCache, EverAdded
    <3> QED
      BY <2>2, <3>1, <3>2, <1>0, Grow, SeqMono, Zenon DEF CacheLists
  <2> QED
    BY <1>1, <2>1, <2>2, Zenon DEF VerifyOk
<1>2. CASE PruneBlock
  <2>1. iterationCache' \subseteq iterationCache
    BY <1>2, Zenon DEF PruneBlock
  <2> QED
    BY <2>1, <1>0, Zenon DEF CacheLists
<1>3. CASE UNCHANGED iterationCache
  BY <1>3, <1>0, Zenon DEF CacheLists
<1> QED
  BY <1>1, <1>2, <1>3, Effects, Zenon DEF IInv

\* The work list of updateDepths holds shares that were added.
LEMMA UpdateListStep ==
  ASSUME IInv, Next
  PROVE  UpdateList'
<1>0. /\ blocksToUpdate \in Seq(EverAdded')
      /\ EverAdded \subseteq EverAdded' /\ EverAdded \subseteq Blocks
      /\ TypeOK /\ Lists /\ Control
  BY Grow, SeqMono, Reached, Zenon DEF IInv, Lists, UpdateList
<1>a. \A b \in EverAdded : Append(blocksToUpdate, b) \in Seq(EverAdded')
  BY <1>0
<1>1. CASE UNCHANGED blocksToUpdate
  BY <1>0, <1>1, Zenon DEF UpdateList
<1>2. CASE InitDepthDone
  <2>1. adding \in EverAdded
    BY <1>2, <1>0, Zenon DEF InitDepthDone, Control
  <2>2. <<adding>> \in Seq(EverAdded')
    BY <2>1, <1>0
  <2> QED
    BY <1>2, <2>2, Zenon DEF InitDepthDone, UpdateList
<1>3. CASE VisitBlock
  BY <1>3, <1>0, Pop, Zenon DEF VisitBlock, UpdateList
<1>4. CASE Done
  <2>1. blocksToUpdate' = <<>>
    BY <1>4, Zenon DEF Done
  <2> QED
    BY <2>1 DEF UpdateList
<1>5. CASE PropagateChild
  <2>1. Head(todo) \in EverAdded
    BY <1>5, <1>0, Reached, Zenon DEF PropagateChild, StoredAbove
  <2>2. blocksToUpdate' \in {blocksToUpdate, Append(blocksToUpdate, Head(todo))}
    BY <1>5, Zenon DEF PropagateChild
  <2> QED
    BY <2>1, <2>2, <1>0, <1>a, Zenon DEF UpdateList
<1>6. CASE PropagateParent
  <2>1. \/ UNCHANGED blocksToUpdate
        \/ /\ GetParent(block) # NoBlock
           /\ blocksToUpdate' = Append(blocksToUpdate, GetParent(block))
    BY <1>6, ZenonT(60) DEF PropagateParent
  <2>2. GetParent(block) # NoBlock => GetParent(block) \in EverAdded
    BY <1>6, <1>0, Reached, Zenon DEF PropagateParent
  <2> QED
    BY <2>1, <2>2, <1>0, <1>a, Zenon DEF UpdateList
<1>7. CASE PropagateUncle
  <2>1. \/ UNCHANGED blocksToUpdate
        \/ /\ HasUncle(block, Head(todo))
           /\ blocksToUpdate' = Append(blocksToUpdate, Head(todo))
    BY <1>7, Zenon DEF PropagateUncle
  <2>2. HasUncle(block, Head(todo)) => Head(todo) \in EverAdded
    <3>1. pc = "uncles" /\ todo # <<>>
      BY <1>7, Zenon DEF PropagateUncle
    <3> QED
      BY <1>0, <3>1, Reached, Zenon
  <2> QED
    BY <2>1, <2>2, <1>0, <1>a, SMTT(60) DEF UpdateList
<1> QED
  BY <1>0, <1>1, <1>2, <1>3, <1>4, <1>5, <1>6, <1>7, Effects, SMTT(60)

\* The lists that the for loops of updateDepths range over.
LEMMA TodoListsStep ==
  ASSUME IInv, Next
  PROVE  TodoLists'
<1>0. /\ EverAdded \subseteq EverAdded' /\ EverAdded \subseteq Blocks
      /\ TypeOK /\ Lists /\ Control
      /\ \A b \in Blocks : StoredAbove(b) \subseteq StoredAbove(b)'
  BY Grow, Reached, Zenon DEF IInv
<1>1. CASE pc' \notin {"initDepth", "children", "uncles"}
  BY <1>1, Zenon DEF TodoLists
<1>2. CASE UNCHANGED <<pc, todo, adding, block, iterationCache>>
  <2>1. CASE pc = "initDepth"
    <3>1. PICK b \in Blocks : b = adding
      BY <2>1, <1>0, Reached, Zenon
    <3>2. todo \in Seq(StoredAbove(b)')
      BY <2>1, <3>1, <1>0, SeqMono, Zenon DEF Lists, TodoLists
    <3> QED
      BY <1>2, <2>1, <3>1, <3>2, Zenon DEF TodoLists
  <2>2. CASE pc = "children"
    <3>1. PICK b \in Blocks : b = block
      BY <2>2, <1>0, Reached, Zenon
    <3>2. todo \in Seq(StoredAbove(b)')
      BY <2>2, <3>1, <1>0, SeqMono, Zenon DEF Lists, TodoLists
    <3> QED
      BY <1>2, <2>2, <3>1, <3>2, Zenon DEF TodoLists
  <2>3. CASE pc = "uncles"
    BY <1>2, <2>3, <1>0, SeqMono, Zenon DEF Lists, TodoLists
  <2> QED
    BY <1>2, <2>1, <2>2, <2>3, Zenon DEF TodoLists
<1>3. ASSUME NEW b \in Blocks, AddPoolBlock(b)
      PROVE  TodoLists'
  <2>1. Above(b) \in Seq(StoredAbove(b)')
    BY <1>0, AboveBlocks, SeqMono, Zenon
  <2> QED
    BY <1>3, <2>1, Zenon DEF AddPoolBlock, TodoLists
<1>4. CASE InitDepth
  <2>1. PICK b \in Blocks : b = adding
    <3>1. pc = "initDepth"
      BY <1>4, Zenon DEF InitDepth
    <3> QED
      BY <1>0, <3>1, Reached, Zenon
  <2>2. Tail(todo) \in Seq(StoredAbove(b)')
    BY <1>4, <2>1, <1>0, Reached, SeqMono, Zenon DEF InitDepth
  <2>3. adding' = b /\ (pc' = "added" \/ (pc' = "initDepth" /\ todo' = Tail(todo)))
    BY <1>4, <2>1, Zenon DEF InitDepth
  <2> QED
    BY <2>2, <2>3, Zenon DEF TodoLists
<1>5. CASE Propagate
  <2>1. PICK b \in Blocks : b = block
    BY <1>5, <1>0, Reached, Zenon DEF Propagate
  <2>2. Above(b) \in Seq(StoredAbove(b)')
    BY <1>0, AboveBlocks, SeqMono, Zenon
  <2> QED
    BY <1>5, <2>1, <2>2, Zenon DEF Propagate, TodoLists
<1>6. CASE PropagateChild
  <2>1. PICK b \in Blocks : b = block
    <3>1. pc = "children"
      BY <1>6, Zenon DEF PropagateChild
    <3> QED
      BY <1>0, <3>1, Reached, Zenon
  <2>2. Tail(todo) \in Seq(StoredAbove(b)')
    BY <1>6, <2>1, <1>0, Reached, SeqMono, Zenon DEF PropagateChild
  <2>3. block' = b /\ (pc' = "added" \/ (pc' = "children" /\ todo' = Tail(todo)))
    BY <1>6, <2>1, Zenon DEF PropagateChild
  <2> QED
    BY <2>2, <2>3, Zenon DEF TodoLists
<1>7. CASE PropagateParent
  <2>1. /\ pc' = "added" \/ (pc' = "uncles" /\ todo' = Uncles[block])
        /\ block' = block /\ iterationCache' = iterationCache
    BY <1>7, Zenon DEF PropagateParent, flags
  <2>2. block \in iterationCache => Uncles[block] \in Seq(EverAdded')
    BY <1>0, SeqMono, Zenon DEF Lists, CacheLists
  <2> QED
    BY <2>1, <2>2, Zenon DEF TodoLists
<1>8. CASE PropagateUncle
  <2>1. /\ pc = "uncles" /\ pc' = "uncles" /\ todo # <<>> /\ todo' \in {<<>>, Tail(todo)}
        /\ block' = block /\ iterationCache' = iterationCache
    BY <1>8, Zenon DEF PropagateUncle, flags
  <2>2. block \in iterationCache => Tail(todo) \in Seq(EverAdded')
    BY <2>1, <1>0, Advance, SeqMono, Zenon DEF Lists, TodoLists
  <2>3. <<>> \in Seq(EverAdded')
    OBVIOUS
  <2> QED
    BY <2>1, <2>2, <2>3, Zenon DEF TodoLists
<1> QED
  BY <1>0, <1>1, <1>2, <1>3, <1>4, <1>5, <1>6, <1>7, <1>8, Effects, SMTT(60)
-----------------------------------------------------------------------------
(***************************************************************************)
(* Which local variables are set where.                                    *)
(***************************************************************************)

\* The goroutine in AddPoolBlock always works on a share that was added, and hands only
\* valid shares to pruneOldBlocks and server.Broadcast.
LEMMA ControlStep ==
  ASSUME IInv, Next
  PROVE  Control'
<1>0. /\ EverAdded \subseteq EverAdded' /\ EverAdded \subseteq Blocks
      /\ TypeOK /\ Lists /\ Control
      /\ ret \in {"propagate", "done"}
  BY Grow, Reached, Zenon DEF IInv, TypeOK, VerifyTypes
<1>1. ASSUME NEW b \in Blocks,
             \/ Receive(b) \/ Reject(b) \/ PowError(b) \/ Admit(b)
             \/ AddPoolBlockAgain(b) \/ Expire(b) \/ WatchMainChainBlock(b)
      PROVE  Control'
  <2>1. UNCHANGED <<store, flags, depthLoop, verifying, pruning, pc>>
    BY <1>1, Zenon DEF Receive, Reject, PowError, Admit, AddPoolBlockAgain, Expire,
                WatchMainChainBlock
  <2> QED
    BY <2>1, <1>0, SMTT(60) DEF Control, store, flags, depthLoop, verifying, pruning, EverAdded, Valid
<1>2. ASSUME NEW b \in Blocks, AddPoolBlock(b)
      PROVE  Control'
  BY <1>2, Zenon DEF AddPoolBlock, Control, EverAdded
<1>3. CASE AfterDepths
  <2>1. /\ adding \in EverAdded /\ UNCHANGED <<adding, blocksByTemplateId, pruned>>
        /\ ret' = "done"
        /\ pc' \in {"done", "verify"} \/ (pc' = "tip" /\ highestBlock' = adding)
    BY <1>3, <1>0, Zenon DEF AfterDepths, Control, store, depthLoop
  <2> QED
    BY <2>1, <1>0, Zenon DEF Control, EverAdded
<1>4. CASE Done
  BY <1>4, Zenon DEF Done, Control
<1>5. CASE UpdateDepths
  <2>1. UNCHANGED <<adding, blocksByTemplateId, pruned>> /\ pc # "free"
    BY <1>5, Zenon DEF UpdateDepths, InitDepth, InitDepthDone, VisitBlock, VisitDone, Propagate,
                PropagateChild, PropagateParent, PropagateUncle, PropagateDone, store, depthLoop
  <2>2. adding' \in EverAdded'
    BY <2>1, <1>0, SMTT(60) DEF Control, EverAdded
  <2>3. \/ pc' \in {"initDepth", "visit", "added"}
        \/ /\ pc \in {"propagate", "children", "uncles"}
           /\ pc' \in {"children", "uncles"} /\ UNCHANGED block
        \/ VisitBlock
    BY <1>5, Zenon DEF UpdateDepths, InitDepth, InitDepthDone, VisitDone, Propagate,
                PropagateChild, PropagateParent, PropagateUncle, PropagateDone
  <2>4. CASE VisitBlock
    <3>1. Top(blocksToUpdate) \in EverAdded
      BY <2>4, <1>0, Pop, ZenonT(60) DEF VisitBlock, Lists, UpdateList
    <3>2. pc' \in {"verify", "propagate"} /\ block' = Top(blocksToUpdate)
      BY <2>4, Zenon DEF VisitBlock
    <3> QED
      BY <2>2, <3>1, <3>2, <1>0, SMTT(60) DEF Control
  <2>5. CASE pc' \in {"initDepth", "visit", "added"}
    BY <2>2, <2>5, Zenon DEF Control
  <2>6. CASE /\ pc \in {"propagate", "children", "uncles"}
             /\ pc' \in {"children", "uncles"} /\ UNCHANGED block
    BY <2>2, <2>6, <1>0, Zenon DEF Control
  <2> QED
    BY <2>3, <2>4, <2>5, <2>6, SMTT(60)
<1>6. CASE VerifyLoop
  <2>1. /\ UNCHANGED <<adding, block, ret, blocksByTemplateId, pruned>> /\ pc = "verify"
        /\ pc' = "verify" \/ (pc' = "tip" /\ highestBlock' # NoBlock) \/ pc' = ret
    BY <1>6, ZenonT(60) DEF VerifyLoop, SkipVerified, VerifyDone, VerifyPending, VerifyInvalid, VerifyOk,
                Verifying, store, depthLoop, verifying
  <2>2. highestBlock' \in Blocks \cup {NoBlock}
    BY TypeStep, Zenon DEF TypeOK, VerifyTypes
  <2> QED
    BY <2>1, <2>2, <1>0, SMTT(60) DEF Control, EverAdded
<1>7. CASE UpdateChainTip
  <2>1. /\ UNCHANGED <<adding, block, ret, highestBlock, blocksByTemplateId, pruned>>
        /\ UNCHANGED <<Verified, Invalid>>
        /\ pc \in {"tip", "broadcast"}
        /\ \/ pc' = ret
           \/ pc' \in {"broadcast", "prune"} /\ ~TipIgnored(highestBlock)
    BY <1>7, Zenon DEF UpdateChainTip, IgnoreTip, AdoptTip, KeepTip, BroadcastTip, store, depthLoop,
                verifying, flags
  <2>2. ~TipIgnored(highestBlock) => highestBlock \in Valid
    BY Zenon DEF TipIgnored, Valid
  <2> QED
    BY <2>1, <2>2, <1>0, SMTT(60) DEF Control, EverAdded, Valid
<1>8. CASE PruneOldBlocks
  <2>1. /\ UNCHANGED <<adding, block, ret, highestBlock, Verified, Invalid>>
        /\ pc \in {"prune", "pruneHeight"} /\ pc' \in {"prune", "pruneHeight", "broadcast"}
    BY <1>8, Zenon DEF PruneOldBlocks, PruneHeight, PruneBlock, PruneHeightDone, PruneDone, depthLoop,
                verifying, flags
  <2>2. pc' = "pruneHeight"
          => pruneKey' \in Heights /\ pruneIndex' <= Len(blocksByHeight'[pruneKey'])
    <3>1. ASSUME NEW k \in Heights, PruneHeight(k)
          PROVE  pruneKey' \in Heights /\ pruneIndex' <= Len(blocksByHeight'[pruneKey'])
      <4>1. Len(blocksByHeight[k]) \in Nat
        BY <1>0 DEF TypeOK, StoreTypes
      <4>2. /\ pruneKey' = k /\ pruneIndex' = Len(blocksByHeight[k])
            /\ blocksByHeight' = blocksByHeight
        BY <3>1, Zenon DEF PruneHeight, store
      <4> QED
        BY <4>1, <4>2
    <3>2. ASSUME PruneBlock
          PROVE  pruneKey' \in Heights /\ pruneIndex' <= Len(blocksByHeight'[pruneKey'])
      <4> DEFINE list == blocksByHeight[pruneKey]
                 rest == SubSeq(list, 1, pruneIndex - 1)
                         \o SubSeq(list, pruneIndex + 1, Len(list))
      <4>1. pruneKey \in Heights /\ pruneIndex \in 1 .. Len(list)
        BY <3>2, <1>0, PruneAt, Zenon
      <4>2. list \in Seq(Blocks)
        BY <4>1, <1>0, Zenon DEF TypeOK, StoreTypes
      <4>3. Len(rest) = Len(list) - 1
        BY <4>1, <4>2, DeleteOne, Zenon
      <4>4. Len(list) \in Nat
        BY <4>2
      <4>5. /\ blocksByHeight' \in {blocksByHeight, [blocksByHeight EXCEPT ![pruneKey] = rest]}
            /\ pruneIndex' = pruneIndex - 1 /\ pruneKey' = pruneKey
        BY <3>2, Zenon DEF PruneBlock
      <4> HIDE DEF rest
      <4>6. blocksByHeight'[pruneKey] \in {list, rest}
        BY <4>1, <4>5, <1>0, SMTT(60) DEF TypeOK, StoreTypes
      <4> QED
        BY <4>1, <4>3, <4>4, <4>5, <4>6
    <3>3. pc' = "pruneHeight" => PruneBlock \/ \E k \in Heights : PruneHeight(k)
      BY <1>8, ZenonT(60) DEF PruneOldBlocks, PruneHeightDone, PruneDone
    <3> QED
      BY <3>1, <3>2, <3>3, Zenon
  <2> QED
    BY <2>1, <2>2, <1>0, SMTT(60) DEF Control, Valid
<1> QED
  BY <1>1, <1>2, <1>3, <1>4, <1>5, <1>6, <1>7, <1>8, SMTT(60) DEF Next, LockHolder


(***************************************************************************)
(* Verdicts.                                                               *)
(***************************************************************************)

\* A step gives at most one share its verdict, and only one that has none.
LEMMA VerdictStep ==
  ASSUME IInv, Next
  PROVE  /\ Verified \subseteq Verified'
         /\ Invalid' \cap Verified = Invalid
         /\ Invalid' \subseteq Verified'
         /\ Valid \subseteq Valid'
<1>0. Invalid \subseteq Verified
  BY Zenon DEF IInv
<1>1. CASE UNCHANGED <<Verified, Invalid, skipped>>
  BY <1>0, <1>1, Zenon DEF Valid
<1>2. ASSUME NEW b \in Blocks, VerifyInvalid(b) \/ VerifyOk(b)
      PROVE  /\ Verified \subseteq Verified' /\ Invalid' \cap Verified = Invalid
             /\ Invalid' \subseteq Verified' /\ Valid \subseteq Valid'
  <2>1. b \notin Verified /\ Verified' = Verified \cup {b}
    BY <1>2, Zenon DEF VerifyInvalid, VerifyOk, Verifying
  <2>2. Invalid' \in {Invalid, Invalid \cup {b}}
    BY <1>2, Zenon DEF VerifyInvalid, VerifyOk
  <2> QED
    BY <1>0, <2>1, <2>2, Zenon DEF Valid
<1> QED
  BY <1>1, <1>2, Effects, Zenon DEF IInv

\* verifyBlock passes no share with an unverified or invalid parent, but for a genesis
\* block and a deep block.
LEMMA OkParent ==
  ASSUME NEW b \in Blocks, NEW m, VerifyBlock(b, m) = "ok", Height[b] # 0, ~DeepBlock(b)
  PROVE  Parent[b] \in Valid
BY Zenon DEF VerifyBlock, Valid

\* verifyLoop preserves ValidParent: it passes a block by its content only on a valid parent,
\* and a verdict, once set, stays.
LEMMA ValidParentStep ==
  ASSUME IInv, Next
  PROVE  ValidParent'
<1>1. ValidParent /\ Valid \subseteq Valid'
  BY VerdictStep, Zenon DEF IInv
<1>2. CASE UNCHANGED <<Verified, Invalid, skipped>>
  BY <1>1, <1>2, Zenon DEF ValidParent, Valid
<1>3. ASSUME NEW b \in Blocks, VerifyInvalid(b)
      PROVE  ValidParent'
  <2>1. Valid' \subseteq Valid /\ skipped' = skipped
    BY <1>3, Zenon DEF VerifyInvalid, Valid
  <2> QED
    BY <1>1, <2>1, Zenon DEF ValidParent
<1>4. ASSUME NEW b \in Blocks, VerifyOk(b)
      PROVE  ValidParent'
  <2>1. Valid' \subseteq Valid \cup {b}
    BY <1>4, Zenon DEF VerifyOk, Valid
  <2>2. skipped \subseteq skipped' /\ (Height[b] # 0 /\ DeepBlock(b) => b \in skipped')
    BY <1>4, Zenon DEF VerifyOk
  <2>3. Height[b] # 0 /\ ~DeepBlock(b) => Parent[b] \in Valid
    BY <1>4, OkParent, Zenon DEF VerifyOk, Verifying
  <2> QED
    BY <1>1, <2>1, <2>2, <2>3, Zenon DEF ValidParent
<1> QED
  BY <1>2, <1>3, <1>4, Effects, Zenon DEF IInv

\* A share is sent by verifyLoop when it gets its verdict, or by updateChainTip as a valid
\* highestBlock, and never once Broadcasted is set.
LEMMA BroadcastOnceStep ==
  ASSUME IInv, Next
  PROVE  BroadcastOnce'
<1>1. BroadcastOnce /\ Valid \subseteq Valid'
  BY VerdictStep, Zenon DEF IInv
<1>2. sent \in [Blocks -> Nat]
  BY Zenon DEF IInv, TypeOK, CastTypes
<1>3. ASSUME NEW b \in Blocks, b \in Valid', b \notin Broadcasted,
             Broadcasted' = Broadcasted \cup {b},
             sent' \in {sent, [sent EXCEPT ![b] = @ + 1]}
      PROVE  BroadcastOnce'
  <2>1. sent[b] = 0
    BY <1>1, <1>2, <1>3 DEF BroadcastOnce
  <2>2. ASSUME NEW c \in Blocks
        PROVE  sent'[c] <= 1 /\ (sent'[c] = 1 => c \in Valid' /\ c \in Broadcasted')
    <3>1. CASE c = b
      BY <1>2, <1>3, <2>1, <3>1
    <3>2. CASE c # b
      BY <1>1, <1>2, <1>3, <3>2, Zenon DEF BroadcastOnce
    <3> QED
      BY <3>1, <3>2, Zenon
  <2> QED
    BY <2>2, Zenon DEF BroadcastOnce
<1>4. ASSUME UNCHANGED <<sent, Broadcasted>>
      PROVE  BroadcastOnce'
  BY <1>1, <1>4, Zenon DEF BroadcastOnce
<1>5. ASSUME NEW b \in Blocks, VerifyOk(b)
      PROVE  BroadcastOnce'
  <2>1. b \in Valid'
    BY <1>5, Zenon DEF VerifyOk, Verifying, Valid, IInv
  <2>2. \/ UNCHANGED <<sent, Broadcasted>>
        \/ /\ b \notin Broadcasted /\ Broadcasted' = Broadcasted \cup {b}
           /\ sent' \in {sent, [sent EXCEPT ![b] = @ + 1]}
    BY <1>5, Zenon DEF VerifyOk, BroadcastVerified
  <2> QED
    BY <1>3, <1>4, <2>1, <2>2, Zenon
<1>6. CASE BroadcastTip
  <2>1. highestBlock \in Valid /\ highestBlock \in Blocks
    BY <1>6, Zenon DEF BroadcastTip, IInv, Control, Valid, TypeOK, FlagTypes
  <2>2. PICK b \in Blocks : b = highestBlock
    BY <2>1, Zenon
  <2>3. \/ UNCHANGED <<sent, Broadcasted>>
        \/ /\ b \notin Broadcasted /\ Broadcasted' = Broadcasted \cup {b}
           /\ sent' \in {sent, [sent EXCEPT ![b] = @ + 1]}
    BY <1>6, <2>2, Zenon DEF BroadcastTip
  <2> QED
    BY <1>1, <1>3, <1>4, <2>1, <2>2, <2>3, Zenon
<1> QED
  BY <1>4, <1>5, <1>6, Effects, Zenon DEF IInv
-----------------------------------------------------------------------------
(***************************************************************************)
(* Depths.                                                                 *)
(***************************************************************************)

\* A share as high above b as d asks for was added.
Covered(b, d) == \E c \in EverAdded : Height[c] >= Height[b] + d

\* Depth zero asks for nothing more than the share itself.
LEMMA DepthCovered ==
  ASSUME IInv, NEW b \in EverAdded
  PROVE  b \in Blocks /\ Height[b] \in Nat /\ Depth[b] \in Nat /\ Covered(b, Depth[b])
<1>1. b \in Blocks
  BY Reached, Zenon DEF IInv
<1>2. Height[b] \in Nat /\ Depth[b] \in Nat
  BY <1>1, BlocksAssumption, Zenon DEF BlocksAssumption, IInv, TypeOK
<1>3. Covered(b, Depth[b])
  <2>1. CASE Depth[b] = 0
    BY <1>2, <2>1 DEF Covered
  <2>2. CASE Depth[b] > 0
    BY <1>1, <2>2, Zenon DEF Covered, IInv, DepthBound
  <2> QED
    BY <1>2, <2>1, <2>2
<1> QED
  BY <1>1, <1>2, <1>3, Zenon

\* The same for the share updateDepths is at, whose depth is at least blockDepth.
LEMMA BlockCovered ==
  ASSUME IInv, block \in EverAdded
  PROVE  /\ block \in Blocks /\ Height[block] \in Nat /\ blockDepth \in Nat
         /\ Covered(block, blockDepth)
<1>1. /\ block \in Blocks /\ Height[block] \in Nat /\ Depth[block] \in Nat
      /\ Covered(block, Depth[block])
  BY DepthCovered, Zenon
<1>2. block # NoBlock
  BY <1>1, BlocksAssumption, Zenon DEF BlocksAssumption
<1>3. blockDepth \in Nat /\ blockDepth <= Depth[block]
  BY <1>2, Zenon DEF IInv, TypeOK, DepthLoopTypes
<1>4. PICK c \in EverAdded : Height[c] >= Height[block] + Depth[block]
  BY <1>1, Zenon DEF Covered
<1>5. Height[c] \in Nat
  BY DepthCovered, Zenon
<1>6. Height[c] >= Height[block] + blockDepth
  BY <1>1, <1>3, <1>4, <1>5, SMTT(60)
<1> QED
  BY <1>1, <1>3, <1>6, Zenon DEF Covered

\* Every step leaves the depths alone or raises one of them to a covered value.
LEMMA RaisedDepth ==
  ASSUME IInv, Next
  PROVE  \/ UNCHANGED Depth
         \/ \E b \in Blocks, d \in Int : RaiseDepth(b, d) /\ (d > 0 => Covered(b, d))
<1>0. /\ TypeOK /\ Lists /\ Control
      /\ EverAdded \subseteq Blocks
      /\ \A b \in Blocks : Height[b] \in Nat
  BY Reached, BlocksAssumption, Zenon DEF IInv, BlocksAssumption
<1>1. CASE InitDepth
  <2> DEFINE child == Head(todo)
  <2>1. adding \in Blocks /\ child \in StoredAbove(adding)
    BY <1>0, <1>1, Reached, Zenon DEF InitDepth
  <2>2. UNCHANGED Depth \/ RaiseDepth(adding, Depth[child] + 1)
    BY <1>1, Zenon DEF InitDepth
  <2> HIDE DEF child
  <2>3. child \in EverAdded /\ Height[child] > Height[adding]
    BY <2>1, Zenon DEF StoredAbove
  <2>4. Height[child] \in Nat /\ Depth[child] \in Nat /\ Covered(child, Depth[child])
    BY <2>3, DepthCovered, Zenon
  <2>5. Covered(adding, Depth[child] + 1)
    <3>1. PICK c \in EverAdded : Height[c] >= Height[child] + Depth[child]
      BY <2>4, Zenon DEF Covered
    <3>2. Height[c] \in Nat /\ Height[adding] \in Nat
      BY <1>0, <2>1, Zenon
    <3>3. Height[c] >= Height[adding] + (Depth[child] + 1)
      BY <2>3, <2>4, <3>1, <3>2
    <3> QED
      BY <3>3, Zenon DEF Covered
  <2>6. Depth[child] + 1 \in Int
    BY <2>4
  <2> QED
    BY <2>1, <2>2, <2>5, <2>6, Zenon
<1>2. CASE PropagateChild
  <2> DEFINE child == Head(todo)
  <2>1. /\ block \in EverAdded /\ child \in EverAdded
        /\ \/ UNCHANGED Depth
           \/ RaiseDepth(child, ChildDepth(child)) /\ ~WrongChild(block, child)
    BY <1>0, <1>2, Reached, Zenon DEF PropagateChild, StoredAbove, Control
  <2> HIDE DEF child
  <2>2. block \in Blocks /\ blockDepth \in Nat /\ Covered(block, blockDepth)
    BY <2>1, BlockCovered, Zenon
  <2>3. ChildDepth(child) \in Int
    BY <1>0, <2>1, <2>2, ChildDepthInt, Zenon
  <2>4. ASSUME ~WrongChild(block, child), ChildDepth(child) > 0
        PROVE  Covered(child, ChildDepth(child))
    <3>1. PICK c \in EverAdded : Height[c] >= Height[block] + blockDepth
      BY <2>2, Zenon DEF Covered
    <3>2. Height[c] \in Nat /\ Height[block] \in Nat /\ Height[child] \in Nat
      BY <1>0, <2>1, Zenon
    <3>3. Height[child] + ChildDepth(child) = Height[block] + blockDepth
      <4>1. CASE Parent[child] = block
        BY <2>2, <2>4, <3>2, <4>1 DEF WrongChild, ChildDepth
      <4>2. CASE Parent[child] # block /\ block \in Range(Uncles[child])
        BY <2>2, <3>2, <4>2 DEF ChildDepth
      <4>3. CASE Parent[child] # block /\ block \notin Range(Uncles[child])
        BY <2>4, <4>3 DEF ChildDepth
      <4> QED
        BY <4>1, <4>2, <4>3, SMTT(60)
    <3> QED
      BY <3>1, <3>3, Zenon DEF Covered
  <2> QED
    BY <1>0, <2>1, <2>3, <2>4, SMTT(60)
<1>3. CASE PropagateParent
  <2> DEFINE parent == GetParent(block)
  <2>1. /\ pc = "children"
        /\ \/ UNCHANGED Depth
           \/ /\ parent # NoBlock /\ Height[parent] + 1 = Height[block]
              /\ RaiseDepth(parent, blockDepth + 1)
    BY <1>3, ZenonT(60) DEF PropagateParent
  <2>2. block \in EverAdded /\ (parent # NoBlock => parent \in EverAdded)
    BY <1>0, <2>1, Reached, Zenon DEF Control
  <2> HIDE DEF parent
  <2>3. block \in Blocks /\ blockDepth \in Nat /\ Covered(block, blockDepth)
    BY <2>2, BlockCovered, Zenon
  <2>4. ASSUME parent # NoBlock, Height[parent] + 1 = Height[block]
        PROVE  Covered(parent, blockDepth + 1)
    <3>1. PICK c \in EverAdded : Height[c] >= Height[block] + blockDepth
      BY <2>3, Zenon DEF Covered
    <3>2. Height[c] \in Nat /\ Height[block] \in Nat /\ Height[parent] \in Nat
      BY <1>0, <2>2, <2>4, Zenon
    <3>3. Height[c] >= Height[parent] + (blockDepth + 1)
      BY <2>3, <2>4, <3>1, <3>2
    <3> QED
      BY <3>3, Zenon DEF Covered
  <2>5. blockDepth + 1 \in Int
    BY <2>3
  <2> QED
    BY <1>0, <2>1, <2>2, <2>4, <2>5, Zenon
<1>4. CASE PropagateUncle
  <2> DEFINE uncle == Head(todo)
             d == Height[block] - Height[uncle]
  <2>1. /\ pc = "uncles" /\ todo # <<>>
        /\ UNCHANGED Depth \/ (HasUncle(block, uncle) /\ RaiseDepth(uncle, blockDepth + d))
    BY <1>4, ZenonT(60) DEF PropagateUncle
  <2>2. block \in EverAdded /\ (HasUncle(block, uncle) => uncle \in EverAdded)
    BY <1>0, <2>1, Reached, Zenon DEF Control
  <2>3. block \in Blocks /\ blockDepth \in Nat /\ Covered(block, blockDepth)
    BY <2>2, BlockCovered, Zenon
  <2>4. ASSUME uncle \in EverAdded
        PROVE  blockDepth + d \in Int /\ Covered(uncle, blockDepth + d)
    <3>1. PICK c \in EverAdded : Height[c] >= Height[block] + blockDepth
      BY <2>3, Zenon DEF Covered
    <3>2. Height[c] \in Nat /\ Height[block] \in Nat /\ Height[uncle] \in Nat
      BY <1>0, <2>2, <2>4, Zenon
    <3>3. Height[uncle] + (blockDepth + d) = Height[block] + blockDepth
      BY <2>3, <3>2
    <3>4. blockDepth + d \in Int
      BY <2>3, <3>2
    <3> QED
      BY <3>1, <3>3, <3>4, Zenon DEF Covered
  <2> HIDE DEF uncle, d
  <2> QED
    BY <1>0, <2>1, <2>2, <2>4, Zenon
<1> QED
  BY <1>0, <1>1, <1>2, <1>3, <1>4, Effects, Zenon

\* No depth falls, and none rises above what the shares added allow.
LEMMA DepthStep ==
  ASSUME IInv, Next
  PROVE  DepthBound' /\ \A b \in Blocks : Depth'[b] >= Depth[b]
<1>0. /\ Depth \in [Blocks -> Nat] /\ DepthBound /\ EverAdded \subseteq EverAdded'
  BY Grow, Zenon DEF IInv, TypeOK
<1>1. CASE UNCHANGED Depth
  BY <1>0, <1>1 DEF DepthBound
<1>2. ASSUME NEW b \in Blocks, NEW d \in Int, RaiseDepth(b, d), d > 0 => Covered(b, d)
      PROVE  DepthBound' /\ \A c \in Blocks : Depth'[c] >= Depth[c]
  <2>1. /\ \A c \in Blocks : Depth'[c] >= Depth[c] /\ (c # b => Depth'[c] = Depth[c])
        /\ Depth'[b] \in {Depth[b], d}
    BY <1>0, <1>2, Raise, Zenon
  <2>2. ASSUME NEW c \in Blocks, Depth'[c] > 0
        PROVE  \E w \in EverAdded' : Height[w] >= Height[c] + Depth'[c]
    <3>1. CASE Depth'[c] = Depth[c]
      BY <1>0, <2>2, <3>1, SMTT(60) DEF DepthBound
    <3>2. CASE c = b /\ Depth'[c] = d
      BY <1>0, <1>2, <2>2, <3>2, SMTT(60) DEF Covered
    <3> QED
      BY <2>1, <3>1, <3>2, Zenon
  <2> QED
    BY <2>1, <2>2, SMTT(60) DEF DepthBound
<1> QED
  BY <1>1, <1>2, RaisedDepth, Zenon

\* blockDepth, read when the share was taken from the work list, does not exceed its depth.
LEMMA BlockDepthStep ==
  ASSUME IInv, Next
  PROVE  block' # NoBlock => blockDepth' <= Depth'[block']
<1>0. /\ block # NoBlock => blockDepth <= Depth[block]
      /\ \A b \in Blocks : Depth'[b] >= Depth[b]
      /\ block \in Blocks \cup {NoBlock} /\ blockDepth \in Nat
      /\ Depth \in [Blocks -> Nat] /\ blocksToUpdate \in Seq(Blocks)
  BY DepthStep, Zenon DEF IInv, TypeOK, DepthLoopTypes
<1>t. Depth' \in [Blocks -> Nat]
  BY TypeStep, Zenon DEF TypeOK
<1>1. CASE UNCHANGED <<block, blockDepth>>
  <2>1. SUFFICES ASSUME block # NoBlock PROVE blockDepth <= Depth'[block]
    BY <1>1, Zenon
  <2>2. block \in Blocks /\ blockDepth <= Depth[block] /\ Depth'[block] >= Depth[block]
    BY <1>0, <2>1, Zenon
  <2>3. Depth[block] \in Nat /\ Depth'[block] \in Nat
    BY <1>0, <1>t, <2>2, Zenon
  <2> QED
    BY <1>0, <2>2, <2>3
<1>2. CASE VisitBlock
  <2>1. Top(blocksToUpdate) \in Blocks
    BY <1>0, <1>2, Pop, SMTT(60) DEF VisitBlock
  <2>2. block' = Top(blocksToUpdate) /\ blockDepth' = Depth[block'] /\ Depth' = Depth
    BY <1>2, Zenon DEF VisitBlock
  <2>3. Depth[Top(blocksToUpdate)] \in Nat
    BY <1>0, <2>1, Zenon
  <2> QED
    BY <2>2, <2>3
<1>3. CASE Done
  BY <1>3, Zenon DEF Done
<1> QED
  BY <1>1, <1>2, <1>3, Effects, Zenon DEF IInv
-----------------------------------------------------------------------------
(***************************************************************************)
(* The theorems.                                                           *)
(***************************************************************************)

\* NewSideChain: nothing is stored, verified, broadcast or being worked on.
LEMMA InitIInv ==
  ASSUME Init
  PROVE  IInv
<1>1. TypeOK
  <2>1. StoreTypes
    <3>1. blocksByHeight \in [Heights -> Seq(Blocks)]
      BY DEF Init
    <3> QED
      BY <3>1, Zenon DEF Init, StoreTypes
  <2>2. FlagTypes /\ CastTypes /\ IntakeTypes
    BY Zenon DEF Init, FlagTypes, CastTypes, IntakeTypes
  <2>3. TipTypes
    BY ConsensusAssumption, Zenon DEF Init, TipTypes, ConsensusAssumption
  <2>4. DepthLoopTypes
    <3>1. todo \in Seq(Blocks \cup {NoBlock}) /\ blocksToUpdate \in Seq(Blocks)
      BY DEF Init
    <3>2. returnFromUncles \in BOOLEAN
      BY Zenon DEF Init
    <3> QED
      BY <3>1, <3>2, Zenon DEF Init, DepthLoopTypes
  <2>5. VerifyTypes
    <3>1. blocksToVerify \in Seq(Blocks)
      BY DEF Init
    <3> QED
      BY <3>1, Zenon DEF Init, VerifyTypes
  <2>6. PruneTypes
    BY Zenon DEF Init, PruneTypes
  <2>7. Depth \in [Blocks -> Nat] /\ pc = "free"
    BY Zenon DEF Init
  <2> QED
    BY <2>1, <2>2, <2>3, <2>4, <2>5, <2>6, <2>7, Zenon DEF TypeOK
<1>2. Lists
  <2>1. HeightLists
    BY DEF Init, HeightLists
  <2>2. CacheLists /\ TodoLists
    BY Zenon DEF Init, CacheLists, TodoLists
  <2>3. UpdateList
    BY DEF Init, UpdateList
  <2> QED
    BY <2>1, <2>2, <2>3, Zenon DEF Lists
<1>3. Control
  BY SMTT(60) DEF Init, Control
<1>4. Invalid \subseteq Verified /\ ValidParent
  BY Zenon DEF Init, ValidParent, Valid
<1>5. BroadcastOnce /\ DepthBound
  BY DEF Init, BroadcastOnce, DepthBound
<1>6. block # NoBlock => blockDepth <= Depth[block]
  BY Zenon DEF Init
<1> QED
  BY <1>1, <1>2, <1>3, <1>4, <1>5, <1>6, Zenon DEF IInv

\* A step that changes nothing.
LEMMA StutterIInv ==
  ASSUME IInv, UNCHANGED vars
  PROVE  IInv'
<1>1. TypeOK'
  BY TypeStep, Zenon
<1>2. UNCHANGED <<store, flags, casts, depthLoop, verifying, pruning, Depth, pc>>
  BY SMTT(60) DEF vars
<1>3. Lists'
  BY <1>2, Zenon DEF IInv, Lists, HeightLists, CacheLists, UpdateList, TodoLists, StoredAt, StoredAbove,
              EverAdded, store, flags, depthLoop
<1>4. Control'
  BY <1>2, SMTT(60) DEF IInv, Control, EverAdded, Valid, store, flags, depthLoop, verifying, pruning
<1>5. (Invalid \subseteq Verified)' /\ ValidParent' /\ BroadcastOnce'
  BY <1>2, Zenon DEF IInv, ValidParent, BroadcastOnce, Valid, flags, casts
<1>6. DepthBound' /\ (block # NoBlock => blockDepth <= Depth[block])'
  BY <1>2, Zenon DEF IInv, DepthBound, EverAdded, store, depthLoop
<1> QED
  BY <1>1, <1>3, <1>4, <1>5, <1>6, Zenon DEF IInv

\* Every step of the node keeps the invariant.
LEMMA StepIInv ==
  ASSUME IInv, [Next]_vars
  PROVE  IInv'
<1>1. CASE Next
  <2>1. TypeOK'
    BY TypeStep, Zenon
  <2>2. Lists'
    BY <1>1, HeightListsStep, CacheListsStep, UpdateListStep, TodoListsStep, Zenon DEF Lists
  <2>3. Control'
    BY <1>1, ControlStep, Zenon
  <2>4. (Invalid \subseteq Verified)'
    BY <1>1, VerdictStep, Zenon
  <2>5. BroadcastOnce' /\ ValidParent' /\ DepthBound'
    BY <1>1, BroadcastOnceStep, ValidParentStep, DepthStep, Zenon
  <2>6. (block # NoBlock => blockDepth <= Depth[block])'
    BY <1>1, BlockDepthStep, Zenon
  <2> QED
    BY <2>1, <2>2, <2>3, <2>4, <2>5, <2>6, Zenon DEF IInv
<1>2. CASE UNCHANGED vars
  BY <1>2, StutterIInv, Zenon
<1> QED
  BY <1>1, <1>2, SMTT(60)

\* The inductive invariant holds of the node whatever shares arrive in whatever order.
THEOREM Invariance == Spec => []IInv
<1>1. Init => IInv
  BY InitIInv, Zenon
<1>2. IInv /\ [Next]_vars => IInv'
  BY StepIInv, Zenon
<1> QED
  BY <1>1, <1>2, PTL DEF Spec

\* Type correctness of the fields of SideChain, of the flags of a share and of the local
\* variables of updateDepths, verifyLoop and pruneOldBlocks.
THEOREM TypeCorrect == Spec => []TypeOK
<1>1. IInv => TypeOK
  BY Zenon DEF IInv
<1> QED
  BY <1>1, Invariance, PTL

\* verifyLoop and updateChainTip between them call server.Broadcast at most once for a
\* share, and only for one that is verified and valid.
THEOREM BroadcastsOnce == Spec => []BroadcastOnce
<1>1. IInv => BroadcastOnce
  BY Zenon DEF IInv
<1> QED
  BY <1>1, Invariance, PTL

\* Apart from genesis and deep blocks, verifyLoop passes only children of valid shares.
THEOREM ValidParents == Spec => []ValidParent
<1>1. IInv => ValidParent
  BY Zenon DEF IInv
<1> QED
  BY <1>1, Invariance, PTL

\* updateDepths, whatever it meets on the way, makes no share deeper than the shares above
\* it allow.
THEOREM DepthsBounded == Spec => []DepthBound
<1>1. IInv => DepthBound
  BY Zenon DEF IInv
<1> QED
  BY <1>1, Invariance, PTL

\* A verdict, once given by verifyLoop, is never changed, and updateChainTip never takes the
\* chain tip away.
THEOREM VerdictsFinal == Spec => VerdictIsFinal
<1>1. ASSUME IInv, [Next]_vars
      PROVE  [/\ Verified \subseteq Verified'
              /\ Invalid' \cap Verified = Invalid
              /\ chainTip # NoBlock => chainTip' # NoBlock]_vars
  <2>1. CASE UNCHANGED vars
    BY <2>1, Zenon
  <2>2. CASE Next
    <3>1. Verified \subseteq Verified' /\ Invalid' \cap Verified = Invalid
      BY <1>1, <2>2, VerdictStep, Zenon
    <3>2. chainTip # NoBlock => chainTip' # NoBlock
      <4>a. TypeOK
        BY <1>1, Zenon DEF IInv
      <4>b. UNCHANGED chainTip \/ AdoptTip
        BY <2>2, <4>a, Effects, Zenon
      <4>1. CASE UNCHANGED chainTip
        BY <4>1, Zenon
      <4>2. CASE AdoptTip
        <5>1. highestBlock \in Blocks
          BY <4>2, <1>1, Zenon DEF AdoptTip, IInv, Control
        <5> QED
          BY <4>2, <5>1, BlocksAssumption, SMTT(60) DEF AdoptTip, BlocksAssumption
      <4> QED
        BY <4>b, <4>1, <4>2, Zenon
    <3> QED
      BY <3>1, <3>2, Zenon
  <2> QED
    BY <1>1, <2>1, <2>2, Zenon
<1> QED
  BY <1>1, Invariance, PTL DEF Spec, VerdictIsFinal
====
