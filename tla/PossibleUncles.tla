--------------------------- MODULE PossibleUncles ----------------------------
(***************************************************************************)
(* GetPossibleUncles (sidechain.go): the uncles a share mined on a tip may *)
(* include, over the reachable share chains of SideChain.                  *)
(***************************************************************************)
EXTENDS SideChain

\* The last blocks under a new share, the tip first, and the uncles they include.
MinedUnder(tip) ==
  LET last == {Ancestor(tip, k) : k \in {j \in 0 .. UncleBlockDepth - 1 : j <= Height[tip]}} \ {NoBlock}
  IN  last \cup UNION {Range(Uncles[a]) : a \in last}

\* The walk from the tip down to the height of the uncle, then down both chains.
SameChain(tip, u, forHeight) ==
  LET tmp == Ancestor(tip, Height[tip] - Height[u])
  IN  /\ tmp # NoBlock
      /\ Height[tmp] = Height[u]
      /\ \E j \in 0 .. UncleBlockDepth - 1 :
           /\ \A i \in 0 .. j : /\ Ancestor(tmp, i) # NoBlock /\ Ancestor(u, i) # NoBlock
                                /\ Height[Ancestor(tmp, i)] + UncleBlockDepth >= forHeight
           /\ Parent[Ancestor(tmp, j)] = Parent[Ancestor(u, j)]

\* Mutant: the uncles other blocks include already are offered again.
GetPossibleUnclesMined(tip, forHeight) ==
  {u \in (Verified \ Invalid) \cap blocksByTemplateId :
     /\ Height[u] <= Height[tip] /\ Height[u] + UncleBlockDepth > Height[tip]
     /\ u # tip /\ SameChain(tip, u, forHeight)}

\* Sorted by the code afterwards; here a set.
GetPossibleUncles(tip, forHeight) ==
  {u \in (Verified \ Invalid) \cap blocksByTemplateId :
     /\ Height[u] <= Height[tip] /\ Height[u] + UncleBlockDepth > Height[tip]
     /\ u \notin MinedUnder(tip)
     /\ SameChain(tip, u, forHeight)}

\* The uncles offered for a share on the tip are exactly the ones verifyBlock takes from such a
\* share: one more and the share would be refused by every node, one less and its miner would
\* not be paid (sidechain.go:164-220 against 644-697).
OffersWhatVerifies ==
  pc = "free" =>
    \A b \in Blocks :
      (Parent[b] = chainTip /\ chainTip # NoBlock /\ Height[b] = Height[chainTip] + 1) =>
        GetPossibleUncles(chainTip, Height[b])
          = {u \in blocksByTemplateId : UncleVerdict(b, u) = "ok"}
====
