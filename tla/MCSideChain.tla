---------------------------- MODULE MCSideChain ----------------------------
(***************************************************************************)
(* Small share chains for SideChain, as tuples over the shares 1, 2, ...   *)
(***************************************************************************)
EXTENDS PossibleUncles

\* One copy of every share.
OneCopy == Blocks \X {1}

\* Every share of difficulty 1, and every window asking for 1.
Ones == [b \in Blocks |-> 1]

\* A chain of six shares with an uncle (7), included from two heights above, and a
\* competing tip (8).
ForkBlocks == 1 .. 8
ForkHeight == <<0, 1, 2, 3, 4, 5, 2, 4>>
ForkParent == <<0, 1, 2, 3, 4, 5, 2, 4>>
ForkUncles == <<<<>>, <<>>, <<>>, <<>>, <<7>>, <<>>, <<>>, <<>>>>
ForkCumulativeDifficulty == <<1, 2, 3, 4, 6, 7, 3, 5>>
ForkFromBroadcast == {<<5, 1>>, <<8, 1>>}

\* The same without the competing tip.
CrowdServed == (1 .. 7) \X {1}

\* A chain long enough to be pruned, with a share nobody builds on (8).
LongBlocks == 1 .. 8
LongHeight == <<0, 1, 2, 3, 4, 5, 6, 1>>
LongParent == <<0, 1, 2, 3, 4, 5, 6, 1>>
LongUncles == [b \in LongBlocks |-> <<>>]
LongCumulativeDifficulty == <<1, 2, 3, 4, 5, 6, 7, 2>>

\* The upper end of a long chain, with a share nobody builds on (10) and an
\* uncle (11) that share 4 includes from two heights below.
DeepBlocks == 1 .. 11
DeepHeight == <<0, 1, 2, 3, 4, 5, 6, 7, 8, 1, 1>>
DeepParent == <<0, 1, 2, 3, 4, 5, 6, 7, 8, 1, 1>>
DeepUncles == <<<<>>, <<>>, <<>>, <<11>>, <<>>, <<>>, <<>>, <<>>, <<>>, <<>>, <<>>>>
DeepCumulativeDifficulty == <<1, 2, 3, 5, 6, 7, 8, 9, 10, 2, 2>>
OrphanServed == (3 .. 10) \X {1}
UncleServed == ((3 .. 9) \cup {11}) \X {1}

\* Three good shares and shares that break a rule: a parent at the wrong height (4), an
\* uncle that is mined already (5), an uncle at the share's own height (6), wrong
\* outputs (7), an invalid parent (8).
BadBlocks == 1 .. 8
BadHeight == <<0, 1, 2, 2, 3, 2, 3, 4>>
BadParent == <<0, 1, 2, 1, 3, 2, 3, 7>>
BadUncles == <<<<>>, <<>>, <<>>, <<>>, <<2>>, <<3>>, <<>>, <<>>>>
BadCumulativeDifficulty == <<1, 2, 3, 2, 5, 4, 4, 5>>

\* The difficulty rises from 1 to 3, and a share of the old one comes late (6).
RisingBlocks == 1 .. 6
RisingHeight == <<0, 1, 2, 3, 4, 2>>
RisingParent == <<0, 1, 2, 3, 4, 2>>
RisingUncles == [b \in RisingBlocks |-> <<>>]
RisingDifficulty == <<1, 1, 1, 3, 3, 1>>
RisingNextDifficulty == <<1, 1, 3, 3, 3, 3>>
RisingCumulativeDifficulty == <<1, 2, 3, 6, 9, 3>>
RisingServed == OneCopy \cup {<<6, 2>>}
RisingFromBroadcast == {<<5, 1>>, <<6, 2>>}
====
