---------------------------- MODULE MCBlockRequests ----------------------------
(***************************************************************************)
(* A chain and its peers for BlockRequests.                                *)
(***************************************************************************)
EXTENDS BlockRequests

\* Three blocks in a row, the last with an uncle.
ForkLinks == [g |-> <<"zero">>, a |-> <<"g">>, u |-> <<"g">>, b |-> <<"a", "u">>]

\* Every peer has every block; the tip is the last one.
AllHas == [c \in Clients |-> Blocks]
AllTip == [c \in Clients |-> "b"]
====
