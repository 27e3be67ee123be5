-------------------------------- MODULE Work ---------------------------------
(***************************************************************************)
(* What utils.SplitWork promises: the callback is called for an item once  *)
(* at most, and the call reports success only when each call was made and  *)
(* none failed.                                                            *)
(***************************************************************************)
EXTENDS Naturals

CONSTANT Items

VARIABLES
    times,      \* how often the callback was called for each item
    finished,   \* the items whose call returned without an error
    result

vars == <<times, finished, result>>

Init ==
    /\ times = [item \in Items |-> 0]
    /\ finished = {} /\ result = "none"

\* The one call for the item, which may fail.
Do(item) ==
    /\ result = "none" /\ times[item] = 0
    /\ times' = [times EXCEPT ![item] = 1]
    /\ finished' \in {finished, finished \cup {item}}
    /\ UNCHANGED result

Succeed ==
    /\ result = "none" /\ finished = Items
    /\ result' = "ok"
    /\ UNCHANGED <<times, finished>>

Fail ==
    /\ result = "none"
    /\ result' = "failed"
    /\ UNCHANGED <<times, finished>>

Next == (\E item \in Items : Do(item)) \/ Succeed \/ Fail

Spec == Init /\ [][Next]_vars
====
