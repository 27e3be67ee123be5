------------------------------- MODULE Recent --------------------------------
(***************************************************************************)
(* What utils.CircularBuffer promises: it remembers the last Size values,  *)
(* the oldest leaves first.                                                *)
(***************************************************************************)
EXTENDS Integers, Sequences, Functions

CONSTANTS Size, Values, None

VARIABLES last, answer

vars == <<last, answer>>

Init == last = [i \in 1..Size |-> None] /\ answer = FALSE

Push(v) == last' = Append(Tail(last), v) /\ UNCHANGED answer

PushUnique(v) ==
    /\ answer' = (v \notin Range(last))
    /\ last' = IF answer' THEN Append(Tail(last), v) ELSE last

Replace(v, w) ==
    /\ last' = [i \in DOMAIN last |-> IF last[i] = v THEN w ELSE last[i]]
    /\ UNCHANGED answer

Next == \E v \in Values : Push(v) \/ PushUnique(v) \/ Replace(v, None)

Spec == Init /\ [][Next]_vars
====
