--------------------------- MODULE CircularBuffer ----------------------------
(***************************************************************************)
(* CircularBuffer (utils/circular_buffer.go): the hashes a peer has been   *)
(* asked for and has broadcast, and the addresses being dialled.  Every    *)
(* operation holds the lock.                                               *)
(***************************************************************************)
EXTENDS Integers, Sequences, Functions

CONSTANTS
    Size,     \* the length of the buffer
    Word,     \* the index is an integer modulo Word
    Values, None

\* The buffers for hashes have 8 and 16 entries: their length divides 2^32.
SizeAssumption == Word \in Nat /\ Size \in 1..Word /\ Word % Size = 0

VARIABLES
    buffer, index,
    answer    \* what the last PushUnique returned

vars == <<buffer, index, answer>>

Slot(i) == i % Size

Init ==
    /\ buffer = [i \in 0..(Size - 1) |-> None]
    /\ index = 0
    /\ answer = FALSE

\* Mutant: the index moves after the value is written.
PushedBehind(v) ==
    /\ index' = (index + 1) % Word
    /\ buffer' = [buffer EXCEPT ![Slot(index)] = v]

\* The value goes to the next place.
Pushed(v) ==
    /\ index' = (index + 1) % Word
    /\ buffer' = [buffer EXCEPT ![Slot(index')] = v]

Push(v) == Pushed(v) /\ UNCHANGED answer

PushUnique(v) ==
    IF v \in Range(buffer)
    THEN answer' = FALSE /\ UNCHANGED <<buffer, index>>
    ELSE answer' = TRUE /\ Pushed(v)

Replace(value, replace) ==
    /\ buffer' = [i \in DOMAIN buffer |-> IF buffer[i] = value THEN replace ELSE buffer[i]]
    /\ UNCHANGED <<index, answer>>

Next == \E v \in Values : Push(v) \/ PushUnique(v) \/ Replace(v, None)

Spec == Init /\ [][Next]_vars

-----------------------------------------------------------------------------
\* The values from the oldest to the newest.
R == INSTANCE Recent WITH last <- [i \in 1..Size |-> buffer[Slot(index + i)]]

\* The ring remembers the last values in their order, also when its index wraps around, and
\* PushUnique refuses exactly those (circular_buffer.go:21-61).
RemembersRecent == [R!Next]_(R!vars)
====
