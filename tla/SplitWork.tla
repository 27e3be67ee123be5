------------------------------ MODULE SplitWork ------------------------------
(***************************************************************************)
(* SplitWork (utils/concurrency.go): goroutines that take the items of a   *)
(* piece of work from a shared counter.  The side chain verifies the       *)
(* outputs of a block with it, and computes them.                          *)
(*                                                                         *)
(* init runs in the caller, before each goroutine starts; the side chain   *)
(* appends a hasher to a slice there, which goroutines already running     *)
(* read.                                                                   *)
(***************************************************************************)
EXTENDS Integers, FiniteSets

CONSTANTS
    WorkSize,
    Routines,          \* how many goroutines the caller asks for (or the number of cores)
    InitFails, DoFails, \* whether the callbacks may return an error
    HasErrorFunc       \* whether there is an errorFunc

ASSUME WorkAssumption ==
    /\ WorkSize \in Nat /\ Routines \in Nat \ {0}
    /\ InitFails \in BOOLEAN /\ DoFails \in BOOLEAN /\ HasErrorFunc \in BOOLEAN

\* Without an errorFunc nobody learns of an error: such callers have callbacks without any.
ASSUME CallerAssumption == DoFails => HasErrorFunc

VARIABLES
    started,    \* the goroutines the caller has handled
    counter,
    item,       \* item[r]: the work index of goroutine r, from 0
    at,         \* at[r]: where goroutine r is
    times,      \* times[i]: how often the callback was called for item i
    finished,   \* the items whose callback returned without an error
    failed,
    result      \* what SplitWork returned

vars == <<started, counter, item, at, times, finished, failed, result>>

\* Never more goroutines than items.
Count == IF WorkSize < Routines THEN WorkSize ELSE Routines

Items == 0..(WorkSize - 1)
Workers == 0..(Count - 1)

Init ==
    /\ started = 0 /\ counter = 0
    /\ item = [r \in Workers |-> 0]
    /\ at = [r \in Workers |-> "none"]
    /\ times = [i \in Items |-> 0]
    /\ finished = {} /\ failed = FALSE /\ result = "none"

-----------------------------------------------------------------------------
\* The loop of the caller: init, then the goroutine.
Start ==
    /\ started < Count
    /\ at' = [at EXCEPT ![started] = "take"]
    /\ started' = started + 1
    /\ UNCHANGED <<counter, item, times, finished, failed, result>>

StartFails ==
    /\ InitFails /\ started < Count
    /\ at' = [at EXCEPT ![started] = "gone"]
    /\ started' = started + 1
    /\ failed' = TRUE
    /\ UNCHANGED <<counter, item, times, finished, result>>

\* Mutant: no end of the work.
TakeForever(r) ==
    /\ at[r] = "take" /\ counter < WorkSize
    /\ counter' = counter + 1
    /\ at' = [at EXCEPT ![r] = "do"]
    /\ item' = [item EXCEPT ![r] = counter' - 1]
    /\ UNCHANGED <<started, times, finished, failed, result>>

\* Mutant: the counter is not atomic, and an increment may be lost.
TakeRacing(r) ==
    /\ at[r] = "take"
    /\ counter' \in {counter, counter + 1}
    /\ IF counter >= WorkSize
       THEN at' = [at EXCEPT ![r] = "gone"] /\ UNCHANGED item
       ELSE at' = [at EXCEPT ![r] = "do"] /\ item' = [item EXCEPT ![r] = counter]
    /\ UNCHANGED <<started, times, finished, failed, result>>

\* counter.Add(1): the next item, or the end.
Take(r) ==
    /\ at[r] = "take"
    /\ counter' = counter + 1
    /\ IF counter' > WorkSize
       THEN at' = [at EXCEPT ![r] = "gone"] /\ UNCHANGED item
       ELSE at' = [at EXCEPT ![r] = "do"] /\ item' = [item EXCEPT ![r] = counter' - 1]
    /\ UNCHANGED <<started, times, finished, failed, result>>

Do(r) ==
    /\ at[r] = "do"
    /\ times' = [times EXCEPT ![item[r]] = @ + 1]
    /\ finished' = finished \cup {item[r]}
    /\ at' = [at EXCEPT ![r] = "take"]
    /\ UNCHANGED <<started, counter, item, failed, result>>

\* An error ends the goroutine; the others go on.
DoError(r) ==
    /\ DoFails /\ at[r] = "do"
    /\ times' = [times EXCEPT ![item[r]] = @ + 1]
    /\ failed' = (failed \/ HasErrorFunc)
    /\ at' = [at EXCEPT ![r] = "gone"]
    /\ UNCHANGED <<started, counter, item, finished, result>>

\* Mutant: errors are not reported.
ReturnOk ==
    /\ started = Count /\ result = "none"
    /\ \A r \in Workers : at[r] = "gone"
    /\ result' = "ok"
    /\ UNCHANGED <<started, counter, item, at, times, finished, failed>>

\* wg.Wait.
Return ==
    /\ started = Count /\ result = "none"
    /\ \A r \in Workers : at[r] = "gone"
    /\ result' = IF failed THEN "failed" ELSE "ok"
    /\ UNCHANGED <<started, counter, item, at, times, finished, failed>>

Next ==
    \/ Start \/ StartFails \/ Return
    \/ \E r \in Workers : Take(r) \/ Do(r) \/ DoError(r)

\* The callbacks return, and the scheduler lets every goroutine run.
Spec == Init /\ [][Next]_vars /\ WF_vars(Start \/ Return)
             /\ \A r \in Workers : WF_vars(Take(r) \/ Do(r))

-----------------------------------------------------------------------------
W == INSTANCE Work

\* SplitWork does what it promises: the callback is called at most once for each item, with or
\* without an error, never after the return, and true means that it was called for every item
\* and no call failed (concurrency.go:20-54).
DoesTheWork == W!Spec

-----------------------------------------------------------------------------
(* The inductive invariant of the proof. *)

\* The ranges of the variables.
TypeOK ==
    /\ started \in 0..Count /\ counter \in Nat
    /\ item \in [Workers -> Nat]
    /\ at \in [Workers -> {"none", "take", "do", "gone"}]
    /\ times \in [Items -> Nat] /\ finished \subseteq Items
    /\ failed \in BOOLEAN
    /\ result \in {"none", "ok", "failed"}

\* Each item is called for once at most, after it was taken; one that was taken is done, or in
\* the hands of one goroutine, or there was an error.
Taken ==
    /\ \A r \in Workers : at[r] = "do" =>
          item[r] \in Items /\ item[r] < counter /\ times[item[r]] = 0
    /\ \A q, r \in Workers : at[q] = "do" /\ at[r] = "do" /\ q # r => item[q] # item[r]
    /\ \A i \in Items : times[i] = 0 \/ (times[i] = 1 /\ i < counter)
    /\ \A i \in finished : times[i] = 1
    /\ ~failed => \A i \in Items : i < counter =>
          i \in finished \/ \E r \in Workers : at[r] = "do" /\ item[r] = i

\* A goroutine that is gone saw the end of the work, or there was an error.
Gone ==
    /\ \A r \in Workers : at[r] = "none" <=> r >= started
    /\ ~failed => \A r \in Workers : at[r] = "gone" => counter > WorkSize
    /\ result # "none" => started = Count /\ \A r \in Workers : at[r] = "gone"

\* The goroutines share the work without a gap and without doing any of it twice: what the
\* counter has passed is done or being done, each item once, and nobody leaves before the
\* counter has passed everything (concurrency.go:37-52).
IInv == TypeOK /\ Taken /\ Gone
====
