-------------------------- MODULE HasherCollection ---------------------------
(***************************************************************************)
(* hasherCollection (monero/randomx/randomx_cgo.go): a few RandomX states, *)
(* each initialised to a seed, that goroutines verifying proofs of work    *)
(* share.                                                                  *)
(*                                                                         *)
(* The lookup holds the read lock and the initialisation the write lock,   *)
(* so each is one step; anything may happen between the two.               *)
(***************************************************************************)
EXTENDS Integers, Sequences, Functions, FiniteSets

CONSTANTS
    Keys, None,
    Threads,
    States,       \* the number of states NewRandomX makes
    Sizes,        \* arguments of OptionNumberOfCachedStates
    MaxCalls, MaxFailures

VARIABLES
    cache,        \* the states: the seed they claim, and the seed their vm hashes with
    index,
    at, key,      \* by goroutine: where it is in Hash, and its seed
    answer,       \* by goroutine: the seed its hash was made with, or an outcome without hash
    broken,       \* history: the seeds whose initialisation failed
    calls, failures

vars == <<cache, index, at, key, answer, broken, calls, failures>>

\* What a vm hashes with whose dataset was left half initialised.
Garbage == "garbage"
Empty == [key |-> None, vm |-> None]
NilState == [key |-> "nil", vm |-> None]

Init ==
    /\ cache = [i \in 1..States |-> Empty]
    /\ index = 0
    /\ at = [t \in Threads |-> "idle"]
    /\ key = [t \in Threads |-> None] /\ answer = [t \in Threads |-> None]
    /\ broken = {} /\ calls = 0 /\ failures = 0

-----------------------------------------------------------------------------
\* hasherState.Hash: without a vm the call panics.
HashWith(state) == IF state.vm = None THEN "panic" ELSE state.vm

\* The lookup takes the first state with the seed, and panics on a state that is not there.
Lookup(k) ==
    LET hits == {i \in DOMAIN cache : cache[i].key = k \/ cache[i] = NilState} IN
    IF hits = {} THEN 0 ELSE CHOOSE i \in hits : \A j \in hits : i <= j

Call(t, k) ==
    /\ at[t] = "idle" /\ calls < MaxCalls
    /\ at' = [at EXCEPT ![t] = "lookup"] /\ key' = [key EXCEPT ![t] = k]
    /\ answer' = [answer EXCEPT ![t] = None]
    /\ calls' = calls + 1
    /\ UNCHANGED <<cache, index, broken, failures>>

Find(t) ==
    /\ at[t] = "lookup"
    /\ LET i == Lookup(key[t]) IN
       IF i = 0
       THEN at' = [at EXCEPT ![t] = "init"] /\ UNCHANGED answer
       ELSE /\ at' = [at EXCEPT ![t] = "idle"]
            /\ answer' = [answer EXCEPT ![t] = HashWith(cache[i])]
    /\ UNCHANGED <<cache, index, key, broken, calls, failures>>

\* hasherState.Init, and how it can fail: the dataset, or the vm.
InitState(state, k) == [key |-> k, vm |-> k]
InitFailures(state, k) ==
    {[key |-> k, vm |-> IF state.vm = None THEN None ELSE Garbage], [key |-> k, vm |-> None]}

\* Mutant: the seed is hashed with the state after the one that was initialised.
InitHashNext(t) ==
    /\ at[t] = "init"
    /\ at' = [at EXCEPT ![t] = "idle"]
    /\ index' = (index + 1) % Len(cache)
    /\ IF index >= Len(cache) \/ cache[index + 1] = NilState
       THEN answer' = [answer EXCEPT ![t] = "panic"] /\ UNCHANGED cache
       ELSE /\ cache' = [cache EXCEPT ![index + 1] = InitState(@, key[t])]
            /\ answer' = [answer EXCEPT ![t] = HashWith(cache'[index' + 1])]
    /\ UNCHANGED <<key, broken, calls, failures>>

\* The next state in turn is initialised to the seed, whoever used it.
InitHash(t) ==
    /\ at[t] = "init"
    /\ at' = [at EXCEPT ![t] = "idle"]
    /\ index' = (index + 1) % Len(cache)
    /\ IF index >= Len(cache) \/ cache[index + 1] = NilState
       THEN answer' = [answer EXCEPT ![t] = "panic"] /\ UNCHANGED cache
       ELSE /\ cache' = [cache EXCEPT ![index + 1] = InitState(@, key[t])]
            /\ answer' = [answer EXCEPT ![t] = HashWith(cache'[index + 1])]
    /\ UNCHANGED <<key, broken, calls, failures>>

\* The state keeps the seed it could not be initialised to.
InitStateFails(t) ==
    /\ at[t] = "init" /\ failures < MaxFailures
    /\ index < Len(cache) /\ cache[index + 1] # NilState
    /\ at' = [at EXCEPT ![t] = "idle"]
    /\ index' = (index + 1) % Len(cache)
    /\ \E state \in InitFailures(cache[index + 1], key[t]) :
           cache' = [cache EXCEPT ![index + 1] = state]
    /\ answer' = [answer EXCEPT ![t] = "error"]
    /\ broken' = broken \cup {key[t]} /\ failures' = failures + 1
    /\ UNCHANGED <<key, calls>>

\* initStates: fresh states; an error leaves the rest of the slice nil, and closing those panics.
InitStates(n) ==
    \/ cache' = [i \in 1..n |-> Empty] /\ UNCHANGED failures
    \/ /\ failures < MaxFailures
       /\ \E i \in 1..n : cache' = [j \in 1..n |-> IF j < i THEN Empty ELSE NilState]
       /\ failures' = failures + 1

OptionFlags ==
    /\ NilState \notin Range(cache)
    /\ InitStates(Len(cache))
    /\ UNCHANGED <<index, at, key, answer, broken, calls>>

OptionNumberOfCachedStates(n) ==
    /\ Len(cache) # n /\ NilState \notin Range(cache)
    /\ InitStates(n)
    /\ UNCHANGED <<index, at, key, answer, broken, calls>>

Next ==
    \/ \E t \in Threads : Find(t) \/ InitHash(t) \/ InitStateFails(t)
    \/ \E t \in Threads, k \in Keys : Call(t, k)
    \/ OptionFlags \/ \E n \in Sizes : OptionNumberOfCachedStates(n)

Spec == Init /\ [][Next]_vars

-----------------------------------------------------------------------------
\* A hash that Hash returns was made with the seed asked for, while other goroutines take the
\* states for other seeds and the options replace them; only a seed whose initialisation
\* failed may be answered wrongly later (randomx_cgo.go:27-50, 170).
HashIsOfKey ==
    \A t \in Threads : answer[t] \in Keys \cup {Garbage} =>
        answer[t] = key[t] \/ key[t] \in broken
====
