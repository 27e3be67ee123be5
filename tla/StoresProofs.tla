---------------------------- MODULE StoresProofs -----------------------------
(***************************************************************************)
(* The theorems about what goroutines of a node share, for all sizes:      *)
(* SplitWork implements its abstract specification, the RandomX states     *)
(* answer with the seed asked for, and the cache file gives back what was  *)
(* stored.                                                                 *)
(***************************************************************************)
EXTENDS SplitWork, Sequences, WellFoundedInduction, TLAPS

CONSTANTS
    Keys, None, Threads, States, Sizes, MaxCalls, MaxFailures   \* of HasherCollection

CONSTANTS
    NumBlocks, Blocks, Size, BlockSize, Altered, Savers, MaxSaves, MaxCrashes   \* of LegacyCache

VARIABLES
    cache, nextState, caller, key, hashedWith, broken, calls, failures,
    length, cells, up, storeIndex, once, loading, saver, block, slot, scanned, blobLength, loadSlot,
    loaded, stored, owner, touched, saves, crashes

H == INSTANCE HasherCollection WITH index <- nextState, at <- caller, answer <- hashedWith
C == INSTANCE LegacyCache WITH at <- saver

-----------------------------------------------------------------------------
(* SplitWork.                                                              *)

USE WorkAssumption

\* The number of goroutines is at most the number of items.
LEMMA CountFacts == Count \in Nat /\ Count <= WorkSize /\ (Count = 0 => WorkSize = 0)
  BY DEF Count

\* Before anything starts nothing is taken.
LEMMA InitInvariant == Init => IInv
<1> SUFFICES ASSUME Init PROVE IInv
  BY Zenon
<1>a. started \in 0..Count /\ counter \in Nat /\ item \in [Workers -> Nat]
  BY CountFacts DEF Init
<1>b. at \in [Workers -> {"none", "take", "do", "gone"}] /\ finished \subseteq Items
  BY Zenon DEF Init
<1>d. times \in [Items -> Nat]
  BY DEF Init
<1>c. failed \in BOOLEAN /\ result \in {"none", "ok", "failed"}
  BY Zenon DEF Init
<1>1. TypeOK
  BY <1>a, <1>b, <1>c, <1>d, Zenon DEF TypeOK
<1>2. Taken
  BY DEF Init, Taken, Items
<1>3. Gone
  BY CountFacts DEF Init, Gone, Workers
<1> QED BY <1>1, <1>2, <1>3, Zenon DEF IInv

\* A goroutine starts by taking.
LEMMA StartInvariant == IInv /\ Start => IInv'
<1> SUFFICES ASSUME IInv, Start PROVE IInv'
  BY Zenon
<1>1. started \in Workers /\ at[started] = "none"
  BY CountFacts DEF IInv, TypeOK, Gone, Start, Workers
<1>2. TypeOK'
  BY <1>1, CountFacts DEF IInv, TypeOK, Start, Workers
<1>3. Taken'
  BY <1>1 DEF IInv, TypeOK, Taken, Start
<1>4. Gone'
  BY <1>1, CountFacts DEF IInv, TypeOK, Gone, Start, Workers
<1> QED BY <1>2, <1>3, <1>4, Zenon DEF IInv

\* A goroutine that could not start is gone, and the call has failed.
LEMMA StartFailsInvariant == IInv /\ StartFails => IInv'
<1> SUFFICES ASSUME IInv, StartFails PROVE IInv'
  BY Zenon
<1>1. started \in Workers /\ at[started] = "none"
  BY CountFacts DEF IInv, TypeOK, Gone, StartFails, Workers
<1>2. TypeOK'
  BY <1>1, CountFacts DEF IInv, TypeOK, StartFails, Workers
<1>3. Taken'
  BY <1>1 DEF IInv, TypeOK, Taken, StartFails
<1>4. Gone'
  BY <1>1, CountFacts DEF IInv, TypeOK, Gone, StartFails, Workers
<1> QED BY <1>2, <1>3, <1>4, Zenon DEF IInv

\* The counter gives each item to one goroutine.
LEMMA TakeInvariant ==
    ASSUME IInv, NEW r \in Workers, Take(r)
    PROVE  IInv'
<1>1. counter \in Nat /\ counter' = counter + 1 /\ at[r] = "take"
  BY Zenon DEF IInv, TypeOK, Take
<1>2. CASE counter' > WorkSize
  <2>1. at' = [at EXCEPT ![r] = "gone"] /\ item' = item
        /\ UNCHANGED <<started, times, finished, failed, result>>
    BY <1>2, Zenon DEF Take
  <2>2. TypeOK'
    BY <1>1, <2>1 DEF IInv, TypeOK
  <2>3. Taken'
    BY <1>1, <1>2, <2>1 DEF IInv, TypeOK, Taken, Items
  <2>4. Gone'
    BY <1>1, <1>2, <2>1, Zenon DEF IInv, TypeOK, Gone
  <2> QED BY <2>2, <2>3, <2>4, Zenon DEF IInv
<1>3. CASE ~(counter' > WorkSize)
  <2>1. /\ at' = [at EXCEPT ![r] = "do"] /\ item' = [item EXCEPT ![r] = counter]
        /\ UNCHANGED <<started, times, finished, failed, result>>
    BY <1>1, <1>3 DEF Take
  <2>2. TypeOK'
    BY <1>1, <2>1 DEF IInv, TypeOK
  <2>3. at'[r] = "do" /\ item'[r] = counter
        /\ \A q \in Workers : q # r => at'[q] = at[q] /\ item'[q] = item[q]
    BY <2>1, Zenon DEF IInv, TypeOK
  <2>4. counter \in Items /\ times[counter] = 0
    BY <1>1, <1>3 DEF IInv, Taken, Items
  <2>5. \A q \in Workers : at'[q] = "do" =>
          item'[q] \in Items /\ item'[q] < counter' /\ times'[item'[q]] = 0
    BY <1>1, <2>1, <2>3, <2>4 DEF IInv, TypeOK, Taken, Items
  <2>6. \A p, q \in Workers : at'[p] = "do" /\ at'[q] = "do" /\ p # q => item'[p] # item'[q]
    BY <1>1, <2>3 DEF IInv, TypeOK, Taken
  <2>7. /\ \A i \in Items : times'[i] = 0 \/ (times'[i] = 1 /\ i < counter')
        /\ \A i \in finished' : times'[i] = 1
    BY <1>1, <2>1 DEF IInv, TypeOK, Taken, Items
  <2>8. ASSUME ~failed', NEW i \in Items, i < counter'
        PROVE  i \in finished' \/ \E q \in Workers : at'[q] = "do" /\ item'[q] = i
    <3>1. CASE i = counter
      BY <3>1, <2>3, Zenon
    <3>2. CASE i < counter
      <4>1. i \in finished \/ \E q \in Workers : at[q] = "do" /\ item[q] = i
        BY <2>1, <2>8, <3>2, Zenon DEF IInv, Taken
      <4> QED BY <4>1, <1>1, <2>1, <2>3, Zenon
    <3> QED BY <1>1, <2>8, <3>1, <3>2 DEF Items
  <2>9. Taken'
    BY <2>5, <2>6, <2>7, <2>8, Zenon DEF Taken, Items
  <2>10. Gone'
    BY <1>1, <2>1, <2>3 DEF IInv, TypeOK, Gone
  <2> QED BY <2>2, <2>9, <2>10, Zenon DEF IInv
<1> QED BY <1>2, <1>3, Zenon

\* An item that is done leaves the hands of its goroutine.
LEMMA DoInvariant ==
    ASSUME IInv, NEW r \in Workers, Do(r)
    PROVE  IInv'
<1>1. /\ at[r] = "do" /\ item[r] \in Items /\ item[r] < counter /\ times[item[r]] = 0
      /\ times' = [times EXCEPT ![item[r]] = @ + 1]
      /\ finished' = finished \cup {item[r]} /\ at' = [at EXCEPT ![r] = "take"]
      /\ UNCHANGED <<started, counter, item, failed, result>>
  BY Zenon DEF IInv, Taken, Do
<1>2. at'[r] = "take" /\ \A q \in Workers : q # r => at'[q] = at[q]
  BY <1>1, Zenon DEF IInv, TypeOK
<1>a. /\ times'[item[r]] = 1 /\ times' \in [Items -> Nat]
      /\ \A i \in Items : i # item[r] => times'[i] = times[i]
  BY <1>1 DEF IInv, TypeOK
<1>3. TypeOK'
  BY <1>1, <1>a, Zenon DEF IInv, TypeOK
<1>4. \A q \in Workers : at'[q] = "do" =>
        item'[q] \in Items /\ item'[q] < counter' /\ times'[item'[q]] = 0
  <2> SUFFICES ASSUME NEW q \in Workers, at'[q] = "do"
               PROVE  item'[q] \in Items /\ item'[q] < counter' /\ times'[item'[q]] = 0
    BY Zenon
  <2>1. q # r
    BY <1>2
  <2>2. at[q] = "do" /\ item'[q] = item[q] /\ counter' = counter
    BY <1>1, <1>2, <2>1, Zenon
  <2>3. item[q] \in Items /\ item[q] < counter /\ times[item[q]] = 0 /\ item[q] # item[r]
    BY <1>1, <2>1, <2>2, Zenon DEF IInv, Taken
  <2> QED BY <1>a, <2>2, <2>3, Zenon
<1>5. \A p, q \in Workers : at'[p] = "do" /\ at'[q] = "do" /\ p # q => item'[p] # item'[q]
  BY <1>1, <1>2 DEF IInv, Taken
<1>6. /\ \A i \in Items : times'[i] = 0 \/ (times'[i] = 1 /\ i < counter')
      /\ \A i \in finished' : times'[i] = 1
  <2>1. ASSUME NEW i \in Items
        PROVE  /\ times'[i] = 0 \/ (times'[i] = 1 /\ i < counter')
               /\ i \in finished' => times'[i] = 1
    <3>1. CASE i = item[r]
      BY <3>1, <1>1, <1>a, Zenon
    <3>2. CASE i # item[r]
      BY <3>2, <1>1, <1>a, Zenon DEF IInv, Taken
    <3> QED BY <3>1, <3>2, Zenon
  <2>2. finished' \subseteq Items
    BY <1>3, Zenon DEF TypeOK, Items
  <2> QED BY <2>1, <2>2, Zenon
<1>7. ASSUME ~failed', NEW i \in Items, i < counter'
      PROVE  i \in finished' \/ \E q \in Workers : at'[q] = "do" /\ item'[q] = i
  <2>1. i \in finished \/ \E q \in Workers : at[q] = "do" /\ item[q] = i
    BY <1>1, <1>7, Zenon DEF IInv, Taken
  <2> QED BY <2>1, <1>1, <1>2, Zenon
<1>8. Taken'
  BY <1>4, <1>5, <1>6, <1>7, Zenon DEF Taken, Items
<1>9. Gone'
  BY <1>1, <1>2, Zenon DEF IInv, TypeOK, Gone
<1> QED BY <1>3, <1>8, <1>9, Zenon DEF IInv

\* An error is remembered, since whoever may fail has an errorFunc.
LEMMA DoErrorInvariant ==
    ASSUME IInv, NEW r \in Workers, DoError(r)
    PROVE  IInv'
<1>1. /\ at[r] = "do" /\ failed' = TRUE /\ at' = [at EXCEPT ![r] = "gone"]
      /\ times' = [times EXCEPT ![item[r]] = @ + 1]
      /\ UNCHANGED <<started, counter, item, finished, result>>
  BY CallerAssumption, Zenon DEF DoError
<1>a. item[r] \in Items /\ item[r] < counter /\ times[item[r]] = 0
  BY <1>1, Zenon DEF IInv, Taken
<1>b. /\ times'[item[r]] = 1 /\ times' \in [Items -> Nat]
      /\ \A i \in Items : i # item[r] => times'[i] = times[i]
  BY <1>1, <1>a DEF IInv, TypeOK
<1>2. at'[r] = "gone" /\ \A q \in Workers : q # r => at'[q] = at[q]
  BY <1>1, Zenon DEF IInv, TypeOK
<1>3. TypeOK'
  BY <1>1, <1>b, Zenon DEF IInv, TypeOK
<1>4. Taken'
  <2>1. \A q \in Workers : at'[q] = "do" =>
          item'[q] \in Items /\ item'[q] < counter' /\ times'[item'[q]] = 0
    <3> SUFFICES ASSUME NEW q \in Workers, at'[q] = "do"
                 PROVE  item'[q] \in Items /\ item'[q] < counter' /\ times'[item'[q]] = 0
      BY Zenon
    <3>1. q # r
      BY <1>2
    <3>2. at[q] = "do" /\ item'[q] = item[q] /\ counter' = counter
      BY <1>1, <1>2, <3>1, Zenon
    <3>3. item[q] \in Items /\ item[q] < counter /\ times[item[q]] = 0 /\ item[q] # item[r]
      BY <1>1, <3>1, <3>2, Zenon DEF IInv, Taken
    <3> QED BY <1>b, <3>2, <3>3, Zenon
  <2>2. \A p, q \in Workers : at'[p] = "do" /\ at'[q] = "do" /\ p # q => item'[p] # item'[q]
    BY <1>1, <1>2 DEF IInv, Taken
  <2>3. /\ \A i \in Items : times'[i] = 0 \/ (times'[i] = 1 /\ i < counter')
        /\ \A i \in finished' : times'[i] = 1
    <3>1. ASSUME NEW i \in Items
          PROVE  /\ times'[i] = 0 \/ (times'[i] = 1 /\ i < counter')
                 /\ i \in finished' => times'[i] = 1
      <4>1. CASE i = item[r]
        BY <4>1, <1>1, <1>a, <1>b, Zenon
      <4>2. CASE i # item[r]
        BY <4>2, <1>1, <1>b, Zenon DEF IInv, Taken
      <4> QED BY <4>1, <4>2, Zenon
    <3>2. finished' \subseteq Items
      BY <1>3, Zenon DEF TypeOK, Items
    <3> QED BY <3>1, <3>2, Zenon
  <2> QED BY <1>1, <2>1, <2>2, <2>3, Zenon DEF Taken, Items
<1>5. Gone'
  BY <1>1, <1>2, Zenon DEF IInv, TypeOK, Gone
<1> QED BY <1>3, <1>4, <1>5, Zenon DEF IInv

\* The call returns when every goroutine is gone.
LEMMA ReturnInvariant == IInv /\ Return => IInv'
  BY DEF IInv, TypeOK, Taken, Gone, Return

\* Every step keeps the invariant.
LEMMA NextInvariant == IInv /\ [Next]_vars => IInv'
<1> SUFFICES ASSUME IInv, [Next]_vars PROVE IInv'
  BY Zenon
<1>1. CASE UNCHANGED vars
  BY <1>1, Zenon DEF IInv, TypeOK, Taken, Gone, vars
<1>2. CASE Next
  BY <1>2, StartInvariant, StartFailsInvariant, ReturnInvariant, TakeInvariant, DoInvariant,
     DoErrorInvariant, Zenon DEF Next
<1> QED BY <1>1, <1>2, Zenon

\* The goroutines share the work without a gap and without doing any of it twice, always.
THEOREM WorkIsShared == Spec => []IInv
<1>1. Init => IInv
  BY InitInvariant, Zenon
<1>2. IInv /\ [Next]_vars => IInv'
  BY NextInvariant, Zenon
<1> QED BY <1>1, <1>2, PTL DEF Spec

\* With everybody gone and no error, the counter has passed every item and nobody has one left.
LEMMA AllDone ==
    ASSUME IInv, started = Count, \A r \in Workers : at[r] = "gone", ~failed
    PROVE  finished = Items
<1>1. CASE WorkSize = 0
  BY <1>1 DEF IInv, TypeOK, Items
<1>2. CASE WorkSize # 0
  <2>1. 0 \in Workers
    BY <1>2, CountFacts DEF Workers
  <2>2. counter > WorkSize
    BY <2>1, Zenon DEF IInv, Gone
  <2>3. ASSUME NEW i \in Items PROVE i \in finished
    <3>1. i < counter
      BY <2>2 DEF IInv, TypeOK, Items
    <3> QED BY <3>1, Zenon DEF IInv, Taken
  <2> QED BY <2>3, Zenon DEF IInv, TypeOK
<1> QED BY <1>1, <1>2, Zenon

\* Every step of SplitWork is a step of the abstract specification, or none.
LEMMA StepSimulation == IInv /\ [Next]_vars => [W!Next]_(W!vars)
<1> SUFFICES ASSUME IInv, [Next]_vars PROVE [W!Next]_(W!vars)
  BY Zenon
<1>1. CASE UNCHANGED vars
  BY <1>1, Zenon DEF vars, W!vars
<1>2. CASE Start \/ StartFails
  BY <1>2, Zenon DEF Start, StartFails, W!vars
<1>3. CASE Return
  <2>1. CASE failed
    BY <1>3, <2>1, Zenon DEF Return, W!Next, W!Fail
  <2>2. CASE ~failed
    <3>1. finished = Items
      BY <1>3, <2>2, AllDone, Zenon DEF Return
    <3> QED BY <1>3, <2>2, <3>1, Zenon DEF Return, W!Next, W!Succeed
  <2> QED BY <2>1, <2>2, Zenon
<1>4. ASSUME NEW r \in Workers, Take(r) PROVE [W!Next]_(W!vars)
  BY <1>4, Zenon DEF Take, W!vars
<1>5. ASSUME NEW r \in Workers, Do(r) \/ DoError(r) PROVE [W!Next]_(W!vars)
  <2>1. item[r] \in Items /\ times[item[r]] = 0 /\ at[r] = "do"
    BY <1>5, Zenon DEF Do, DoError, IInv, Taken
  <2>2. result = "none"
    BY <2>1, Zenon DEF IInv, Gone
  <2>3. times' = [times EXCEPT ![item[r]] = 1]
    BY <1>5, <2>1 DEF Do, DoError, IInv, TypeOK
  <2>4. finished' \in {finished, finished \cup {item[r]}} /\ result' = result
    BY <1>5, Zenon DEF Do, DoError
  <2>5. W!Do(item[r])
    BY <2>1, <2>2, <2>3, <2>4, Zenon DEF W!Do
  <2> QED BY <2>1, <2>5, Zenon DEF W!Next
<1> QED BY <1>1, <1>2, <1>3, <1>4, <1>5, Zenon DEF Next

\* SplitWork implements its abstract specification: the callback is called once at most for
\* each item, and true means that each was called for and no call failed (concurrency.go:9-55).
THEOREM ImplementsWork == Spec => DoesTheWork
<1>1. Init => W!Init
  BY Zenon DEF Init, W!Init
<1>2. IInv /\ [Next]_vars => [W!Next]_(W!vars)
  BY StepSimulation, Zenon
<1> QED BY <1>1, <1>2, WorkIsShared, PTL DEF Spec, DoesTheWork, W!Spec

-----------------------------------------------------------------------------
(* HasherCollection.                                                       *)

HIDE WorkAssumption

\* The names of seeds are not those of outcomes, and there is at least one state.
SeedsAssumption ==
    /\ None \notin Keys \cup {"garbage"}
    /\ Keys \cap {"nil", "garbage", "panic", "error"} = {}
    /\ States \in Nat \ {0} /\ Sizes \subseteq Nat \ {0}

HashStates == [key : Keys \cup {None, "nil"}, vm : Keys \cup {None, "garbage"}]

SeedTypes ==
    /\ cache \in Seq(HashStates) /\ Len(cache) > 0 /\ nextState \in Nat
    /\ key \in [Threads -> Keys \cup {None}]
    /\ caller \in [Threads -> {"idle", "lookup", "init"}]
    /\ DOMAIN hashedWith = Threads

\* A state hashes with the seed it claims, or cannot hash, unless its initialisation failed.
StatesKeyed ==
    \A i \in DOMAIN cache :
        cache[i].key \in Keys => cache[i].vm \in {cache[i].key, None} \/ cache[i].key \in broken

\* A call has a seed.
CallersKeyed == \A t \in Threads : caller[t] # "idle" => key[t] \in Keys

HasherInv == SeedTypes /\ StatesKeyed /\ CallersKeyed /\ H!HashIsOfKey

\* The first state with the seed has the seed, or is none.
LEMMA LookupFinds ==
  ASSUME SeedTypes, NEW k, H!Lookup(k) # 0
  PROVE  /\ H!Lookup(k) \in DOMAIN cache
         /\ cache[H!Lookup(k)].key = k \/ cache[H!Lookup(k)] = H!NilState
<1> DEFINE hits == {i \in DOMAIN cache : cache[i].key = k \/ cache[i] = H!NilState}
<1>1. hits \subseteq Nat
  BY DEF SeedTypes
<1>2. hits # {}
  BY Zenon DEF H!Lookup
<1>3. H!Lookup(k) = CHOOSE i \in hits : \A j \in hits : i <= j
  BY <1>2, Zenon DEF H!Lookup
<1>4. \E i \in hits : \A j \in hits : i <= j
  <2> DEFINE less == {p \in Nat \X Nat : p[1] < p[2]}
  <2>1. IsWellFoundedOn(less, Nat)
    BY NatLessThanWellFounded, Zenon DEF OpToRel
  <2> HIDE DEF less, hits
  <2>2. PICK i \in hits : \A j \in hits : ~ (<<j, i>> \in less)
    BY <1>1, <1>2, <2>1, WFMin, Zenon
  <2>3. \A j \in hits : ~ (j < i)
    BY <1>1, <2>2, Zenon DEF less
  <2> QED
    BY <1>1, <2>3
<1>5. H!Lookup(k) \in hits
  <2> HIDE DEF hits
  <2> QED
    BY <1>3, <1>4, Zenon
<1> QED
  BY <1>5, Zenon

LEMMA HasherInit == SeedsAssumption /\ H!Init => HasherInv
BY DEF SeedsAssumption, H!Init, HasherInv, SeedTypes, HashStates, StatesKeyed, CallersKeyed,
       H!HashIsOfKey, H!Empty, H!Garbage

\* An answer changes for the goroutine that got it, and its seed is that of the call.
LEMMA Answered ==
  ASSUME HasherInv, SeedsAssumption, NEW t \in Threads, NEW v,
         hashedWith' = [hashedWith EXCEPT ![t] = v], key' = key, broken \subseteq broken',
         v \in Keys \cup {"garbage"} => v = key[t] \/ key[t] \in broken'
  PROVE  H!HashIsOfKey' /\ DOMAIN hashedWith' = Threads
BY Zenon DEF HasherInv, SeedTypes, H!HashIsOfKey, H!Garbage

LEMMA FindStep ==
  ASSUME HasherInv, SeedsAssumption, NEW t \in Threads, H!Find(t)
  PROVE  HasherInv'
<1> USE DEF HasherInv, SeedTypes
<1>1. UNCHANGED <<cache, nextState, key, broken>> /\ caller[t] = "lookup" /\ key[t] \in Keys
  BY Zenon DEF H!Find, CallersKeyed
<1>2. CASE H!Lookup(key[t]) = 0
  <2>1. caller' = [caller EXCEPT ![t] = "init"] /\ hashedWith' = hashedWith
    BY <1>2, Zenon DEF H!Find
  <2>2. CallersKeyed'
    BY <1>1, <2>1, Zenon DEF CallersKeyed
  <2> QED
    BY <1>1, <2>1, <2>2, Zenon DEF StatesKeyed, H!HashIsOfKey
<1>3. CASE H!Lookup(key[t]) # 0
  <2> DEFINE i == H!Lookup(key[t])
  <2>1. /\ caller' = [caller EXCEPT ![t] = "idle"]
        /\ hashedWith' = [hashedWith EXCEPT ![t] = H!HashWith(cache[i])]
    BY <1>3, Zenon DEF H!Find
  <2>2. i \in DOMAIN cache /\ (cache[i].key = key[t] \/ cache[i] = H!NilState)
    BY <1>3, LookupFinds, Zenon
  <2> HIDE DEF i
  <2>3. H!HashWith(cache[i]) \in Keys \cup {"garbage"}
          => H!HashWith(cache[i]) = key[t] \/ key[t] \in broken
    <3>1. CASE cache[i] = H!NilState
      BY <3>1 DEF H!HashWith, H!NilState, SeedsAssumption
    <3>2. CASE cache[i].key = key[t]
      BY <1>1, <2>2, <3>2, Zenon DEF H!HashWith, StatesKeyed, SeedsAssumption
    <3> QED
      BY <2>2, <3>1, <3>2, Zenon
  <2>4. H!HashIsOfKey' /\ DOMAIN hashedWith' = Threads
    BY <1>1, <2>1, <2>3, Answered, Zenon
  <2>5. CallersKeyed' /\ caller' \in [Threads -> {"idle", "lookup", "init"}]
    BY <1>1, <2>1, Zenon DEF CallersKeyed
  <2> QED
    BY <1>1, <2>4, <2>5, Zenon DEF StatesKeyed
<1> QED
  BY <1>2, <1>3, Zenon

\* The state in turn is initialised, and hashes with the seed.
LEMMA InitHashStep ==
  ASSUME HasherInv, SeedsAssumption, NEW t \in Threads, H!InitHash(t)
  PROVE  HasherInv'
<1> USE DEF HasherInv, SeedTypes
<1>1. /\ UNCHANGED <<key, broken>> /\ caller[t] = "init" /\ key[t] \in Keys
      /\ caller' = [caller EXCEPT ![t] = "idle"] /\ nextState' = (nextState + 1) % Len(cache)
  BY Zenon DEF H!InitHash, CallersKeyed
<1>2. CallersKeyed' /\ caller' \in [Threads -> {"idle", "lookup", "init"}]
  BY <1>1, Zenon DEF CallersKeyed
<1>3. nextState' \in Nat
  BY <1>1
<1>4. CASE nextState >= Len(cache) \/ cache[nextState + 1] = H!NilState
  <2>1. hashedWith' = [hashedWith EXCEPT ![t] = "panic"] /\ cache' = cache
    BY <1>4, Zenon DEF H!InitHash
  <2>2. H!HashIsOfKey' /\ DOMAIN hashedWith' = Threads
    BY <1>1, <2>1, Answered, Zenon DEF SeedsAssumption
  <2> QED
    BY <1>1, <1>2, <1>3, <2>1, <2>2, Zenon DEF StatesKeyed
<1>5. CASE ~ (nextState >= Len(cache) \/ cache[nextState + 1] = H!NilState)
  <2> DEFINE i == nextState + 1
             state == [key |-> key[t], vm |-> key[t]]
  <2>1. /\ cache' = [cache EXCEPT ![i] = state]
        /\ hashedWith' = [hashedWith EXCEPT ![t] = H!HashWith(cache'[i])]
    BY <1>5, Zenon DEF H!InitHash, H!InitState
  <2>2. i \in DOMAIN cache /\ state \in HashStates
    BY <1>1, <1>5 DEF HashStates
  <2>3. cache' \in Seq(HashStates) /\ Len(cache') = Len(cache) /\ DOMAIN cache' = DOMAIN cache
        /\ cache'[i] = state /\ \A j \in DOMAIN cache \ {i} : cache'[j] = cache[j]
    BY <2>1, <2>2
  <2>4. H!HashWith(cache'[i]) = key[t]
    BY <1>1, <2>3 DEF H!HashWith, SeedsAssumption
  <2>5. H!HashIsOfKey' /\ DOMAIN hashedWith' = Threads
    BY <1>1, <2>1, <2>4, Answered, Zenon
  <2>6. StatesKeyed'
    BY <1>1, <2>3, SMTT(30) DEF StatesKeyed
  <2> QED
    BY <1>1, <1>2, <1>3, <2>3, <2>5, <2>6, Zenon
<1> QED
  BY <1>4, <1>5, Zenon

\* The state in turn keeps a seed that is known to have failed.
LEMMA InitFailsStep ==
  ASSUME HasherInv, SeedsAssumption, NEW t \in Threads, H!InitStateFails(t)
  PROVE  HasherInv'
<1> USE DEF HasherInv, SeedTypes
<1> DEFINE i == nextState + 1
<1>1. /\ key' = key /\ broken' = broken \cup {key[t]} /\ caller[t] = "init" /\ key[t] \in Keys
      /\ caller' = [caller EXCEPT ![t] = "idle"] /\ nextState' = (nextState + 1) % Len(cache)
      /\ hashedWith' = [hashedWith EXCEPT ![t] = "error"]
  BY Zenon DEF H!InitStateFails, CallersKeyed
<1>a. i \in DOMAIN cache
  <2>1. nextState < Len(cache)
    BY Zenon DEF H!InitStateFails
  <2>2. cache \in Seq(HashStates) /\ nextState \in Nat
    BY Zenon
  <2> QED
    BY <2>1, <2>2
<1>2. CallersKeyed' /\ caller' \in [Threads -> {"idle", "lookup", "init"}]
  BY <1>1, Zenon DEF CallersKeyed
<1>3. nextState' \in Nat
  BY <1>1
<1>4. H!HashIsOfKey' /\ DOMAIN hashedWith' = Threads
  BY <1>1, Answered, Zenon DEF SeedsAssumption
<1>5. PICK state \in H!InitFailures(cache[i], key[t]) : cache' = [cache EXCEPT ![i] = state]
  BY Zenon DEF H!InitStateFails
<1>6. state \in HashStates /\ state.key = key[t]
  BY <1>1 DEF H!InitFailures, H!Garbage, HashStates
<1>7. cache' \in Seq(HashStates) /\ Len(cache') = Len(cache) /\ DOMAIN cache' = DOMAIN cache
      /\ cache'[i] = state /\ \A j \in DOMAIN cache \ {i} : cache'[j] = cache[j]
  BY <1>a, <1>5, <1>6
<1>8. StatesKeyed'
  BY <1>1, <1>6, <1>7, Zenon DEF StatesKeyed
<1> QED
  BY <1>1, <1>2, <1>3, <1>4, <1>7, <1>8, Zenon

\* Fresh states, or states that are not there, have no seed.
LEMMA InitStatesStep ==
  ASSUME HasherInv, SeedsAssumption, NEW n \in Nat \ {0}, H!InitStates(n),
         UNCHANGED <<nextState, caller, key, hashedWith, broken>>
  PROVE  HasherInv'
<1>1. /\ cache' \in [1..n -> HashStates]
      /\ \A i \in 1..n : cache'[i].key \in {None, "nil"}
  BY DEF H!InitStates, H!Empty, H!NilState, HashStates
<1>2. cache' \in Seq(HashStates) /\ Len(cache') = n /\ DOMAIN cache' = 1..n
  BY <1>1
<1>3. StatesKeyed'
  BY <1>1, <1>2, Zenon DEF StatesKeyed, SeedsAssumption
<1>4. CallersKeyed' /\ H!HashIsOfKey'
  BY Zenon DEF HasherInv, CallersKeyed, H!HashIsOfKey
<1> QED
  BY <1>2, <1>3, <1>4 DEF HasherInv, SeedTypes

\* Goroutines look a state up and initialise one in two steps, and the options replace all of
\* them in between: a hash is made with the seed asked for all the same, and only a seed whose
\* initialisation failed may be answered wrongly later (randomx_cgo.go:27-50, 170).
THEOREM SeedsAreAnswered ==
  ASSUME SeedsAssumption
  PROVE  H!Spec => []H!HashIsOfKey
<1>1. H!Init => HasherInv
  BY HasherInit, Zenon
<1>2. HasherInv /\ [H!Next]_(H!vars) => HasherInv'
  <2> SUFFICES ASSUME HasherInv, [H!Next]_(H!vars)
               PROVE  HasherInv'
    BY Zenon
  <2>1. ASSUME NEW t \in Threads, H!Find(t) \/ H!InitHash(t) \/ H!InitStateFails(t)
        PROVE  HasherInv'
    BY <2>1, FindStep, InitHashStep, InitFailsStep, Zenon
  <2>2. ASSUME NEW t \in Threads, NEW k \in Keys, H!Call(t, k) PROVE HasherInv'
    <3>1. /\ UNCHANGED <<cache, nextState, broken>> /\ caller' = [caller EXCEPT ![t] = "lookup"]
          /\ key' = [key EXCEPT ![t] = k] /\ hashedWith' = [hashedWith EXCEPT ![t] = None]
      BY <2>2, Zenon DEF H!Call
    <3> QED
      BY <3>1, Zenon DEF HasherInv, SeedTypes, StatesKeyed, CallersKeyed, H!HashIsOfKey, H!Garbage,
                  SeedsAssumption
  <2>3. CASE H!OptionFlags
    <3>1. Len(cache) \in Nat \ {0}
      BY DEF HasherInv, SeedTypes
    <3> QED
      BY <2>3, <3>1, InitStatesStep, Zenon DEF H!OptionFlags
  <2>4. ASSUME NEW n \in Sizes, H!OptionNumberOfCachedStates(n) PROVE HasherInv'
    <3>1. n \in Nat \ {0}
      BY Zenon DEF SeedsAssumption
    <3> QED
      BY <2>4, <3>1, InitStatesStep, Zenon DEF H!OptionNumberOfCachedStates
  <2>5. CASE UNCHANGED H!vars
    BY <2>5, Zenon DEF H!vars, HasherInv, SeedTypes, StatesKeyed, CallersKeyed, H!HashIsOfKey
  <2> QED
    BY <2>1, <2>2, <2>3, <2>4, <2>5, Zenon DEF H!Next
<1>3. HasherInv => H!HashIsOfKey
  BY Zenon DEF HasherInv
<1> QED
  BY <1>1, <1>2, <1>3, PTL DEF H!Spec

-----------------------------------------------------------------------------
(* LegacyCache.                                                            *)

\* What the proofs use of the constants, and that a remainder is a slot.
LEMMA CacheFacts ==
  ASSUME C!CacheAssumption
  PROVE  /\ NumBlocks \in Nat \ {0} /\ BlockSize \in Nat \ {0} /\ None \notin Blocks
         /\ \A b \in Blocks : Size[b] \in Nat \ {0} /\ Size[b] # BlockSize
         /\ \A i \in Nat : i % NumBlocks \in C!Slots
  BY DEF C!CacheAssumption, C!Slots

\* Before the file is opened nothing is stored.
LEMMA CacheInit == ASSUME C!CacheAssumption, C!Init PROVE C!IInv
<1>1. C!TypeOK
  <2>1. length \in [C!Slots -> Nat] /\ storeIndex \in Nat /\ scanned \in 0..NumBlocks
        /\ loadSlot \in C!Slots /\ slot \in [Savers -> C!Slots]
    BY CacheFacts DEF C!Init, C!Slots
  <2>2. cells \in [C!Slots -> [1..BlockSize -> Blocks \cup {None}]]
    BY Zenon DEF C!Init
  <2>3. /\ up \in BOOLEAN /\ once \in BOOLEAN /\ loading \in BOOLEAN
        /\ saver \in [Savers -> {"idle", "store", "index", "length", "blob"}]
        /\ block \in [Savers -> Blocks \cup {None}] /\ owner \in [C!Slots -> Blocks \cup {None}]
    BY Zenon DEF C!Init
  <2> QED
    BY <2>1, <2>2, <2>3, Zenon DEF C!TypeOK
<1>2. C!Writing /\ C!Owned
  BY Zenon DEF C!Init, C!Writing, C!Owned
<1>3. C!Whole
  BY CacheFacts DEF C!Init, C!Whole
<1>4. C!Scanned /\ C!LoadedWereStored
  BY CacheFacts DEF C!Init, C!Scanned, C!LoadedWereStored
<1> QED
  BY <1>1, <1>2, <1>3, <1>4, Zenon DEF C!IInv

\* The last byte of the file belongs to no share: opening it leaves all shares whole.
LEMMA NewCacheStep == ASSUME C!CacheAssumption, C!IInv, C!NewCache PROVE C!IInv'
<1> USE DEF C!IInv
<1>1. /\ cells' = [cells EXCEPT ![NumBlocks - 1][BlockSize] = None]
      /\ UNCHANGED <<length, saver, block, slot, stored, owner>>
      /\ up' = TRUE /\ storeIndex' = 0 /\ once' = FALSE /\ loading' = FALSE
      /\ scanned' = 0 /\ loadSlot' = 0 /\ loaded' = {}
  BY Zenon DEF C!NewCache
<1>2. NumBlocks - 1 \in C!Slots /\ BlockSize \in 1..BlockSize /\ 1 \in 1..BlockSize /\ 0 \in C!Slots
  BY CacheFacts DEF C!Slots
<1>3. cells' \in [C!Slots -> [1..BlockSize -> Blocks \cup {None}]]
  BY <1>1, <1>2, Zenon DEF C!TypeOK
<1>4. C!TypeOK'
  <2>1. storeIndex' \in Nat /\ scanned' \in 0..NumBlocks /\ loadSlot' \in C!Slots
    BY <1>1, <1>2, CacheFacts
  <2>2. up' \in BOOLEAN /\ once' \in BOOLEAN /\ loading' \in BOOLEAN
    BY <1>1, Zenon
  <2> QED
    BY <1>1, <1>3, <2>1, <2>2, Zenon DEF C!TypeOK, C!Slots
<1>5. ASSUME NEW s \in C!Slots, NEW c \in 1..BlockSize
      PROVE  cells'[s][c] = cells[s][c] \/ (c = BlockSize /\ cells'[s][c] = None)
  BY <1>1, <1>2, Zenon DEF C!TypeOK
<1>6. C!Whole'
  <2> SUFFICES ASSUME NEW s \in C!Slots, cells'[s][1] # None
               PROVE  /\ cells'[s][1] \in stored /\ Size[cells'[s][1]] < BlockSize
                      /\ \A c \in 1..Size[cells'[s][1]] : cells'[s][c] = cells'[s][1]
    BY <1>1, Zenon DEF C!Whole
  <2>1. cells'[s][1] = cells[s][1] /\ cells[s][1] \in Blocks
    <3>1. cells \in [C!Slots -> [1..BlockSize -> Blocks \cup {None}]]
      BY Zenon DEF C!TypeOK
    <3>2. cells[s][1] \in Blocks \cup {None}
      BY <1>2, <3>1
    <3> QED
      BY <1>2, <1>5, <3>2, Zenon
  <2>2. /\ cells[s][1] \in stored /\ Size[cells[s][1]] < BlockSize
        /\ \A c \in 1..Size[cells[s][1]] : cells[s][c] = cells[s][1]
    BY <2>1, Zenon DEF C!Whole
  <2>3. ASSUME NEW c \in 1..Size[cells[s][1]]
        PROVE  cells'[s][c] = cells[s][c]
    BY <1>5, <2>1, <2>2, CacheFacts
  <2> QED
    BY <2>1, <2>2, <2>3, Zenon
<1>7. C!Owned'
  <2> SUFFICES ASSUME NEW s \in C!Slots, owner[s] # None
               PROVE  cells'[s][1] = owner[s] /\ length[s] = Size[owner[s]]
    BY <1>1, Zenon DEF C!Owned
  <2>1. cells[s][1] = owner[s] /\ length[s] = Size[owner[s]] /\ Size[owner[s]] < BlockSize
        /\ owner[s] \in Blocks
    BY Zenon DEF C!Owned, C!Whole, C!TypeOK
  <2>2. 1 # BlockSize
    BY <2>1, CacheFacts
  <2> QED
    BY <1>2, <1>5, <2>1, <2>2, Zenon
<1>8. C!Writing' /\ C!LoadedWereStored'
  BY <1>1, Zenon DEF C!Writing, C!LoadedWereStored
<1>9. C!Scanned'
  BY <1>1, CacheFacts DEF C!Scanned
<1> QED
  BY <1>4, <1>6, <1>7, <1>8, <1>9, Zenon

\* A slot that was reached stays so, as long as whoever lets go of it has touched it.
LEMMA ReachedStays ==
  ASSUME touched \subseteq touched', NEW s, C!Reached(s),
         \A q \in Savers : saver[q] \in {"length", "blob"} =>
            \/ saver'[q] \in {"length", "blob"} /\ slot'[q] = slot[q]
            \/ slot[q] \in touched'
  PROVE  C!Reached(s)'
  BY Zenon DEF C!Reached

\* A step that leaves the index and the loader alone.
LEMMA ScannedStays ==
  ASSUME C!Scanned, UNCHANGED <<up, once, loading, scanned, storeIndex>>,
         \A s : C!Reached(s) => C!Reached(s)'
  PROVE  C!Scanned'
  BY Zenon DEF C!Scanned

\* A step that leaves the file alone.
LEMMA FileStays ==
  ASSUME C!Whole, C!Owned, C!LoadedWereStored, UNCHANGED <<length, cells, loaded>>,
         stored \subseteq stored', \A s \in C!Slots : owner'[s] \in {owner[s], None}
  PROVE  C!Whole' /\ C!Owned' /\ C!LoadedWereStored'
<1>1. C!Whole'
  BY Zenon DEF C!Whole
<1>2. C!Owned'
  BY Zenon DEF C!Owned
<1>3. C!LoadedWereStored'
  BY Zenon DEF C!LoadedWereStored
<1> QED
  BY <1>1, <1>2, <1>3, Zenon

\* A goroutine starts.
LEMMA SaveBlockStep ==
  ASSUME C!CacheAssumption, C!IInv, NEW p \in Savers, NEW b \in Blocks, C!SaveBlock(p, b)
  PROVE  C!IInv'
<1> USE DEF C!IInv
<1>1. /\ saver[p] = "idle" /\ saver' = [saver EXCEPT ![p] = "store"]
      /\ block' = [block EXCEPT ![p] = b]
      /\ UNCHANGED <<length, cells, up, storeIndex, once, loading, slot, stored, owner, touched>>
      /\ UNCHANGED <<scanned, loadSlot, loaded>>
  BY Zenon DEF C!SaveBlock, C!loader
<1>2. /\ saver'[p] = "store" /\ block'[p] = b
      /\ \A q \in Savers \ {p} : saver'[q] = saver[q] /\ block'[q] = block[q]
      /\ saver' \in [Savers -> {"idle", "store", "index", "length", "blob"}]
      /\ block' \in [Savers -> Blocks \cup {None}]
  BY <1>1, Zenon DEF C!TypeOK
<1>3. C!TypeOK'
  BY <1>1, <1>2, Zenon DEF C!TypeOK, C!Slots
<1>4. C!Writing'
  BY <1>1, <1>2, Zenon DEF C!Writing
<1>5. C!Scanned'
  <2>1. ASSUME NEW s, C!Reached(s) PROVE C!Reached(s)'
    BY <1>1, <1>2, <2>1, ReachedStays, Zenon
  <2> QED
    BY <1>1, <2>1, ScannedStays, Zenon
<1> QED
  BY <1>1, <1>3, <1>4, <1>5, FileStays, Zenon

\* It gives up, or has a share that fits.
LEMMA StoreStep ==
  ASSUME C!CacheAssumption, C!IInv, NEW p \in Savers, C!Store(p)
  PROVE  C!IInv'
<1> USE DEF C!IInv
<1>1. /\ saver[p] = "store" /\ DOMAIN saver = Savers
      /\ saver' = [saver EXCEPT ![p] =
                                   IF loading \/ Size[block[p]] > BlockSize THEN "idle" ELSE "index"]
      /\ UNCHANGED <<length, cells, up, storeIndex, once, loading, block, slot, stored, owner>>
      /\ UNCHANGED <<touched, scanned, loadSlot, loaded>>
  BY Zenon DEF C!Store, C!loader, C!TypeOK
<1>2. /\ saver'[p] \in {"idle", "index"} /\ \A q \in Savers \ {p} : saver'[q] = saver[q]
      /\ saver' \in [Savers -> {"idle", "store", "index", "length", "blob"}]
  BY <1>1, Zenon DEF C!TypeOK
<1>3. saver'[p] = "index" => Size[block[p]] < BlockSize
  <2>1. block[p] \in Blocks
    BY <1>1, Zenon DEF C!Writing
  <2>2. saver'[p] = "index" => ~ (Size[block[p]] > BlockSize)
    BY <1>1, Zenon
  <2> QED
    BY <2>1, <2>2, CacheFacts
<1>4. C!TypeOK'
  BY <1>1, <1>2, Zenon DEF C!TypeOK, C!Slots
<1>5. C!Writing'
  BY <1>1, <1>2, <1>3, Zenon DEF C!Writing
<1>6. C!Scanned'
  <2>1. ASSUME NEW s, C!Reached(s) PROVE C!Reached(s)'
    BY <1>1, <1>2, <2>1, ReachedStays, Zenon
  <2> QED
    BY <1>1, <2>1, ScannedStays, Zenon
<1> QED
  BY <1>1, <1>4, <1>5, <1>6, FileStays, Zenon

\* It takes a slot, which nobody owns from then on.
LEMMA TakeSlotStep ==
  ASSUME C!CacheAssumption, C!IInv, NEW p \in Savers, C!TakeSlot(p)
  PROVE  C!IInv'
<1> USE DEF C!IInv
<1>a. storeIndex \in Nat /\ storeIndex + 1 \in Nat
  BY DEF C!TypeOK
<1>b. PICK t \in C!Slots : t = (storeIndex + 1) % NumBlocks
  BY <1>a, CacheFacts, Zenon
<1>1. /\ saver[p] = "index" /\ saver' = [saver EXCEPT ![p] = "length"]
      /\ storeIndex' = storeIndex + 1 /\ slot' = [slot EXCEPT ![p] = t]
      /\ stored' = stored \cup {block[p]}
      /\ owner' = [owner EXCEPT ![slot'[p]] = None]
      /\ UNCHANGED <<length, cells, up, once, loading, block, touched>>
      /\ UNCHANGED <<scanned, loadSlot, loaded>>
  BY <1>b, Zenon DEF C!TakeSlot, C!loader
<1>2. /\ saver'[p] = "length" /\ slot'[p] = t
      /\ \A q \in Savers \ {p} : saver'[q] = saver[q] /\ slot'[q] = slot[q]
      /\ saver' \in [Savers -> {"idle", "store", "index", "length", "blob"}]
      /\ slot' \in [Savers -> C!Slots]
  BY <1>1, <1>b, Zenon DEF C!TypeOK
<1>3. /\ owner'[t] = None /\ \A s \in C!Slots : owner'[s] \in {owner[s], None}
      /\ owner' \in [C!Slots -> Blocks \cup {None}]
  BY <1>1, <1>b, <1>2, Zenon DEF C!TypeOK
<1>4. C!TypeOK'
  <2>1. storeIndex' \in Nat
    BY <1>1, <1>a, Zenon
  <2> QED
    BY <1>1, <1>2, <1>3, <2>1, Zenon DEF C!TypeOK, C!Slots
<1>5. C!Writing'
  <2>1. block[p] \in Blocks /\ Size[block[p]] < BlockSize
    BY <1>1, Zenon DEF C!Writing
  <2>2. ASSUME NEW q \in Savers \ {p}, saver[q] \in {"length", "blob"}
        PROVE  block[q] \in stored' /\ owner'[slot[q]] = None
    <3>1. block[q] \in stored /\ owner[slot[q]] = None
      BY <2>2, Zenon DEF C!Writing
    <3>2. slot[q] \in C!Slots
      BY Zenon DEF C!TypeOK
    <3> QED
      BY <1>1, <1>3, <3>1, <3>2, Zenon
  <2> QED
    BY <1>1, <1>2, <1>3, <2>1, <2>2, ZenonT(30) DEF C!Writing
<1>6. C!Scanned'
  <2>1. ASSUME NEW s, C!Reached(s) PROVE C!Reached(s)'
    BY <1>1, <1>2, <2>1, ReachedStays, Zenon
  <2>2. C!Reached(t)'
    BY <1>2, Zenon DEF C!Reached
  <2>3. storeIndex' % NumBlocks = t /\ scanned \in Nat /\ scanned <= storeIndex
    BY <1>1, <1>b DEF C!TypeOK, C!Scanned
  <2>4. ASSUME up, once, NEW i \in (storeIndex' - scanned + 1)..storeIndex'
        PROVE  C!Reached(i % NumBlocks)'
    <3>1. CASE i = storeIndex'
      BY <2>2, <2>3, <3>1, Zenon
    <3>2. CASE i # storeIndex'
      <4>1. i \in (storeIndex - scanned + 1)..storeIndex
        BY <1>1, <1>a, <2>3, <3>2
      <4> QED
        BY <2>1, <2>4, <4>1, Zenon DEF C!Scanned
    <3> QED
      BY <3>1, <3>2, Zenon
  <2>5. scanned' <= storeIndex'
    BY <1>1, <1>a, <2>3
  <2> QED
    BY <1>1, <2>4, <2>5, Zenon DEF C!Scanned
<1>7. stored \subseteq stored'
  BY <1>1, Zenon
<1> QED
  BY <1>1, <1>3, <1>4, <1>5, <1>6, <1>7, FileStays, Zenon

\* It writes the length into a slot nobody owns.
LEMMA WriteLengthStep ==
  ASSUME C!CacheAssumption, C!IInv, NEW p \in Savers, C!WriteLength(p)
  PROVE  C!IInv'
<1> USE DEF C!IInv
<1>1. /\ saver[p] = "length" /\ saver' = [saver EXCEPT ![p] = "blob"]
      /\ length' = [length EXCEPT ![slot[p]] = Size[block[p]]]
      /\ UNCHANGED <<cells, up, storeIndex, once, loading, block, slot, stored, owner, touched>>
      /\ UNCHANGED <<scanned, loadSlot, loaded>>
  BY Zenon DEF C!WriteLength, C!loader
<1>2. block[p] \in Blocks /\ owner[slot[p]] = None /\ slot[p] \in C!Slots
  BY <1>1, Zenon DEF C!Writing, C!TypeOK
<1>3. /\ saver'[p] = "blob" /\ \A q \in Savers \ {p} : saver'[q] = saver[q]
      /\ saver' \in [Savers -> {"idle", "store", "index", "length", "blob"}]
  BY <1>1, Zenon DEF C!TypeOK
<1>4. /\ length' \in [C!Slots -> Nat] /\ \A s \in C!Slots \ {slot[p]} : length'[s] = length[s]
  <2>1. Size[block[p]] \in Nat /\ length \in [C!Slots -> Nat]
    BY <1>2, CacheFacts, Zenon DEF C!TypeOK
  <2> QED
    BY <1>1, <1>2, <2>1, Zenon
<1>5. C!TypeOK'
  BY <1>1, <1>3, <1>4, Zenon DEF C!TypeOK, C!Slots
<1>6. C!Writing'
  BY <1>1, <1>3, Zenon DEF C!Writing
<1>7. C!Whole' /\ C!LoadedWereStored'
  BY <1>1, Zenon DEF C!Whole, C!LoadedWereStored
<1>8. C!Owned'
  BY <1>1, <1>2, <1>4, Zenon DEF C!Owned
<1>9. C!Scanned'
  <2>1. ASSUME NEW s, C!Reached(s) PROVE C!Reached(s)'
    BY <1>1, <1>3, <2>1, ReachedStays, Zenon
  <2> QED
    BY <1>1, <2>1, ScannedStays, Zenon
<1> QED
  BY <1>5, <1>6, <1>7, <1>8, <1>9, Zenon

\* It writes the bytes: the slot starts with its share, and is its own if nobody else was there.
LEMMA WriteBlobStep ==
  ASSUME C!CacheAssumption, C!IInv, NEW p \in Savers, C!WriteBlob(p)
  PROVE  C!IInv'
<1> USE DEF C!IInv
<1> DEFINE t == slot[p]
           b == block[p]
<1>1. /\ saver[p] = "blob" /\ saver' = [saver EXCEPT ![p] = "idle"]
      /\ cells' = C!Written(t, b) /\ touched' = touched \cup {t}
      /\ owner' = [owner EXCEPT ![t] = IF C!Shared(p) \/ length[t] # Size[b] THEN None ELSE b]
      /\ UNCHANGED <<length, up, storeIndex, once, loading, block, slot, stored>>
      /\ UNCHANGED <<scanned, loadSlot, loaded>>
  BY Zenon DEF C!WriteBlob, C!loader
<1>2. t \in C!Slots /\ b \in Blocks /\ b \in stored /\ Size[b] < BlockSize
  BY <1>1, Zenon DEF C!Writing, C!TypeOK
<1>3. Size[b] \in Nat \ {0} /\ BlockSize \in Nat /\ None \notin Blocks
  BY <1>2, CacheFacts, Zenon
<1>4. /\ saver'[p] = "idle" /\ \A q \in Savers \ {p} : saver'[q] = saver[q]
      /\ saver' \in [Savers -> {"idle", "store", "index", "length", "blob"}]
  BY <1>1, Zenon DEF C!TypeOK
<1> HIDE DEF t, b
<1>5. /\ \A s \in C!Slots \ {t} : cells'[s] = cells[s]
      /\ \A c \in 1..Size[b] : cells'[t][c] = b
      /\ cells' \in [C!Slots -> [1..BlockSize -> Blocks \cup {None}]]
  <2> DEFINE new == [c \in 1..BlockSize |-> IF c <= Size[b] THEN b ELSE cells[t][c]]
  <2>1. cells \in [C!Slots -> [1..BlockSize -> Blocks \cup {None}]]
    BY Zenon DEF C!TypeOK
  <2>2. cells' = [cells EXCEPT ![t] = new]
    BY <1>1, Zenon DEF C!Written
  <2>3. new \in [1..BlockSize -> Blocks \cup {None}] /\ \A c \in 1..Size[b] : new[c] = b
    BY <1>2, <1>3, <2>1
  <2> HIDE DEF new
  <2> QED
    BY <1>2, <2>1, <2>2, <2>3, Zenon
<1>6. /\ \A s \in C!Slots \ {t} : owner'[s] = owner[s]
      /\ owner'[t] = IF C!Shared(p) \/ length[t] # Size[b] THEN None ELSE b
      /\ owner' \in [C!Slots -> Blocks \cup {None}]
  BY <1>1, <1>2, Zenon DEF C!TypeOK
<1>7. C!TypeOK'
  BY <1>1, <1>4, <1>5, <1>6, Zenon DEF C!TypeOK, C!Slots
<1>8. cells'[t][1] = b
  BY <1>3, <1>5
<1>9. C!Whole'
  <2>1. ASSUME NEW s \in C!Slots, cells'[s][1] # None
        PROVE  /\ cells'[s][1] \in stored /\ Size[cells'[s][1]] < BlockSize
               /\ \A c \in 1..Size[cells'[s][1]] : cells'[s][c] = cells'[s][1]
    <3>1. CASE s = t
      BY <1>2, <1>5, <1>8, <3>1, Zenon
    <3>2. CASE s # t
      BY <1>5, <2>1, <3>2, Zenon DEF C!Whole
    <3> QED
      BY <3>1, <3>2, Zenon
  <2> QED
    BY <1>1, <2>1, Zenon DEF C!Whole
<1>10. C!Owned'
  <2>1. ASSUME NEW s \in C!Slots, owner'[s] # None
        PROVE  cells'[s][1] = owner'[s] /\ length[s] = Size[owner'[s]]
    <3>1. CASE s = t
      BY <1>6, <1>8, <2>1, <3>1, Zenon
    <3>2. CASE s # t
      BY <1>5, <1>6, <2>1, <3>2, Zenon DEF C!Owned
    <3> QED
      BY <3>1, <3>2, Zenon
  <2> QED
    BY <1>1, <2>1, Zenon DEF C!Owned
<1>11. C!Writing'
  <2>1. ASSUME NEW q \in Savers \ {p}, saver[q] \in {"length", "blob"}
        PROVE  owner'[slot[q]] = None
    <3>1. owner[slot[q]] = None /\ slot[q] \in C!Slots
      BY <2>1, Zenon DEF C!Writing, C!TypeOK
    <3>2. slot[q] = t => C!Shared(p)
      BY <2>1, Zenon DEF C!Shared, t
    <3> QED
      BY <1>6, <3>1, <3>2
  <2> QED
    BY <1>1, <1>4, <2>1, ZenonT(30) DEF C!Writing
<1>12. C!Scanned'
  <2>1. ASSUME NEW s, C!Reached(s) PROVE C!Reached(s)'
    BY <1>1, <1>4, <2>1, ReachedStays, Zenon DEF t
  <2> QED
    BY <1>1, <2>1, ScannedStays, Zenon
<1>13. C!LoadedWereStored'
  BY <1>1, Zenon DEF C!LoadedWereStored
<1> QED
  BY <1>7, <1>9, <1>10, <1>11, <1>12, <1>13, Zenon

\* LoadAll goes through the slots, from the place the index is at.
LEMMA LoaderStep ==
  ASSUME C!CacheAssumption, C!IInv, C!LoadAll \/ C!LoadEnds
  PROVE  C!IInv'
<1> USE DEF C!IInv
<1>1. /\ UNCHANGED <<length, cells, up, storeIndex, saver, block, slot, stored, owner, touched>>
      /\ UNCHANGED <<scanned, loadSlot, loaded>>
  BY Zenon DEF C!LoadAll, C!LoadEnds, C!loader
<1>2. \/ ~once /\ once' = TRUE /\ loading' = TRUE
      \/ loading /\ loading' = FALSE /\ once' = once /\ scanned = NumBlocks
  BY Zenon DEF C!LoadAll, C!LoadEnds
<1>3. C!TypeOK' /\ C!Writing' /\ C!Whole' /\ C!Owned' /\ C!LoadedWereStored'
  <2>1. C!TypeOK'
    BY <1>1, <1>2, Zenon DEF C!TypeOK, C!Slots
  <2>2. C!Writing' /\ C!LoadedWereStored'
    BY <1>1, Zenon DEF C!Writing, C!LoadedWereStored
  <2>3. C!Whole' /\ C!Owned'
    BY <1>1, Zenon DEF C!Whole, C!Owned
  <2> QED
    BY <2>1, <2>2, <2>3, Zenon
<1>4. C!Scanned'
  <2>1. \A s : C!Reached(s) => C!Reached(s)'
    BY <1>1, Zenon DEF C!Reached
  <2>2. CASE ~once /\ once' = TRUE /\ loading' = TRUE
    <3>1. scanned = 0 /\ storeIndex \in Nat /\ NumBlocks # 0
      BY <2>2, CacheFacts, Zenon DEF C!Scanned, C!TypeOK
    <3>2. (storeIndex - scanned + 1)..storeIndex = {}
      BY <3>1
    <3> QED
      BY <1>1, <2>2, <3>1, <3>2, Zenon DEF C!Scanned
  <2>3. CASE loading /\ loading' = FALSE /\ once' = once /\ scanned = NumBlocks
    BY <1>1, <2>1, <2>3, Zenon DEF C!Scanned
  <2> QED
    BY <1>2, <2>2, <2>3, Zenon
<1> QED
  BY <1>3, <1>4, Zenon

\* Reading the length takes the next index.
LEMMA LoadLengthStep ==
  ASSUME C!CacheAssumption, C!IInv, C!LoadLength
  PROVE  C!IInv'
<1> USE DEF C!IInv
<1>a. /\ storeIndex \in Nat /\ storeIndex + 1 \in Nat /\ NumBlocks \in Nat
      /\ scanned \in Nat /\ scanned < NumBlocks /\ scanned <= storeIndex
  BY CacheFacts DEF C!TypeOK, C!Scanned, C!LoadLength
<1>b. PICK t \in C!Slots : t = (storeIndex + 1) % NumBlocks
  BY <1>a, CacheFacts, Zenon
<1>1. /\ loading /\ storeIndex' = storeIndex + 1 /\ scanned' = scanned + 1
      /\ loadSlot' = t /\ touched' = touched \cup {t}
      /\ UNCHANGED <<length, cells, up, once, loading, saver, block, slot, loaded, stored, owner>>
  BY <1>b, Zenon DEF C!LoadLength
<1>2. C!TypeOK'
  <2>1. storeIndex' \in Nat /\ scanned' \in 0..NumBlocks /\ loadSlot' \in C!Slots
    BY <1>a, <1>b, <1>1
  <2> QED
    BY <1>1, <2>1, Zenon DEF C!TypeOK, C!Slots
<1>3. C!Writing' /\ C!LoadedWereStored'
  BY <1>1, Zenon DEF C!Writing, C!LoadedWereStored
<1>4. C!Whole' /\ C!Owned'
  BY <1>1, Zenon DEF C!Whole, C!Owned
<1>5. C!Scanned'
  <2>1. ASSUME NEW s, C!Reached(s) PROVE C!Reached(s)'
    BY <1>1, <2>1, Zenon DEF C!Reached
  <2>2. C!Reached(t)'
    BY <1>1, Zenon DEF C!Reached
  <2>3. ASSUME up, once, NEW i \in (storeIndex' - scanned' + 1)..storeIndex'
        PROVE  C!Reached(i % NumBlocks)'
    <3>1. CASE i = storeIndex'
      BY <1>b, <1>1, <2>2, <3>1, Zenon
    <3>2. CASE i # storeIndex'
      <4>1. i \in (storeIndex - scanned + 1)..storeIndex
        BY <1>a, <1>1, <3>2
      <4> QED
        BY <2>1, <2>3, <4>1, Zenon DEF C!Scanned
    <3> QED
      BY <3>1, <3>2, Zenon
  <2>4. scanned' <= storeIndex'
    BY <1>a, <1>1
  <2>5. once
    BY <1>1, Zenon DEF C!Scanned
  <2> QED
    BY <1>1, <2>3, <2>4, <2>5, Zenon DEF C!Scanned
<1> QED
  BY <1>2, <1>3, <1>4, <1>5, Zenon

\* What a slot parses to is nothing or the share it starts with, whichever length was read.
LEMMA ParseFacts ==
  ASSUME C!CacheAssumption, C!IInv, NEW s \in C!Slots, NEW n
  PROVE  C!Parse(s, n) # None => C!Parse(s, n) \in stored
<1>1. cells[s][1] # None => /\ cells[s][1] \in stored
                            /\ \A c \in 1..Size[cells[s][1]] : cells[s][c] = cells[s][1]
  BY Zenon DEF C!IInv, C!Whole
<1> QED
  BY <1>1, Zenon DEF C!Parse

\* It is handed on.
LEMMA LoadBlobStep ==
  ASSUME C!CacheAssumption, C!IInv, C!LoadBlob
  PROVE  C!IInv'
<1>1. /\ UNCHANGED <<length, cells, up, storeIndex, once, loading, saver, block, slot, scanned>>
      /\ UNCHANGED <<loadSlot, stored, owner, touched>>
      /\ loaded' = loaded \cup ({C!Parse(loadSlot, blobLength)} \ {None})
  BY Zenon DEF C!LoadBlob
<1>2. C!LoadedWereStored'
  <2>1. loadSlot \in C!Slots /\ loaded \subseteq stored
    BY Zenon DEF C!IInv, C!TypeOK, C!LoadedWereStored
  <2>2. C!Parse(loadSlot, blobLength) # None => C!Parse(loadSlot, blobLength) \in stored
    BY <2>1, ParseFacts, Zenon
  <2> QED
    BY <1>1, <2>1, <2>2, Zenon DEF C!LoadedWereStored
<1>3. C!TypeOK' /\ C!Writing'
  BY <1>1, Zenon DEF C!IInv, C!TypeOK, C!Writing, C!Slots
<1>4. C!Whole' /\ C!Owned'
  BY <1>1, Zenon DEF C!IInv, C!Whole, C!Owned
<1>5. C!Scanned'
  BY <1>1, Zenon DEF C!IInv, C!Scanned, C!Reached
<1> QED
  BY <1>2, <1>3, <1>4, <1>5, Zenon DEF C!IInv

\* A crash stops the goroutines and leaves the file.
LEMMA CrashStep ==
  ASSUME C!CacheAssumption, C!IInv, C!Crash
  PROVE  C!IInv'
<1>1. /\ UNCHANGED <<length, cells, storeIndex, once, loading, block, slot, stored, owner, touched>>
      /\ UNCHANGED <<scanned, loadSlot, loaded>> /\ up' = FALSE
      /\ saver' = [p \in Savers |-> "idle"]
  BY Zenon DEF C!Crash, C!loader
<1>2. C!TypeOK' /\ C!Writing'
  BY <1>1, Zenon DEF C!IInv, C!TypeOK, C!Writing, C!Slots
<1>3. C!Whole' /\ C!Owned' /\ C!LoadedWereStored'
  BY <1>1, Zenon DEF C!IInv, C!Whole, C!Owned, C!LoadedWereStored
<1>4. C!Scanned'
  BY <1>1, Zenon DEF C!IInv, C!Scanned
<1> QED
  BY <1>2, <1>3, <1>4, Zenon DEF C!IInv

\* The quotient and the remainder of a number are the only ones.
LEMMA UniqueRemainder ==
  ASSUME NEW d \in Nat \ {0}, NEW q \in Nat, NEW r \in 0..(d - 1), NEW i \in Nat, i = d * q + r
  PROVE  i % d = r
<1>1. PICK k \in Nat : i = d * k + (i % d)
  BY i \div d \in Nat, i = d * (i \div d) + (i % d), Zenon
<1>2. i % d \in 0..(d - 1)
  OBVIOUS
<1>3. d * (q + 1) = d * q + d /\ d * (k + 1) = d * k + d
  BY <1>1
<1>4. CASE k > q
  <2>1. d * k >= d * (q + 1)
    BY <1>1, <1>4
  <2> QED
    BY <1>1, <1>2, <1>3, <2>1
<1>5. CASE q > k
  <2>1. d * q >= d * (k + 1)
    BY <1>1, <1>5
  <2> QED
    BY <1>1, <1>2, <1>3, <2>1
<1>6. CASE k = q
  BY <1>1, <1>2, <1>6
<1> QED
  BY <1>1, <1>4, <1>5, <1>6

\* As many numbers in a row as there are slots lead to every slot.
LEMMA RowReachesAll ==
  ASSUME NEW d \in Nat \ {0}, NEW x \in Nat, d <= x, NEW s \in 0..(d - 1)
  PROVE  \E i \in (x - d + 1)..x : i % d = s
<1>1. PICK q \in Nat, r \in 0..(d - 1) : x - s = d * q + r
  <2> DEFINE a == x - s
  <2>1. a \in Nat
    OBVIOUS
  <2> HIDE DEF a
  <2>2. a \div d \in Nat /\ a % d \in 0..(d - 1) /\ a = d * (a \div d) + (a % d)
    BY <2>1
  <2> QED
    BY <2>2, Zenon DEF a
<1>2. PICK i : i = x - r
  BY Zenon
<1>3. i \in (x - d + 1)..x /\ i \in Nat
  BY <1>2
<1>4. i = d * q + s
  BY <1>1, <1>2
<1>5. i % d = s
  BY <1>3, <1>4, UniqueRemainder
<1> QED
  BY <1>3, <1>5, Zenon

\* The invariant of the cache file holds at every moment, for any number of slots, shares,
\* goroutines, stores and crashes (legacy.go:28-102).
THEOREM CacheInvariance ==
  ASSUME C!CacheAssumption
  PROVE  C!Spec => []C!IInv
<1>1. C!Init => C!IInv
  BY CacheInit, Zenon
<1>2. C!IInv /\ [C!Next]_(C!vars) => C!IInv'
  <2> SUFFICES ASSUME C!IInv, [C!Next]_(C!vars) PROVE C!IInv'
    BY Zenon
  <2>1. ASSUME NEW p \in Savers, C!Store(p) \/ C!TakeSlot(p) \/ C!WriteLength(p) \/ C!WriteBlob(p)
        PROVE  C!IInv'
    BY <2>1, StoreStep, TakeSlotStep, WriteLengthStep, WriteBlobStep, Zenon
  <2>2. ASSUME NEW p \in Savers, NEW b \in Blocks, C!SaveBlock(p, b) PROVE C!IInv'
    BY <2>2, SaveBlockStep, Zenon
  <2>3. CASE C!NewCache \/ C!LoadAll \/ C!LoadLength \/ C!LoadBlob \/ C!LoadEnds \/ C!Crash
    BY <2>3, NewCacheStep, LoaderStep, LoadLengthStep, LoadBlobStep, CrashStep, Zenon
  <2>4. CASE UNCHANGED C!vars
    <3>1. /\ UNCHANGED <<length, cells, up, storeIndex, once, loading, saver, block, slot, scanned>>
          /\ UNCHANGED <<loadSlot, loaded, stored, owner, touched>>
      BY <2>4, Zenon DEF C!vars
    <3>2. C!TypeOK' /\ C!Writing' /\ C!Whole' /\ C!Owned' /\ C!LoadedWereStored'
      BY <3>1, Zenon DEF C!IInv, C!TypeOK, C!Writing, C!Whole, C!Owned, C!LoadedWereStored, C!Slots
    <3>3. C!Scanned'
      BY <3>1, Zenon DEF C!IInv, C!Scanned, C!Reached
    <3> QED
      BY <3>2, <3>3, Zenon DEF C!IInv
  <2> QED
    BY <2>1, <2>2, <2>3, <2>4, Zenon DEF C!Next
<1> QED
  BY <1>1, <1>2, PTL DEF C!Spec

\* LoadAll hands on only shares that were stored, wherever a crash came between the writes of
\* the length and of the bytes and however goroutines met in a slot (legacy.go:60-62, 79-99).
THEOREM LoadsWhatWasStored ==
  ASSUME C!CacheAssumption
  PROVE  C!Spec => []C!LoadedWereStored
<1>1. C!IInv => C!LoadedWereStored
  BY Zenon DEF C!IInv
<1> QED
  BY <1>1, CacheInvariance, PTL

\* A share whose Store nobody disturbed is found by every later LoadAll, after any number of
\* crashes, until its slot is taken again (legacy.go:60-62).
THEOREM StoresSurvive ==
  ASSUME C!CacheAssumption
  PROVE  C!Spec => []C!StoredIsLoadable
<1>1. C!IInv => C!StoredIsLoadable
  <2> SUFFICES ASSUME C!IInv, NEW s \in C!Slots, owner[s] # None
               PROVE  C!Parse(s, length[s]) = owner[s]
    BY Zenon DEF C!StoredIsLoadable
  <2>1. cells[s][1] = owner[s] /\ length[s] = Size[owner[s]] /\ length[s] \in Nat
    BY Zenon DEF C!IInv, C!Owned, C!TypeOK
  <2>2. \A c \in 1..Size[owner[s]] : cells[s][c] = owner[s]
    BY <2>1, Zenon DEF C!IInv, C!Whole
  <2>3. ~ (length[s] < Size[owner[s]])
    BY <2>1
  <2> QED
    BY <2>1, <2>2, <2>3, Zenon DEF C!Parse
<1> QED
  BY <1>1, CacheInvariance, PTL

\* When LoadAll has ended it has read every slot that no Store of this process took, although
\* the goroutines that store advance the same index, also those that asked before it began
\* whether it was running (legacy.go:50, 60, 77).
THEOREM LoadReadsEverySlot ==
  ASSUME C!CacheAssumption
  PROVE  C!Spec => []C!EverySlotIsRead
<1>1. C!IInv => C!EverySlotIsRead
  <2> SUFFICES ASSUME C!IInv, up, once, ~loading, NEW s \in C!Slots
               PROVE  C!Reached(s)
    BY Zenon DEF C!EverySlotIsRead
  <2>1. scanned = NumBlocks /\ scanned <= storeIndex /\ storeIndex \in Nat
    BY Zenon DEF C!IInv, C!Scanned, C!TypeOK
  <2>2. \A i \in (storeIndex - NumBlocks + 1)..storeIndex : C!Reached(i % NumBlocks)
    BY <2>1, Zenon DEF C!IInv, C!Scanned
  <2>3. PICK i \in (storeIndex - NumBlocks + 1)..storeIndex : i % NumBlocks = s
    BY <2>1, CacheFacts, RowReachesAll, Zenon DEF C!Slots
  <2> QED
    BY <2>2, <2>3, Zenon
<1> QED
  BY <1>1, CacheInvariance, PTL
====
