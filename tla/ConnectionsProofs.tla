-------------------------- MODULE ConnectionsProofs --------------------------
(***************************************************************************)
(* Three facts about the connections of a server, for every set of         *)
(* addresses and all limits: the accept loop exceeds its limit by one at   *)
(* most; as long as the peers of monerod are not scanned, no address is    *)
(* dialled twice at the same time; and the atomic counters agree with the  *)
(* list of clients.  The last one needs what a sum over a finite set       *)
(* amounts to, which comes first.                                          *)
(***************************************************************************)
EXTENDS Connections, FiniteSetsExt, FiniteSetTheorems, WellFoundedInduction, TLAPS

-----------------------------------------------------------------------------
(* MapThenSumSet of the community modules does not depend on the order in  *)
(* which the elements are picked, grows by the value of an element that is *)
(* added, and depends on nothing but the values in the set.                *)

SumOf(f, S) == MapThenSumSet(LAMBDA x : f[x], S)

Pick(s) == CHOOSE x \in s : TRUE

IsAdder(g, f, S) ==
    g = [s \in SUBSET S |-> IF s = {} THEN 0 ELSE f[Pick(s)] + g[s \ {Pick(s)}]]

\* The function g adds the values of f up, picking one element after the other.
Adds(g, f, S) ==
    \A s \in SUBSET S : g[s] = IF s = {} THEN 0 ELSE f[Pick(s)] + g[s \ {Pick(s)}]

\* A set of natural numbers has a least element.
LEMMA LeastNumber ==
  ASSUME NEW T, T \subseteq Nat, T # {}
  PROVE  \E x \in T : \A y \in T : x <= y
<1> DEFINE less == {p \in Nat \X Nat : p[1] < p[2]}
<1>1. IsWellFoundedOn(less, Nat)
  BY NatLessThanWellFounded, Zenon DEF OpToRel
<1> HIDE DEF less
<1>2. PICK x \in T : \A y \in T : ~ (<<y, x>> \in less)
  BY <1>1, WFMin, Zenon
<1>3. \A y \in T : ~ (y < x)
  BY <1>2 DEF less
<1> QED
  BY <1>3

\* A family of subsets of a finite set has a member none of whose one-point removals is in it.
LEMMA SmallestSet ==
  ASSUME NEW S, IsFiniteSet(S), NEW F, F \subseteq SUBSET S, F # {}
  PROVE  \E s \in F : \A a \in s : s \ {a} \notin F
<1> DEFINE T == {n \in Nat : \E s \in F : Cardinality(s) = n}
<1>1. \A s \in F : IsFiniteSet(s) /\ Cardinality(s) \in Nat
  BY FS_Subset, FS_CardinalityType
<1>2. PICK n \in T : \A m \in T : n <= m
  <2>1. T # {} /\ T \subseteq Nat
    BY <1>1
  <2> QED
    BY <2>1, LeastNumber
<1>3. PICK s \in F : Cardinality(s) = n
  BY <1>2
<1>4. ASSUME NEW a \in s, s \ {a} \in F PROVE FALSE
  <2>1. Cardinality(s \ {a}) = n - 1
    BY <1>1, <1>3, FS_RemoveElement
  <2>2. Cardinality(s \ {a}) \in T
    BY <1>1, <1>4
  <2>3. n \in Nat /\ n <= Cardinality(s \ {a})
    BY <1>2, <2>2
  <2> QED
    BY <2>1, <2>3
<1> QED
  BY <1>3, <1>4

\* An element is picked from a set that is not empty.
LEMMA PickIn ==
  ASSUME NEW s, s # {}
  PROVE  Pick(s) \in s
BY Zenon DEF Pick

\* There is a function that adds up: it is extended from the sets of up to n elements to those
\* with one more.
LEMMA AdderExists ==
  ASSUME NEW S, IsFiniteSet(S), NEW f
  PROVE  \E g : IsAdder(g, f, S)
<1> DEFINE D(n) == {s \in SUBSET S : Cardinality(s) <= n}
           Works(g, n) ==
             g = [s \in D(n) |-> IF s = {} THEN 0 ELSE f[Pick(s)] + g[s \ {Pick(s)}]]
           T == {n \in Nat : ~ \E g : Works(g, n)}
<1>1. \A s \in SUBSET S : IsFiniteSet(s) /\ Cardinality(s) \in Nat /\ (Cardinality(s) = 0 <=> s = {})
  BY FS_Subset, FS_CardinalityType, FS_EmptySet
<1>2. \A s \in SUBSET S : s # {} =>
        s \ {Pick(s)} \in SUBSET S /\ Cardinality(s \ {Pick(s)}) = Cardinality(s) - 1
  BY <1>1, PickIn, FS_RemoveElement
<1>3. T = {}
  <2> SUFFICES ASSUME T # {} PROVE FALSE
    OBVIOUS
  <2>1. PICK n \in T : \A m \in T : n <= m
    BY LeastNumber
  <2>2. n \in Nat /\ ~ \E g : Works(g, n)
    BY <2>1
  <2>3. CASE n = 0
    <3> DEFINE h == [s \in D(0) |-> 0]
    <3>1. \A s \in D(0) : s = {}
      BY <1>1
    <3>2. Works(h, 0)
      BY <3>1
    <3> QED
      BY <2>2, <2>3, <3>2
  <2>4. CASE n # 0
    <3>1. n - 1 \in Nat /\ n - 1 \notin T
      <4> HIDE DEF T
      <4> QED
        BY <2>1, <2>2, <2>4
    <3>2. PICK g : Works(g, n - 1)
      BY <3>1
    <3> DEFINE h == [s \in D(n) |-> IF s = {} THEN 0 ELSE f[Pick(s)] + g[s \ {Pick(s)}]]
    <3>3. \A s \in D(n - 1) : s \in D(n)
      BY <1>1, <2>2, <3>1
    <3>4. \A s \in D(n - 1) : h[s] = g[s]
      BY <3>2, <3>3
    <3>5. \A s \in D(n) : s # {} => s \ {Pick(s)} \in D(n - 1)
      BY <1>1, <1>2, <2>2, <3>1
    <3>6. Works(h, n)
      <4> HIDE DEF D
      <4>1. \A s \in D(n) : s # {} => h[s \ {Pick(s)}] = g[s \ {Pick(s)}]
        BY <3>4, <3>5
      <4> QED
        BY <4>1
    <3> QED
      BY <2>2, <3>6
  <2> QED
    BY <2>3, <2>4
<1>4. D(Cardinality(S)) = SUBSET S
  BY FS_Subset
<1>5. Cardinality(S) \in Nat
  BY FS_CardinalityType
<1>6. PICK g : Works(g, Cardinality(S))
  BY <1>3, <1>5
<1> QED
  BY <1>4, <1>6 DEF IsAdder

\* The sum is what such a function says.
LEMMA SumIsAdder ==
  ASSUME NEW S, IsFiniteSet(S), NEW f
  PROVE  \E g : Adds(g, f, S) /\ SumOf(f, S) = g[S]
<1> DEFINE iter == CHOOSE g : IsAdder(g, f, S)
<1>1. IsAdder(iter, f, S)
  BY AdderExists, Zenon
<1>2. SumOf(f, S) = iter[S]
  BY DEF SumOf, MapThenSumSet, MapThenFoldSet, Pick, IsAdder
<1> HIDE DEF iter
<1>3. Adds(iter, f, S)
  BY <1>1 DEF Adds, IsAdder
<1> QED
  BY <1>2, <1>3

\* What is added up is a number.
LEMMA AddsType ==
  ASSUME NEW S, IsFiniteSet(S), NEW f, NEW g, Adds(g, f, S), \A x \in S : f[x] \in Int
  PROVE  \A s \in SUBSET S : g[s] \in Int
<1> DEFINE F == {s \in SUBSET S : g[s] \notin Int}
<1> SUFFICES ASSUME F # {} PROVE FALSE
  OBVIOUS
<1>1. PICK s \in F : \A a \in s : s \ {a} \notin F
  BY SmallestSet
<1>2. s \in SUBSET S /\ g[s] \notin Int /\ \A a \in s : g[s \ {a}] \in Int
  BY <1>1
<1>3. g[s] = IF s = {} THEN 0 ELSE f[Pick(s)] + g[s \ {Pick(s)}]
  BY <1>2 DEF Adds
<1>4. CASE s = {}
  BY <1>2, <1>3, <1>4
<1>5. CASE s # {}
  <2>1. Pick(s) \in s
    BY <1>5, PickIn
  <2>2. f[Pick(s)] \in Int /\ g[s \ {Pick(s)}] \in Int
    BY <1>2, <2>1
  <2> QED
    BY <1>2, <1>3, <1>5, <2>2
<1> QED
  BY <1>4, <1>5

\* Whatever element is taken out first, the rest adds up to the same.
LEMMA AddsAny ==
  ASSUME NEW S, IsFiniteSet(S), NEW f, NEW g, Adds(g, f, S), \A x \in S : f[x] \in Int
  PROVE  \A s \in SUBSET S : \A a \in s : g[s] = f[a] + g[s \ {a}]
<1> DEFINE Good(s) == \A a \in s : g[s] = f[a] + g[s \ {a}]
           F == {s \in SUBSET S : ~ Good(s)}
<1> SUFFICES ASSUME F # {} PROVE FALSE
  OBVIOUS
<1>1. PICK s \in F : \A a \in s : s \ {a} \notin F
  BY SmallestSet
<1>2. s \in SUBSET S /\ ~ Good(s) /\ \A a \in s : Good(s \ {a})
  BY <1>1
<1>3. PICK a \in s : g[s] # f[a] + g[s \ {a}]
  BY <1>2
<1> DEFINE x == Pick(s)
           r == (s \ {x}) \ {a}
<1>4. x \in s /\ g[s] = f[x] + g[s \ {x}]
  <2>1. s # {}
    BY <1>3
  <2> QED
    BY <1>2, <2>1, PickIn DEF Adds
<1> HIDE DEF x
<1>5. a \in s \ {x} /\ x \in s \ {a} /\ r = (s \ {a}) \ {x}
  BY <1>3, <1>4
<1>6. g[s \ {x}] = f[a] + g[r]
  <2>1. Good(s \ {x})
    BY <1>2, <1>4
  <2> QED
    BY <1>5, <2>1
<1>7. g[s \ {a}] = f[x] + g[r]
  <2>1. Good(s \ {a})
    BY <1>2, <1>3
  <2> QED
    BY <1>5, <2>1
<1>8. f[a] \in Int /\ f[x] \in Int /\ g[r] \in Int
  <2>1. r \in SUBSET S
    BY <1>2
  <2> QED
    BY <1>2, <1>3, <1>4, <2>1, AddsType
<1> HIDE DEF r
<1> QED
  BY <1>3, <1>4, <1>6, <1>7, <1>8

\* What is added up depends on nothing but the values.
LEMMA AddsAgree ==
  ASSUME NEW S, IsFiniteSet(S), NEW f, NEW g, Adds(g, f, S),
         NEW R, IsFiniteSet(R), NEW e, NEW h, Adds(h, e, R),
         NEW T \in SUBSET (S \cap R), \A x \in T : f[x] = e[x]
  PROVE  g[T] = h[T]
<1> DEFINE F == {s \in SUBSET T : g[s] # h[s]}
<1> SUFFICES ASSUME F # {} PROVE FALSE
  OBVIOUS
<1>1. PICK s \in F : \A a \in s : s \ {a} \notin F
  <2>1. IsFiniteSet(T)
    BY FS_Subset
  <2> QED
    BY <2>1, SmallestSet
<1>2. s \in SUBSET T /\ g[s] # h[s] /\ \A a \in s : g[s \ {a}] = h[s \ {a}]
  BY <1>1
<1>3. /\ g[s] = IF s = {} THEN 0 ELSE f[Pick(s)] + g[s \ {Pick(s)}]
      /\ h[s] = IF s = {} THEN 0 ELSE e[Pick(s)] + h[s \ {Pick(s)}]
  BY <1>2 DEF Adds
<1>4. s # {} => Pick(s) \in s
  BY PickIn
<1> QED
  BY <1>2, <1>3, <1>4

\* The empty sum, its type, and what it depends on.
LEMMA SumEmpty == ASSUME NEW f PROVE SumOf(f, {}) = 0
<1>1. PICK g : Adds(g, f, {}) /\ SumOf(f, {}) = g[{}]
  BY SumIsAdder, FS_EmptySet
<1> QED
  BY <1>1 DEF Adds

LEMMA SumType ==
  ASSUME NEW S, IsFiniteSet(S), NEW f, \A x \in S : f[x] \in Int
  PROVE  SumOf(f, S) \in Int
<1>1. PICK g : Adds(g, f, S) /\ SumOf(f, S) = g[S]
  BY SumIsAdder
<1> QED
  BY <1>1, AddsType

LEMMA SumSame ==
  ASSUME NEW S, IsFiniteSet(S), NEW f, NEW e, \A x \in S : f[x] = e[x]
  PROVE  SumOf(f, S) = SumOf(e, S)
<1>1. PICK g : Adds(g, f, S) /\ SumOf(f, S) = g[S]
  BY SumIsAdder
<1>2. PICK h : Adds(h, e, S) /\ SumOf(e, S) = h[S]
  BY SumIsAdder
<1>3. S \in SUBSET (S \cap S)
  OBVIOUS
<1> QED
  BY <1>1, <1>2, <1>3, AddsAgree

\* An element adds its value.
LEMMA SumWithout ==
  ASSUME NEW S, IsFiniteSet(S), NEW f, \A x \in S : f[x] \in Int, NEW a \in S
  PROVE  SumOf(f, S) = f[a] + SumOf(f, S \ {a})
<1>1. PICK g : Adds(g, f, S) /\ SumOf(f, S) = g[S]
  BY SumIsAdder
<1>2. IsFiniteSet(S \ {a})
  BY FS_RemoveElement
<1>3. PICK h : Adds(h, f, S \ {a}) /\ SumOf(f, S \ {a}) = h[S \ {a}]
  BY <1>2, SumIsAdder
<1>4. g[S] = f[a] + g[S \ {a}]
  BY <1>1, AddsAny
<1>5. S \ {a} \in SUBSET (S \cap (S \ {a}))
  OBVIOUS
<1>6. g[S \ {a}] = h[S \ {a}]
  BY <1>1, <1>2, <1>3, <1>5, AddsAgree
<1> QED
  BY <1>1, <1>3, <1>4, <1>6

\* A changed value changes the sum by as much.
LEMMA SumChanges ==
  ASSUME NEW S, IsFiniteSet(S), NEW f \in [S -> Int], NEW e \in [S -> Int], NEW a \in S,
         \A x \in S \ {a} : e[x] = f[x]
  PROVE  SumOf(e, S) = SumOf(f, S) - f[a] + e[a]
<1>1. IsFiniteSet(S \ {a})
  BY FS_RemoveElement
<1>2. SumOf(f, S) = f[a] + SumOf(f, S \ {a})
  BY SumWithout
<1>3. SumOf(e, S) = e[a] + SumOf(e, S \ {a})
  BY SumWithout
<1>4. SumOf(e, S \ {a}) = SumOf(f, S \ {a})
  BY <1>1, SumSame
<1>5. SumOf(f, S \ {a}) \in Int /\ f[a] \in Int /\ e[a] \in Int
  BY <1>1, SumType
<1> QED
  BY <1>2, <1>3, <1>4, <1>5

-----------------------------------------------------------------------------
(* The invariants.                                                         *)

\* The counts of clients are natural numbers.
Counts ==
    /\ incoming \in [Addrs -> Nat]
    /\ outgoing \in [Addrs -> Nat]
    /\ numIncoming \in Int
    /\ accepting \in Addrs \cup {NoAddr}

\* An address that has passed the checks of the accept loop has room: only that loop adds.
Room ==
    /\ numIncoming <= MaxIncomingPeers + 1
    /\ accepting # NoAddr => numIncoming <= MaxIncomingPeers

\* The lists hold addresses.
Listing == peerList \subseteq Addrs /\ round.list \subseteq Addrs

\* A goroutine is at one place, and there is one for an address: UpdateClientConnections waits
\* for all of them before it starts others.
OneGoroutine ==
    /\ started \cup cleared \cup dials \subseteq Addrs \X {"p2pool"}
    /\ started \cap cleared = {} /\ started \cap dials = {} /\ cleared \cap dials = {}
    /\ loop # "dialing" => started = {} /\ cleared = {} /\ dials = {}
    /\ moneroPeerList = {}

\* An address that is being dialled has no outgoing client, and none has two.
Single ==
    /\ \A a \in Addrs : outgoing[a] <= 1
    /\ \A t \in dials : outgoing[t[1]] = 0

LEMMA CountsAndRoom == Spec => [](Counts /\ Room)
<1>1. Init => Counts /\ Room
  BY LimitAssumption DEF Init, Counts, Room, NoAddr
<1>2. Counts /\ Room /\ [Next]_vars => Counts' /\ Room'
  <2> SUFFICES ASSUME Counts, Room, [Next]_vars
               PROVE  Counts' /\ Room'
    OBVIOUS
  <2> USE LimitAssumption DEF Counts, Room, clients, lists, updating, other
  <2>1. ASSUME NEW a \in Addrs, CloseIncoming(a) PROVE Counts' /\ Room'
    BY <2>1 DEF CloseIncoming
  <2>2. ASSUME NEW a \in Addrs, CloseOutgoing(a) PROVE Counts' /\ Room'
    BY <2>2 DEF CloseOutgoing
  <2>3. ASSUME NEW a \in Addrs, Ban(a) PROVE Counts' /\ Room'
    <3>1. accepting' = accepting
      BY <2>3 DEF Ban
    <3>2. \/ /\ incoming' = incoming /\ outgoing' = outgoing /\ numIncoming' = numIncoming
          \/ /\ incoming' = [incoming EXCEPT ![a] = 0]
             /\ outgoing' = [outgoing EXCEPT ![a] = 0]
             /\ numIncoming' = numIncoming - incoming[a]
      BY <2>3, Zenon DEF Ban, CloseAll
    <3> QED
      BY <3>1, <3>2
  <2>4. ASSUME NEW a \in Addrs, BanExpires(a) \/ AddToPeerList(a) \/ UpdateInPeerList(a) \/ Ages(a)
        PROVE Counts' /\ Room'
    BY <2>4 DEF BanExpires, AddToPeerList, UpdateInPeerList, Ages
  <2>5. ASSUME NEW a \in Addrs, AcceptCheck(a) PROVE Counts' /\ Room'
    BY <2>5 DEF AcceptCheck, IncomingLimitReached
  <2>6. CASE AcceptAppend
    BY <2>6 DEF AcceptAppend, NoAddr
  <2>7. ASSUME NEW t \in Tasks, DialLimit(t) PROVE Counts' /\ Room'
    BY <2>7 DEF DialLimit
  <2>8. ASSUME NEW t \in Tasks, DirectConnect(t) PROVE Counts' /\ Room'
    BY <2>8 DEF DirectConnect
  <2>9. ASSUME NEW t \in Tasks, DialSucceeds(t) PROVE Counts' /\ Room'
    BY <2>9 DEF DialSucceeds, Tasks
  <2>10. ASSUME NEW t \in Tasks, DialFails(t) PROVE Counts' /\ Room'
    BY <2>10 DEF DialFails
  <2>11. CASE CleanupBanList \/ UNCHANGED vars
    BY <2>11 DEF CleanupBanList, vars
  <2>12. CASE CopyPeerList \/ WritePeerList \/ StartDials
    BY <2>12 DEF CopyPeerList, WritePeerList, StartDials
  <2>13. CASE UpdateReturns \/ MonerodAnswers
    BY <2>13 DEF UpdateReturns, MonerodAnswers, Returns
  <2> QED
    BY <2>1, <2>2, <2>3, <2>4, <2>5, <2>6, <2>7, <2>8, <2>9, <2>10, <2>11, <2>12, <2>13 DEF Next
<1> QED
  BY <1>1, <1>2, PTL DEF Spec

\* The accept loop compares the counter with its limit and adds the client later
\* (server.go:549, 581-591), while clients close and are banned: however this interleaves, there
\* is never more than one incoming connection above the limit.
THEOREM IncomingIsBounded == Spec => []IncomingOvershootsByOne
<1>1. Counts /\ Room => IncomingOvershootsByOne
  BY DEF Room, IncomingOvershootsByOne
<1> QED
  BY <1>1, CountsAndRoom, PTL

\* StartDials picks from the list it copied, and nothing else.
LEMMA StartsFromList ==
    ASSUME moneroPeerList = {}, StartDials
    PROVE  started' \subseteq round.list \X {"p2pool"} /\ moneroPeerList' = {}
BY Zenon DEF StartDials, kSubset

LEMMA DialsAreSingle ==
    ASSUME MoneroPeers = {}
    PROVE  Spec => [](Listing /\ OneGoroutine /\ Single)
<1> DEFINE Inv == Listing /\ OneGoroutine /\ Single
<1>1. Init => Inv
  BY PeersAssumption DEF Init, NoRound, Listing, OneGoroutine, Single
<1>2. Counts /\ Inv /\ [Next]_vars => Inv'
  <2> SUFFICES ASSUME Counts, Inv, [Next]_vars
               PROVE  Inv'
    OBVIOUS
  <2> USE DEF Counts, Listing, OneGoroutine, Single, clients, lists, updating, other
  <2>1. ASSUME NEW a \in Addrs, CloseIncoming(a) \/ AcceptCheck(a) \/ BanExpires(a) \/ Ages(a) PROVE Inv'
    BY <2>1 DEF CloseIncoming, AcceptCheck, BanExpires, Ages
  <2>2. ASSUME NEW a \in Addrs, CloseOutgoing(a) PROVE Inv'
    BY <2>2 DEF CloseOutgoing
  <2>3. ASSUME NEW a \in Addrs, Ban(a) PROVE Inv'
    <3>1. peerList' \subseteq peerList /\ UNCHANGED <<updating, moneroPeerList>>
      BY <2>3 DEF Ban
    <3>2. outgoing' = outgoing \/ outgoing' = [outgoing EXCEPT ![a] = 0]
      BY <2>3, Zenon DEF Ban, CloseAll
    <3> QED
      BY <3>1, <3>2
  <2>4. ASSUME NEW a \in Addrs, AddToPeerList(a) \/ UpdateInPeerList(a) PROVE Inv'
    BY <2>4 DEF AddToPeerList, UpdateInPeerList, Listed
  <2>5. CASE AcceptAppend \/ CleanupBanList \/ UNCHANGED vars
    BY <2>5 DEF AcceptAppend, CleanupBanList, vars
  <2>6. ASSUME NEW t \in Tasks, DialLimit(t) PROVE Inv'
    BY <2>6 DEF DialLimit
  <2>7. ASSUME NEW t \in Tasks, DirectConnect(t) PROVE Inv'
    BY <2>7 DEF DirectConnect, Connected, Tasks
  <2>8. ASSUME NEW t \in Tasks, DialSucceeds(t) PROVE Inv'
    BY <2>8 DEF DialSucceeds, Tasks
  <2>9. ASSUME NEW t \in Tasks, DialFails(t) PROVE Inv'
    BY <2>9 DEF DialFails
  <2>10. CASE CopyPeerList
    BY <2>10 DEF CopyPeerList
  <2>11. CASE WritePeerList
    BY <2>11 DEF WritePeerList
  <2>12. CASE StartDials
    <3>1. UNCHANGED <<clients, lists, cleared, dials, other>> /\ loop = "written" /\ loop' = "dialing"
      BY <2>12 DEF StartDials
    <3>2. round'.list = {}
      BY <2>12 DEF StartDials, NoRound
    <3> QED
      BY <2>12, <3>1, <3>2, StartsFromList
  <2>13. CASE UpdateReturns
    BY <2>13 DEF UpdateReturns, Returns, NoRound, AllDone
  <2>14. CASE MonerodAnswers
    BY <2>14 DEF MonerodAnswers, Returns, NoRound, AllDone
  <2> QED
    BY <2>1, <2>2, <2>3, <2>4, <2>5, <2>6, <2>7, <2>8, <2>9, <2>10, <2>11, <2>12, <2>13, <2>14 DEF Next
<1> QED
  BY <1>1, <1>2, CountsAndRoom, PTL DEF Spec

\* As long as monerod is not asked for peers, no address is dialled, or connected to, twice at
\* the same time, although the ring of pending addresses forgets: UpdateClientConnections waits
\* for its goroutines (server.go:403) and skips the addresses that were connected (382-384).
THEOREM OneDialWithoutScan ==
    ASSUME MoneroPeers = {}
    PROVE  Spec => []OneDialPerAddress
<1>1. Counts /\ OneGoroutine /\ Single => OneDialPerAddress
  <2> SUFFICES ASSUME Counts, OneGoroutine, Single, NEW a \in Addrs
               PROVE  outgoing[a] + Cardinality({t \in dials : t[1] = a}) <= 1
    BY DEF OneDialPerAddress
  <2> DEFINE D == {t \in dials : t[1] = a}
  <2>1. D = {} \/ (D = {<<a, "p2pool">>} /\ outgoing[a] = 0)
    <3>1. ASSUME NEW t \in D PROVE t = <<a, "p2pool">> /\ outgoing[a] = 0
      <4>1. t \in Addrs \X {"p2pool"} /\ t[1] = a
        BY DEF OneGoroutine
      <4>2. t = <<t[1], t[2]>> /\ t[2] = "p2pool"
        BY <4>1
      <4> QED
        BY <4>1, <4>2 DEF Single
    <3> HIDE DEF D
    <3>2. D \subseteq {<<a, "p2pool">>}
      BY <3>1
    <3> QED
      BY <3>1, <3>2
  <2>2. outgoing[a] \in Nat /\ outgoing[a] <= 1
    BY DEF Counts, Single
  <2>3. Cardinality({}) = 0 /\ Cardinality({<<a, "p2pool">>}) = 1
    BY FS_EmptySet, FS_Singleton
  <2> HIDE DEF D
  <2>4. outgoing[a] + Cardinality(D) <= 1
    <3>1. Cardinality(D) = 0 \/ (Cardinality(D) = 1 /\ outgoing[a] = 0)
      BY <2>1, <2>3, Zenon
    <3> QED
      BY <2>2, <3>1
  <2> QED
    BY <2>4 DEF D
<1> QED
  BY <1>1, CountsAndRoom, DialsAreSingle, PTL

-----------------------------------------------------------------------------
(* The counters, for any set of peers of monerod.                          *)

\* A goroutine is at one place, and none is left when UpdateClientConnections returns.
Goroutines ==
    /\ started \cap cleared = {} /\ started \cap dials = {} /\ cleared \cap dials = {}
    /\ loop # "dialing" => started = {} /\ cleared = {} /\ dials = {}

\* The copy that is written back has no address that failed too often: nothing is dialled
\* between the copy and the write.
CopyIsFresh == loop = "copied" => \A a \in round.list : failed[a] < MaxFailed

\* The inductive invariant of the connections.
ConnectionsInv == TypeOK /\ Goroutines /\ CountersExact /\ FailedAreForgotten /\ CopyIsFresh

\* The counts of one address change the total by as much.
LEMMA TotalChanges ==
  ASSUME NEW f \in [Addrs -> Nat], NEW e \in [Addrs -> Nat], NEW a \in Addrs,
         \A x \in Addrs \ {a} : e[x] = f[x]
  PROVE  Total(e) = Total(f) - f[a] + e[a] /\ Total(f) \in Int
<1>1. f \in [Addrs -> Int] /\ e \in [Addrs -> Int]
  OBVIOUS
<1>2. Total(e) = SumOf(e, Addrs) /\ Total(f) = SumOf(f, Addrs)
  BY DEF Total, SumOf
<1>3. SumOf(e, Addrs) = SumOf(f, Addrs) - f[a] + e[a]
  BY <1>1, AddrsAssumption, SumChanges
<1>4. SumOf(f, Addrs) \in Int
  BY <1>1, AddrsAssumption, SumType
<1> QED
  BY <1>2, <1>3, <1>4

LEMMA TotalType ==
  ASSUME NEW f \in [Addrs -> Nat]
  PROVE  Total(f) \in Int
<1>1. Total(f) = SumOf(f, Addrs)
  BY DEF Total, SumOf
<1> QED
  BY <1>1, AddrsAssumption, SumType

\* Without clients the total is zero.
LEMMA TotalZero == Total([a \in Addrs |-> 0]) = 0
<1> DEFINE z == [a \in Addrs |-> 0]
           F == {s \in SUBSET Addrs : SumOf(z, s) # 0}
<1>1. \A s \in SUBSET Addrs : IsFiniteSet(s) /\ \A a \in s : z[a] = 0
  BY AddrsAssumption, FS_Subset
<1>2. F = {}
  <2> SUFFICES ASSUME F # {} PROVE FALSE
    OBVIOUS
  <2>1. PICK s \in F : \A a \in s : s \ {a} \notin F
    BY AddrsAssumption, SmallestSet
  <2>2. s \in SUBSET Addrs /\ SumOf(z, s) # 0 /\ \A a \in s : SumOf(z, s \ {a}) = 0
    BY <2>1
  <2>3. s # {}
    BY <2>2, SumEmpty
  <2>4. PICK a \in s : TRUE
    BY <2>3
  <2> HIDE DEF z
  <2>5. SumOf(z, s) = z[a] + SumOf(z, s \ {a})
    <3>1. IsFiniteSet(s) /\ \A x \in s : z[x] \in Int
      BY <1>1, <2>2
    <3> QED
      BY <2>4, <3>1, SumWithout
  <2>6. z[a] = 0 /\ SumOf(z, s \ {a}) = 0
    BY <1>1, <2>2, <2>4
  <2> QED
    BY <2>2, <2>5, <2>6
<1>3. Total(z) = SumOf(z, Addrs)
  BY DEF Total, SumOf
<1> QED
  BY <1>2, <1>3

\* Goroutines are finitely many.
LEMMA DialsCount ==
  ASSUME NEW S, S \subseteq Tasks
  PROVE  /\ IsFiniteSet(S) /\ Cardinality(S) \in Nat
         /\ \A t : t \notin S => Cardinality(S \cup {t}) = Cardinality(S) + 1
         /\ \A t \in S : Cardinality(S \ {t}) = Cardinality(S) - 1
<1>1. IsFiniteSet(Tasks)
  <2>1. IsFiniteSet({"p2pool", "monerod"})
    <3>1. IsFiniteSet({"p2pool"} \cup {"monerod"})
      BY FS_Singleton, FS_AddElement
    <3>2. {"p2pool"} \cup {"monerod"} = {"p2pool", "monerod"}
      OBVIOUS
    <3> QED
      BY <3>1, <3>2
  <2> QED
    BY <2>1, AddrsAssumption, FS_Product DEF Tasks
<1>2. IsFiniteSet(S)
  BY <1>1, FS_Subset
<1> QED
  BY <1>2, FS_CardinalityType, FS_AddElement, FS_RemoveElement

\* StartDials picks from the lists.
LEMMA StartsFromLists ==
  ASSUME TypeOK, StartDials
  PROVE  started' \subseteq Tasks /\ moneroPeerList' \subseteq Addrs
<1> DEFINE scan == ~round.good /\ moneroPeerList # {}
           list == (round.list \X {"p2pool"})
                      \cup (IF scan THEN moneroPeerList \X {"monerod"} ELSE {})
<1>1. started' \subseteq list
  BY Zenon DEF StartDials, kSubset
<1>2. moneroPeerList' = IF scan THEN {} ELSE moneroPeerList
  BY DEF StartDials
<1>3. round.list \subseteq Addrs /\ moneroPeerList \subseteq Addrs
  BY DEF TypeOK
<1>4. list \subseteq Tasks
  BY <1>3 DEF Tasks
<1> QED
  BY <1>1, <1>2, <1>3, <1>4

\* A ban takes the clients of one address, or nothing.
LEMMA BanCloses ==
  ASSUME NEW a \in Addrs, Ban(a)
  PROVE  \/ UNCHANGED <<incoming, outgoing, numIncoming, numOutgoing, pending, bans>>
         \/ /\ incoming' = [incoming EXCEPT ![a] = 0]
            /\ outgoing' = [outgoing EXCEPT ![a] = 0]
            /\ numIncoming' = numIncoming - incoming[a]
            /\ numOutgoing' = numOutgoing - outgoing[a]
            /\ pending' = Cleared({a}) \/ pending' = pending
            /\ bans' = [bans EXCEPT ![a] = "active"]
BY Zenon DEF Ban, CloseAll, clients

\* The ring stays a ring.
LEMMA RingType ==
  ASSUME TypeOK, NEW a \in Addrs
  PROVE  Cleared({a}) \in Rings /\ Pushed(a) \in Rings
<1> DEFINE next == (pending.index + 1) % MaxOutgoingPeers
<1>1. next \in 0 .. MaxOutgoingPeers - 1
  BY LimitAssumption DEF TypeOK, Rings
<1>2. Pushed(a) = [buffer |-> [pending.buffer EXCEPT ![next] = a], index |-> next]
  BY DEF Pushed
<1> HIDE DEF next
<1>3. Pushed(a) \in Rings
  BY <1>1, <1>2 DEF TypeOK, Rings
<1>4. Cleared({a}) \in Rings
  BY DEF TypeOK, Cleared, Rings
<1> QED
  BY <1>3, <1>4

LEMMA TypeStep == TypeOK /\ [Next]_vars => TypeOK'
<1> SUFFICES ASSUME TypeOK, [Next]_vars
             PROVE  TypeOK'
  OBVIOUS
<1> USE DEF clients, lists, updating, other
<1>0. pending \in Rings
  BY DEF TypeOK
<1>1. ASSUME NEW a \in Addrs, CloseIncoming(a) PROVE TypeOK'
  BY <1>1 DEF CloseIncoming, TypeOK
<1>2. ASSUME NEW a \in Addrs, CloseOutgoing(a) PROVE TypeOK'
  <2>1. pending' \in Rings
    BY <1>2, RingType DEF CloseOutgoing
  <2> QED
    BY <1>2, <2>1 DEF CloseOutgoing, TypeOK
<1>3. ASSUME NEW a \in Addrs, Ban(a) PROVE TypeOK'
  <2>1. peerList' \subseteq peerList /\ UNCHANGED <<failed, old, moneroPeerList, accepting, updating>>
    BY <1>3 DEF Ban
  <2>2. pending' = pending \/ pending' = Cleared({a})
    BY <1>3, BanCloses, Zenon
  <2>3. pending' \in Rings
    BY <1>0, <2>2, RingType
  <2>4. /\ incoming' \in [Addrs -> Nat] /\ outgoing' \in [Addrs -> Nat]
        /\ numIncoming' \in Int /\ numOutgoing' \in Int
        /\ bans' \in [Addrs -> {"none", "active", "expired"}]
    <3>1. CASE UNCHANGED <<incoming, outgoing, numIncoming, numOutgoing, pending, bans>>
      BY <3>1 DEF TypeOK
    <3>2. CASE /\ incoming' = [incoming EXCEPT ![a] = 0]
               /\ outgoing' = [outgoing EXCEPT ![a] = 0]
               /\ numIncoming' = numIncoming - incoming[a]
               /\ numOutgoing' = numOutgoing - outgoing[a]
               /\ bans' = [bans EXCEPT ![a] = "active"]
      BY <3>2 DEF TypeOK
    <3> QED
      BY <1>3, <3>1, <3>2, BanCloses
  <2> QED
    BY <2>1, <2>3, <2>4 DEF TypeOK
<1>4. ASSUME NEW a \in Addrs, BanExpires(a) \/ AcceptCheck(a) \/ Ages(a) PROVE TypeOK'
  BY <1>4 DEF BanExpires, AcceptCheck, Ages, TypeOK
<1>5. ASSUME NEW a \in Addrs, AddToPeerList(a) \/ UpdateInPeerList(a) PROVE TypeOK'
  <2>1. failed' \in [Addrs -> Nat] /\ peerList' \subseteq Addrs /\ old' \subseteq Addrs
    BY <1>5 DEF AddToPeerList, UpdateInPeerList, Listed, TypeOK
  <2>2. UNCHANGED <<clients, bans, moneroPeerList, accepting, updating>>
    BY <1>5 DEF AddToPeerList, UpdateInPeerList
  <2> QED
    BY <2>1, <2>2 DEF TypeOK
<1>6. ASSUME NEW t \in Tasks, DialLimit(t) PROVE TypeOK'
  BY <1>6 DEF DialLimit, TypeOK
<1>7. ASSUME NEW t \in Tasks, DirectConnect(t) PROVE TypeOK'
  <2>1. t[1] \in Addrs
    BY DEF Tasks
  <2>2. pending' = pending \/ pending' = Pushed(t[1])
    BY <1>7, Zenon DEF DirectConnect
  <2>3. pending' \in Rings
    BY <1>0, <2>1, <2>2, RingType
  <2> QED
    BY <1>7, <2>3 DEF DirectConnect, TypeOK
<1>8. ASSUME NEW t \in Tasks, DialSucceeds(t) PROVE TypeOK'
  BY <1>8 DEF DialSucceeds, TypeOK, Tasks
<1>9. ASSUME NEW t \in Tasks, DialFails(t) PROVE TypeOK'
  <2>1. t[1] \in Addrs
    BY DEF Tasks
  <2>2. pending' \in Rings
    BY <1>9, <2>1, RingType DEF DialFails
  <2>3. failed' \in [Addrs -> Nat] /\ peerList' \subseteq Addrs
    BY <1>9, <2>1 DEF DialFails, TypeOK
  <2> QED
    BY <1>9, <2>2, <2>3 DEF DialFails, TypeOK
<1>10. CASE CleanupBanList \/ AcceptAppend \/ UNCHANGED vars
  BY <1>10 DEF CleanupBanList, AcceptAppend, vars, TypeOK, NoAddr
<1>11. CASE CopyPeerList
  BY <1>11 DEF CopyPeerList, TypeOK
<1>12. CASE WritePeerList
  BY <1>12 DEF WritePeerList, TypeOK
<1>13. CASE StartDials
  <2>1. UNCHANGED <<clients, lists, cleared, dials, other>> /\ loop' = "dialing"
        /\ round' = [NoRound EXCEPT !.good = round.good, !.attempts = started' # {}]
    BY <1>13 DEF StartDials
  <2> QED
    BY <1>13, <2>1, StartsFromLists DEF NoRound, TypeOK
<1>14. CASE UpdateReturns \/ MonerodAnswers
  <2>1. UNCHANGED <<clients, lists, started, cleared, dials, other>> /\ loop' = "idle" /\ round' = NoRound
    BY <1>14 DEF UpdateReturns, MonerodAnswers, Returns
  <2>2. moneroPeerList' \subseteq Addrs
    BY <1>14, PeersAssumption DEF UpdateReturns, MonerodAnswers, Returns, TypeOK
  <2> QED
    BY <2>1, <2>2 DEF NoRound, TypeOK
<1> QED
  BY <1>1, <1>2, <1>3, <1>4, <1>5, <1>6, <1>7, <1>8, <1>9, <1>10, <1>11, <1>12, <1>13, <1>14 DEF Next

\* Goroutines move from one place to the next, and are all gone when the round is over.
LEMMA GoroutinesStep == TypeOK /\ Goroutines /\ [Next]_vars => Goroutines'
<1> SUFFICES ASSUME TypeOK, Goroutines, [Next]_vars
             PROVE  Goroutines'
  OBVIOUS
<1> USE DEF clients, lists, updating, other, Goroutines
<1>1. ASSUME NEW a \in Addrs,
             \/ CloseIncoming(a) \/ CloseOutgoing(a) \/ Ban(a) \/ BanExpires(a) \/ AcceptCheck(a)
             \/ AddToPeerList(a) \/ UpdateInPeerList(a) \/ Ages(a)
      PROVE  Goroutines'
  BY <1>1 DEF CloseIncoming, CloseOutgoing, Ban, BanExpires, AcceptCheck, AddToPeerList,
              UpdateInPeerList, Ages
<1>2. ASSUME NEW t \in Tasks, DialLimit(t) PROVE Goroutines'
  BY <1>2 DEF DialLimit
<1>3. ASSUME NEW t \in Tasks, DirectConnect(t) PROVE Goroutines'
  BY <1>3 DEF DirectConnect
<1>4. ASSUME NEW t \in Tasks, DialSucceeds(t) \/ DialFails(t) PROVE Goroutines'
  BY <1>4 DEF DialSucceeds, DialFails
<1>5. CASE CleanupBanList \/ AcceptAppend \/ UNCHANGED vars
  BY <1>5 DEF CleanupBanList, AcceptAppend, vars
<1>6. CASE CopyPeerList \/ WritePeerList
  BY <1>6 DEF CopyPeerList, WritePeerList
<1>7. CASE StartDials
  BY <1>7 DEF StartDials
<1>8. CASE UpdateReturns \/ MonerodAnswers
  BY <1>8 DEF UpdateReturns, MonerodAnswers, Returns, AllDone
<1> QED
  BY <1>1, <1>2, <1>3, <1>4, <1>5, <1>6, <1>7, <1>8 DEF Next

\* A failure is counted only while goroutines dial, and takes the address off the list when it
\* was one too many; a list written back was copied since.
LEMMA FailuresStep ==
    TypeOK /\ Goroutines /\ FailedAreForgotten /\ CopyIsFresh /\ [Next]_vars
        => FailedAreForgotten' /\ CopyIsFresh'
<1> SUFFICES ASSUME TypeOK, Goroutines, FailedAreForgotten, CopyIsFresh, [Next]_vars
             PROVE  FailedAreForgotten' /\ CopyIsFresh'
  OBVIOUS
<1> USE DEF clients, lists, updating, other, FailedAreForgotten, CopyIsFresh
<1>0. failed \in [Addrs -> Nat] /\ peerList \subseteq Addrs /\ round.list \subseteq Addrs
      /\ MaxFailed \in Nat /\ MaxFailed > 0
  BY LimitAssumption DEF TypeOK
<1>1. ASSUME NEW a \in Addrs,
             \/ CloseIncoming(a) \/ CloseOutgoing(a) \/ BanExpires(a) \/ AcceptCheck(a) \/ Ages(a)
      PROVE  FailedAreForgotten' /\ CopyIsFresh'
  BY <1>1 DEF CloseIncoming, CloseOutgoing, BanExpires, AcceptCheck, Ages
<1>2. ASSUME NEW a \in Addrs, Ban(a) PROVE FailedAreForgotten' /\ CopyIsFresh'
  BY <1>2 DEF Ban
<1>3. ASSUME NEW a \in Addrs, AddToPeerList(a) \/ UpdateInPeerList(a)
      PROVE  FailedAreForgotten' /\ CopyIsFresh'
  <2>1. peerList' = peerList \cup {a} /\ loop' = loop /\ round' = round
    BY <1>3 DEF AddToPeerList, UpdateInPeerList, Listed
  <2>2. PICK f \in Nat : failed' = [failed EXCEPT ![a] = f] /\ f < MaxFailed /\ f <= failed[a]
    <3>1. \/ failed' = [failed EXCEPT ![a] = 0]
          \/ failed' = [failed EXCEPT ![a] = failed[a]] /\ a \in peerList
      BY <1>3 DEF AddToPeerList, UpdateInPeerList, Listed
    <3>2. a \in peerList => failed[a] < MaxFailed
      BY <1>0
    <3> QED
      BY <1>0, <3>1, <3>2
  <2> QED
    BY <1>0, <2>1, <2>2
<1>4. ASSUME NEW t \in Tasks, DialLimit(t) \/ DirectConnect(t) \/ DialSucceeds(t)
      PROVE  FailedAreForgotten' /\ CopyIsFresh'
  BY <1>4 DEF DialLimit, DirectConnect, DialSucceeds
<1>5. ASSUME NEW t \in Tasks, DialFails(t) PROVE FailedAreForgotten' /\ CopyIsFresh'
  <2>1. t[1] \in Addrs /\ loop = "dialing" /\ loop' = loop
    BY <1>5 DEF DialFails, Goroutines, Tasks
  <2>2. \A a \in Addrs \ {t[1]} : failed'[a] = failed[a]
    BY <1>0, <1>5, <2>1 DEF DialFails
  <2>3. peerList' = IF failed'[t[1]] >= MaxFailed THEN peerList \ {t[1]} ELSE peerList
    BY <1>5 DEF DialFails
  <2> QED
    BY <2>1, <2>2, <2>3
<1>6. CASE CleanupBanList \/ AcceptAppend \/ UNCHANGED vars
  BY <1>6 DEF CleanupBanList, AcceptAppend, vars
<1>7. CASE CopyPeerList
  <2>1. UNCHANGED <<peerList, failed>> /\ round'.list \subseteq peerList
    BY <1>7 DEF CopyPeerList
  <2> QED
    BY <1>0, <2>1
<1>8. CASE WritePeerList
  BY <1>0, <1>8 DEF WritePeerList
<1>9. CASE StartDials
  BY <1>9 DEF StartDials
<1>10. CASE UpdateReturns \/ MonerodAnswers
  BY <1>10 DEF UpdateReturns, MonerodAnswers, Returns
<1> QED
  BY <1>1, <1>2, <1>3, <1>4, <1>5, <1>6, <1>7, <1>8, <1>9, <1>10 DEF Next

\* Each counter follows what it counts: a client that comes or goes, a dial that starts or fails.
LEMMA CountersStep == TypeOK /\ Goroutines /\ CountersExact /\ [Next]_vars => CountersExact'
<1> SUFFICES ASSUME TypeOK, Goroutines, CountersExact, [Next]_vars
             PROVE  CountersExact'
  OBVIOUS
<1> USE DEF clients, lists, updating, other
<1>0. /\ incoming \in [Addrs -> Nat] /\ outgoing \in [Addrs -> Nat] /\ dials \subseteq Tasks
      /\ numIncoming = Total(incoming) /\ numOutgoing = Total(outgoing) + Cardinality(dials)
      /\ Total(incoming) \in Int /\ Total(outgoing) \in Int /\ Cardinality(dials) \in Nat
  BY TotalType, DialsCount DEF TypeOK, CountersExact
<1>1. /\ incoming' \in [Addrs -> Nat] /\ outgoing' \in [Addrs -> Nat] /\ dials' \subseteq Tasks
  BY TypeStep DEF TypeOK
<1>2. ASSUME UNCHANGED <<incoming, outgoing, numIncoming, numOutgoing, dials>>
      PROVE  CountersExact'
  BY <1>0, <1>2 DEF CountersExact
<1>3. ASSUME NEW a \in Addrs, CloseIncoming(a) PROVE CountersExact'
  <2>1. /\ incoming' = [incoming EXCEPT ![a] = @ - 1] /\ numIncoming' = numIncoming - 1
        /\ UNCHANGED <<outgoing, numOutgoing, dials>>
    BY <1>3 DEF CloseIncoming
  <2>2. Total(incoming)' = Total(incoming) - 1
    <3>1. incoming'[a] = incoming[a] - 1 /\ \A x \in Addrs \ {a} : incoming'[x] = incoming[x]
      BY <1>0, <1>1, <2>1
    <3>2. Total(incoming') = Total(incoming) - incoming[a] + incoming'[a] /\ incoming[a] \in Nat
      BY <1>0, <1>1, <2>1, <3>1, TotalChanges
    <3> QED
      BY <1>0, <3>1, <3>2
  <2> QED
    BY <1>0, <2>1, <2>2 DEF CountersExact
<1>4. ASSUME NEW a \in Addrs, CloseOutgoing(a) PROVE CountersExact'
  <2>1. /\ outgoing' = [outgoing EXCEPT ![a] = @ - 1] /\ numOutgoing' = numOutgoing - 1
        /\ UNCHANGED <<incoming, numIncoming, dials>>
    BY <1>4 DEF CloseOutgoing
  <2>2. Total(outgoing)' = Total(outgoing) - 1
    <3>1. outgoing'[a] = outgoing[a] - 1 /\ \A x \in Addrs \ {a} : outgoing'[x] = outgoing[x]
      BY <1>0, <1>1, <2>1
    <3>2. Total(outgoing') = Total(outgoing) - outgoing[a] + outgoing'[a] /\ outgoing[a] \in Nat
      BY <1>0, <1>1, <2>1, <3>1, TotalChanges
    <3> QED
      BY <1>0, <3>1, <3>2
  <2> QED
    BY <1>0, <2>1, <2>2 DEF CountersExact
<1>5. ASSUME NEW a \in Addrs, Ban(a) PROVE CountersExact'
  <2>1. dials' = dials
    BY <1>5 DEF Ban
  <2>2. CASE UNCHANGED <<incoming, outgoing, numIncoming, numOutgoing>>
    BY <1>2, <2>1, <2>2
  <2>3. CASE /\ incoming' = [incoming EXCEPT ![a] = 0] /\ outgoing' = [outgoing EXCEPT ![a] = 0]
             /\ numIncoming' = numIncoming - incoming[a]
             /\ numOutgoing' = numOutgoing - outgoing[a]
    <3>1. Total(incoming)' = Total(incoming) - incoming[a]
      <4>1. incoming'[a] = 0 /\ \A x \in Addrs \ {a} : incoming'[x] = incoming[x]
        BY <1>0, <2>3
      <4>2. Total(incoming') = Total(incoming) - incoming[a] + incoming'[a] /\ incoming[a] \in Nat
        BY <1>0, <1>1, <4>1, TotalChanges
      <4> QED
        BY <1>0, <4>1, <4>2
    <3>2. Total(outgoing)' = Total(outgoing) - outgoing[a]
      <4>1. outgoing'[a] = 0 /\ \A x \in Addrs \ {a} : outgoing'[x] = outgoing[x]
        BY <1>0, <2>3
      <4>2. Total(outgoing') = Total(outgoing) - outgoing[a] + outgoing'[a] /\ outgoing[a] \in Nat
        BY <1>0, <1>1, <4>1, TotalChanges
      <4> QED
        BY <1>0, <4>1, <4>2
    <3> QED
      BY <1>0, <2>1, <2>3, <3>1, <3>2 DEF CountersExact
  <2> QED
    BY <1>5, <2>2, <2>3, BanCloses
<1>6. ASSUME NEW a \in Addrs,
             BanExpires(a) \/ AcceptCheck(a) \/ AddToPeerList(a) \/ UpdateInPeerList(a) \/ Ages(a)
      PROVE  CountersExact'
  BY <1>2, <1>6 DEF BanExpires, AcceptCheck, AddToPeerList, UpdateInPeerList, Ages
<1>7. CASE AcceptAppend
  <2>1. accepting \in Addrs
    BY <1>7 DEF AcceptAppend, TypeOK
  <2>2. /\ incoming' = [incoming EXCEPT ![accepting] = @ + 1] /\ numIncoming' = numIncoming + 1
        /\ UNCHANGED <<outgoing, numOutgoing, dials>>
    BY <1>7 DEF AcceptAppend
  <2>3. Total(incoming)' = Total(incoming) + 1
    <3>1. incoming'[accepting] = incoming[accepting] + 1 /\ \A x \in Addrs \ {accepting} : incoming'[x] = incoming[x]
      BY <1>0, <1>1, <2>1, <2>2
    <3>2. Total(incoming') = Total(incoming) - incoming[accepting] + incoming'[accepting] /\ incoming[accepting] \in Nat
      BY <1>0, <1>1, <2>1, <2>2, <3>1, TotalChanges
    <3> QED
      BY <1>0, <3>1, <3>2
  <2> QED
    BY <1>0, <2>2, <2>3 DEF CountersExact
<1>8. ASSUME NEW t \in Tasks, DialLimit(t) PROVE CountersExact'
  BY <1>2, <1>8 DEF DialLimit
<1>9. ASSUME NEW t \in Tasks, DirectConnect(t) PROVE CountersExact'
  <2>1. UNCHANGED <<incoming, outgoing, numIncoming>> /\ t \notin dials
    BY <1>9 DEF DirectConnect, Goroutines
  <2>2. \/ UNCHANGED <<dials, numOutgoing>>
        \/ dials' = dials \cup {t} /\ numOutgoing' = numOutgoing + 1
    BY <1>9, Zenon DEF DirectConnect
  <2>3. Cardinality(dials \cup {t}) = Cardinality(dials) + 1
    BY <1>0, <2>1, DialsCount
  <2>4. CASE UNCHANGED <<dials, numOutgoing>>
    BY <1>2, <2>1, <2>4
  <2>5. CASE dials' = dials \cup {t} /\ numOutgoing' = numOutgoing + 1
    <3>1. Total(outgoing)' = Total(outgoing) /\ Total(incoming)' = Total(incoming)
      BY <2>1
    <3> QED
      BY <1>0, <2>1, <2>3, <2>5, <3>1 DEF CountersExact
  <2> QED
    BY <2>2, <2>4, <2>5
<1>10. ASSUME NEW t \in Tasks, DialSucceeds(t) PROVE CountersExact'
  <2>1. /\ t[1] \in Addrs /\ t \in dials /\ dials' = dials \ {t}
        /\ outgoing' = [outgoing EXCEPT ![t[1]] = @ + 1]
        /\ UNCHANGED <<incoming, numIncoming, numOutgoing>>
    BY <1>10 DEF DialSucceeds, Tasks
  <2>2. Total(outgoing)' = Total(outgoing) + 1
    <3>1. outgoing'[t[1]] = outgoing[t[1]] + 1 /\ \A x \in Addrs \ {t[1]} : outgoing'[x] = outgoing[x]
      BY <1>0, <1>1, <2>1
    <3>2. Total(outgoing') = Total(outgoing) - outgoing[t[1]] + outgoing'[t[1]] /\ outgoing[t[1]] \in Nat
      BY <1>0, <1>1, <2>1, <3>1, TotalChanges
    <3> QED
      BY <1>0, <3>1, <3>2
  <2>3. Cardinality(dials \ {t}) = Cardinality(dials) - 1
    BY <1>0, <2>1, DialsCount
  <2> QED
    BY <1>0, <2>1, <2>2, <2>3 DEF CountersExact
<1>11. ASSUME NEW t \in Tasks, DialFails(t) PROVE CountersExact'
  <2>1. /\ t \in dials /\ dials' = dials \ {t} /\ numOutgoing' = numOutgoing - 1
        /\ UNCHANGED <<incoming, outgoing, numIncoming>>
    BY <1>11 DEF DialFails
  <2>2. Cardinality(dials \ {t}) = Cardinality(dials) - 1
    BY <1>0, <2>1, DialsCount
  <2> QED
    BY <1>0, <2>1, <2>2 DEF CountersExact
<1>12. CASE CleanupBanList \/ CopyPeerList \/ WritePeerList \/ StartDials \/ UNCHANGED vars
  BY <1>2, <1>12 DEF CleanupBanList, CopyPeerList, WritePeerList, StartDials, vars
<1>13. CASE UpdateReturns \/ MonerodAnswers
  BY <1>2, <1>13 DEF UpdateReturns, MonerodAnswers, Returns
<1> QED
  BY <1>3, <1>4, <1>5, <1>6, <1>7, <1>8, <1>9, <1>10, <1>11, <1>12, <1>13 DEF Next

\* Whatever closes, bans, failures and late appends come between, the counters of a server are
\* those of its connections, its accept loop exceeds the limit by one at most, and no address
\* that failed too often is in its list (server.go:289-438, 544-679): for every set of addresses,
\* of peers of monerod and of callers, and all limits.
THEOREM ConnectionsStayCounted == Spec => []ConnectionsAreCounted
<1>1. Init => ConnectionsInv
  <2> SUFFICES ASSUME Init PROVE ConnectionsInv
    OBVIOUS
  <2>1. TypeOK
    BY LimitAssumption, PeersAssumption DEF Init, TypeOK, Rings, NoAddr, NoRound
  <2>2. Goroutines /\ CopyIsFresh
    BY DEF Init, Goroutines, CopyIsFresh
  <2>3. FailedAreForgotten
    BY LimitAssumption DEF Init, FailedAreForgotten
  <2>4. CountersExact
    <3>1. Total(incoming) = 0 /\ Total(outgoing) = 0
      BY TotalZero DEF Init
    <3>2. Cardinality(dials) = 0
      BY FS_EmptySet DEF Init
    <3> QED
      BY <3>1, <3>2 DEF Init, CountersExact
  <2> QED
    BY <2>1, <2>2, <2>3, <2>4 DEF ConnectionsInv
<1>2. ConnectionsInv /\ [Next]_vars => ConnectionsInv'
  BY TypeStep, GoroutinesStep, FailuresStep, CountersStep DEF ConnectionsInv
<1>3. ConnectionsInv /\ Counts /\ Room => ConnectionsAreCounted
  BY DEF ConnectionsInv, ConnectionsAreCounted, Room, IncomingOvershootsByOne
<1> QED
  BY <1>1, <1>2, <1>3, CountsAndRoom, PTL DEF Spec
====
