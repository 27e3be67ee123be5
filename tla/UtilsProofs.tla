---------------------------- MODULE UtilsProofs ------------------------------
(***************************************************************************)
(* The theorems about the utilities: NthElementSlice selects the right     *)
(* element, for every length, every set of values and every index, and the *)
(* ring of recent values implements the list of the last ones, for every   *)
(* size and every word its index wraps at.                                 *)
(***************************************************************************)
EXTENDS NthElement, Sequences, Functions, TLAPS

CONSTANTS Size, Word, Entries, None    \* of CircularBuffer

VARIABLES buffer, index, answer

R == INSTANCE CircularBuffer WITH Values <- Entries

-----------------------------------------------------------------------------
(* NthElement.                                                             *)

\* What a swap does, index by index.
LEMMA SwapFacts ==
    ASSUME NEW t \in [Index -> Values], NEW x \in Index, NEW y \in Index
    PROVE  /\ Swap(t, x, y) \in [Index -> Values]
           /\ Swap(t, x, y)[x] = t[y]
           /\ Swap(t, x, y)[y] = t[x]
           /\ \A z \in Index : z # x /\ z # y => Swap(t, x, y)[z] = t[z]
  BY DEF Swap

\* At the start the range is the whole slice.
LEMMA InitInvariant == Init => IInv
  BY SliceAssumption DEF Init, IInv, TypeOK, Bounded, Parted, Selected, Index

\* With one element left, it has its place.
LEMMA ReturnInvariant == IInv /\ Return => IInv'
  BY SliceAssumption DEF Return, IInv, TypeOK, Bounded, Parted, Selected, Index

\* Moving the pivot swaps inside the range.
LEMMA SelectInvariant == IInv /\ Select => IInv'
<1> SUFFICES ASSUME IInv, Select PROVE IInv'
  OBVIOUS
<1>1. /\ s \in [Index -> Values] /\ left \in Index /\ right \in Index /\ k \in Index
      /\ pc = "select" /\ left # right /\ Bounded
  BY DEF IInv, TypeOK, Select
<1>2. left < right
  BY <1>1, SliceAssumption DEF Bounded, Index
<1>3. PICK p \in Index : p = (left + right) \div 2 /\ left <= p /\ p < right
  BY <1>1, <1>2, SliceAssumption DEF Index
<1>4. s' = Swap(s, p, right) /\ i' = left /\ storeIndex' = left /\ pc' = "partition"
      /\ k' = k /\ left' = left /\ right' = right
  BY <1>3 DEF Select
<1>5. /\ s' \in [Index -> Values]
      /\ s'[p] = s[right] /\ s'[right] = s[p]
      /\ \A z \in Index : z # p /\ z # right => s'[z] = s[z]
  BY <1>1, <1>3, <1>4, SwapFacts
<1>6. TypeOK'
  BY <1>1, <1>4, <1>5 DEF TypeOK
<1>7. Bounded'
  <2>1. ASSUME NEW x \in Index, NEW y \in Index, x < left, left <= y PROVE s'[x] <= s'[y]
    <3>1. x # p /\ x # right
      BY <1>1, <1>2, <1>3, <2>1 DEF Index
    <3>2. s'[x] = s[x] /\ \E z \in Index : left <= z /\ s'[y] = s[z]
      BY <1>1, <1>2, <1>3, <1>5, <2>1, <3>1 DEF Index
    <3> QED
      BY <1>1, <2>1, <3>2 DEF Bounded
  <2>2. ASSUME NEW x \in Index, NEW y \in Index, x <= right, right < y PROVE s'[x] <= s'[y]
    <3>1. y # p /\ y # right
      BY <1>1, <1>2, <1>3, <2>2 DEF Index
    <3>2. s'[y] = s[y] /\ \E z \in Index : z <= right /\ s'[x] = s[z]
      BY <1>1, <1>2, <1>3, <1>5, <2>2, <3>1 DEF Index
    <3> QED
      BY <1>1, <2>2, <3>2 DEF Bounded
  <2> QED
    BY <1>1, <1>4, <2>1, <2>2 DEF Bounded
<1>8. Parted'
  BY <1>1, <1>2, <1>4, SliceAssumption DEF Parted, Index
<1> QED
  BY <1>4, <1>6, <1>7, <1>8 DEF IInv, Selected

\* A comparison swaps inside the range, a smaller element for one that is not.
LEMMA CompareInvariant == IInv /\ Compare => IInv'
<1> SUFFICES ASSUME IInv, Compare PROVE IInv'
  OBVIOUS
<1>1. /\ s \in [Index -> Values] /\ left \in Index /\ right \in Index /\ k \in Index
      /\ i \in Index /\ storeIndex \in Index
      /\ pc = "partition" /\ i < right /\ Bounded /\ Parted
  BY DEF IInv, TypeOK, Compare
<1>2. /\ i' = i + 1 /\ pc' = "partition" /\ k' = k /\ left' = left /\ right' = right
  BY <1>1 DEF Compare
<1>3. /\ left < right /\ left <= storeIndex /\ storeIndex <= i
      /\ \A x \in Index : left <= x /\ x < storeIndex => s[x] < s[right]
      /\ \A x \in Index : storeIndex <= x /\ x < i => s[x] >= s[right]
  BY <1>1 DEF Parted
<1>4. CASE ~(s[i] < s[right])
  <2>1. s' = s /\ storeIndex' = storeIndex
    BY <1>4 DEF Compare
  <2>2. TypeOK' /\ Bounded'
    BY <1>1, <1>2, <2>1, SliceAssumption DEF TypeOK, Bounded, Index
  <2>3. Parted'
    <3>1. s[i] \in Int /\ s[right] \in Int
      BY <1>1, SliceAssumption
    <3>2. \A x \in Index : storeIndex <= x /\ x < i + 1 => s[x] >= s[right]
      BY <1>1, <1>3, <1>4, <3>1 DEF Index
    <3> QED
      BY <1>1, <1>2, <1>3, <2>1, <3>2 DEF Parted, Index
  <2> QED
    BY <1>2, <2>2, <2>3 DEF IInv, Selected
<1>5. CASE s[i] < s[right]
  <2>1. s' = Swap(s, storeIndex, i) /\ storeIndex' = storeIndex + 1
    BY <1>5 DEF Compare
  <2>2. /\ s' \in [Index -> Values]
        /\ s'[storeIndex] = s[i] /\ s'[i] = s[storeIndex]
        /\ \A z \in Index : z # storeIndex /\ z # i => s'[z] = s[z]
    BY <1>1, <2>1, SwapFacts
  <2>3. TypeOK'
    BY <1>1, <1>2, <1>3, <2>1, <2>2, SliceAssumption DEF TypeOK, Index
  <2>4. Bounded'
    BY <1>1, <1>2, <1>3, <2>2, SliceAssumption DEF Bounded, Index
  <2>5. Parted'
    BY <1>1, <1>2, <1>3, <1>5, <2>1, <2>2, SliceAssumption DEF Parted, Index
  <2> QED
    BY <1>2, <2>3, <2>4, <2>5 DEF IInv, Selected
<1> QED
  BY <1>4, <1>5

\* The pivot in its place parts the range, and k is on the side where the search goes on.
LEMMA PartitionedInvariant == IInv /\ Partitioned => IInv'
<1> SUFFICES ASSUME IInv, Partitioned PROVE IInv'
  OBVIOUS
<1>1. /\ s \in [Index -> Values] /\ left \in Index /\ right \in Index /\ k \in Index
      /\ i \in Index /\ storeIndex \in Index
      /\ pc = "partition" /\ i = right /\ Bounded /\ Parted
  BY DEF IInv, TypeOK, Partitioned
<1>2. /\ s' = Swap(s, right, storeIndex) /\ k' = k /\ i' = i /\ storeIndex' = storeIndex
      /\ pc' = IF k = storeIndex THEN "done" ELSE "select"
      /\ right' = IF k < storeIndex THEN storeIndex - 1 ELSE right
      /\ left' = IF k > storeIndex THEN storeIndex + 1 ELSE left
  BY DEF Partitioned, Descend
<1>3. /\ left < right /\ left <= storeIndex /\ storeIndex <= right
      /\ \A x \in Index : left <= x /\ x < storeIndex => s[x] < s[right]
      /\ \A x \in Index : storeIndex <= x /\ x < right => s[x] >= s[right]
  BY <1>1 DEF Parted
<1>4. /\ s' \in [Index -> Values]
      /\ s'[right] = s[storeIndex] /\ s'[storeIndex] = s[right]
      /\ \A z \in Index : z # right /\ z # storeIndex => s'[z] = s[z]
  BY <1>1, <1>2, SwapFacts
<1>0. \A z \in Index : s[z] \in Int /\ s'[z] \in Int
  BY <1>1, <1>4, SliceAssumption
<1>5. /\ \A x \in Index : x < storeIndex => s'[x] <= s'[storeIndex]
      /\ \A x \in Index : storeIndex < x => s'[storeIndex] <= s'[x]
  <2>1. ASSUME NEW x \in Index, x < storeIndex PROVE s'[x] <= s'[storeIndex]
    <3>1. s'[x] = s[x]
      BY <1>1, <1>3, <1>4, <2>1 DEF Index
    <3>2. CASE x < left
      BY <1>1, <1>3, <1>4, <3>1, <3>2 DEF Bounded, Index
    <3>3. CASE left <= x
      BY <1>0, <1>1, <1>3, <1>4, <2>1, <3>1, <3>3
    <3> QED
      BY <1>1, <3>2, <3>3 DEF Index
  <2>2. ASSUME NEW x \in Index, storeIndex < x PROVE s'[storeIndex] <= s'[x]
    BY <1>1, <1>3, <1>4, <2>2, SliceAssumption DEF Bounded, Index
  <2> QED
    BY <2>1, <2>2
<1>6. TypeOK'
  BY <1>1, <1>2, <1>3, <1>4, SliceAssumption DEF TypeOK, Bounded, Index
<1>7. Selected'
  BY <1>2, <1>5 DEF Selected
<1>8. Parted'
  BY <1>2 DEF Parted
<1>9. ASSUME pc' # "done" PROVE Bounded'
  <2>1. k # storeIndex
    BY <1>2, <1>9
  <2>2. /\ \A x, y \in Index : x < left /\ left <= y => s'[x] <= s'[y]
        /\ \A x, y \in Index : x <= right /\ right < y => s'[x] <= s'[y]
    BY <1>1, <1>3, <1>4, SliceAssumption DEF Bounded, Index
  <2>3. \A x, y \in Index : x < storeIndex /\ storeIndex <= y => s'[x] <= s'[y]
    <3> SUFFICES ASSUME NEW x \in Index, NEW y \in Index, x < storeIndex /\ storeIndex <= y
                 PROVE s'[x] <= s'[y]
      OBVIOUS
    <3>1. s'[x] <= s'[storeIndex] /\ s'[storeIndex] <= s'[y]
      BY <1>0, <1>1, <1>5 DEF Index
    <3> QED
      BY <1>0, <1>1, <3>1
  <2>4. \A x, y \in Index : x <= storeIndex /\ storeIndex < y => s'[x] <= s'[y]
    <3> SUFFICES ASSUME NEW x \in Index, NEW y \in Index, x <= storeIndex /\ storeIndex < y
                 PROVE s'[x] <= s'[y]
      OBVIOUS
    <3>1. s'[x] <= s'[storeIndex] /\ s'[storeIndex] <= s'[y]
      BY <1>0, <1>1, <1>5 DEF Index
    <3> QED
      BY <1>0, <1>1, <3>1
  <2>5. CASE k < storeIndex
    BY <1>1, <1>2, <2>2, <2>3, <2>5, SliceAssumption DEF Bounded, Index
  <2>6. CASE k > storeIndex
    BY <1>1, <1>2, <2>2, <2>4, <2>6, SliceAssumption DEF Bounded, Index
  <2> QED
    BY <1>1, <2>1, <2>5, <2>6 DEF Index
<1> QED
  BY <1>6, <1>7, <1>8, <1>9 DEF IInv

\* NthElementSlice puts the element of rank k at index k (nthelement.go:7-28).
THEOREM SelectionIsCorrect == Spec => []Selected
<1>1. IInv /\ UNCHANGED vars => IInv'
  BY DEF IInv, TypeOK, Bounded, Parted, Selected, vars
<1>2. IInv /\ [Next]_vars => IInv'
  BY <1>1, ReturnInvariant, SelectInvariant, CompareInvariant, PartitionedInvariant DEF Next
<1>3. IInv => Selected
  BY DEF IInv
<1> QED
  BY InitInvariant, <1>2, <1>3, PTL DEF Spec

-----------------------------------------------------------------------------
(* CircularBuffer.                                                         *)

\* The values from the oldest to the newest, as CircularBuffer maps them.
Last == [e \in 1..Size |-> buffer[R!Slot(index + e)]]
A == INSTANCE Recent WITH last <- Last, Values <- Entries

RingInv == DOMAIN buffer = 0..(Size - 1) /\ index \in 0..(Word - 1) /\ answer \in BOOLEAN

\* Division with remainder.
LEMMA Division ==
  ASSUME NEW a \in Nat, NEW d \in Nat \ {0}
  PROVE  a % d \in 0..(d - 1) /\ a \div d \in Nat /\ a = d * (a \div d) + (a % d)
  OBVIOUS

LEMMA Remainder ==
  ASSUME NEW d \in Nat \ {0}, NEW q \in Nat, NEW r \in 0..(d - 1), NEW a \in Nat, a = d * q + r
  PROVE  a % d = r
<1> DEFINE p == a \div d
           l == a % d
<1>1. l \in 0..(d - 1) /\ p \in Nat /\ a = d * p + l
  BY Division
<1> HIDE DEF p, l
<1>2. CASE p > q
  <2>1. d * p >= d * (q + 1)
    BY <1>1, <1>2
  <2>2. d * (q + 1) = d * q + d
    OBVIOUS
  <2> QED BY <1>1, <2>1, <2>2
<1>3. CASE q > p
  <2>1. d * q >= d * (p + 1)
    BY <1>1, <1>3
  <2>2. d * (p + 1) = d * p + d
    BY <1>1
  <2> QED BY <1>1, <2>1, <2>2
<1>4. CASE p = q
  BY <1>1, <1>4 DEF l
<1> QED BY <1>1, <1>2, <1>3, <1>4

\* A multiple of the divisor changes nothing.
LEMMA RemainderShifts ==
  ASSUME NEW d \in Nat \ {0}, NEW m \in Nat, m % d = 0, NEW a \in Nat
  PROVE  (m + a) % d = a % d
<1>1. m = d * (m \div d) + 0 /\ m \div d \in Nat
  BY Division
<1>2. a = d * (a \div d) + (a % d) /\ a \div d \in Nat /\ a % d \in 0..(d - 1)
  BY Division
<1> DEFINE p == m \div d
           q == a \div d
           r == a % d
<1> HIDE DEF p, q, r
<1>3. m = d * p /\ p \in Nat /\ a = d * q + r /\ q \in Nat /\ r \in 0..(d - 1)
  BY <1>1, <1>2 DEF p, q, r
<1>4. d * (p + q) = d * p + d * q
  BY <1>3
<1>5. (m + a) % d = r
  BY <1>3, <1>4, Remainder
<1> QED BY <1>5 DEF r

\* Numbers less than the divisor apart have different remainders.
LEMMA RemaindersDiffer ==
  ASSUME NEW d \in Nat \ {0}, NEW a \in Nat, NEW b \in 1..(d - 1)
  PROVE  (a + b) % d # a % d
<1> DEFINE q == a \div d
           r == a % d
<1>1. a = d * q + r /\ q \in Nat /\ r \in 0..(d - 1)
  BY Division
<1> HIDE DEF q, r
<1>2. CASE r + b < d
  <2>1. (a + b) % d = r + b
    BY <1>1, <1>2, Remainder
  <2> QED BY <2>1, <1>1 DEF r
<1>3. CASE r + b >= d
  <2> DEFINE p == q + 1
             t == r + b - d
             c == a + b
  <2>1. d * p = d * q + d
    BY <1>1
  <2>2. c = d * p + t /\ t \in 0..(d - 1) /\ p \in Nat /\ c \in Nat /\ t # r
    BY <1>1, <1>3, <2>1
  <2> HIDE DEF p, t, c
  <2>3. c % d = t
    BY <2>2, Remainder
  <2> QED BY <2>2, <2>3 DEF r, c
<1> QED BY <1>1, <1>2, <1>3

LEMMA SizeFacts ==
  ASSUME R!SizeAssumption
  PROVE  Size \in Nat \ {0} /\ Word \in Nat \ {0} /\ Word % Size = 0
  BY DEF R!SizeAssumption

\* Slots around the ring: a slot is in the buffer, the next Size - 1 are others, and then it
\* comes again.
LEMMA Slots ==
  ASSUME R!SizeAssumption, NEW n \in Nat
  PROVE  /\ R!Slot(n) \in 0..(Size - 1)
         /\ \A b \in 1..(Size - 1) : R!Slot(n + b) # R!Slot(n)
         /\ R!Slot(n + Size) = R!Slot(n)
<1>1. Size \in Nat \ {0}
  BY SizeFacts
<1>2. n % Size \in 0..(Size - 1)
  BY <1>1, Division
<1>3. ASSUME NEW b \in 1..(Size - 1) PROVE (n + b) % Size # n % Size
  BY <1>1, RemaindersDiffer
<1>4. (n + Size) % Size = n % Size
  <2>1. Size = Size * 1 + 0
    BY <1>1
  <2>2. Size % Size = 0
    BY <1>1, <2>1, Remainder
  <2>3. (Size + n) % Size = n % Size
    BY <1>1, <2>2, RemainderShifts
  <2>4. Size + n = n + Size
    BY <1>1
  <2> QED BY <2>3, <2>4
<1> QED BY <1>2, <1>3, <1>4 DEF R!Slot

\* The index wraps around at a multiple of the size, which no slot notices.
LEMMA WrapIsUnseen ==
  ASSUME R!SizeAssumption, RingInv, NEW j \in Nat
  PROVE  R!Slot(((index + 1) % Word) + j) = R!Slot(index + 1 + j)
<1>1. Size \in Nat \ {0} /\ Word \in Nat \ {0} /\ Word % Size = 0
  BY SizeFacts
<1>2. index \in Nat /\ index < Word
  BY <1>1 DEF RingInv
<1>3. CASE index + 1 < Word
  <2>1. index + 1 = Word * 0 + (index + 1) /\ index + 1 \in 0..(Word - 1)
    BY <1>1, <1>2, <1>3
  <2>2. (index + 1) % Word = index + 1
    BY <1>1, <1>2, <2>1, Remainder
  <2> QED BY <2>2
<1>4. CASE index + 1 = Word
  <2>1. Word = Word * 1 + 0
    BY <1>1
  <2>2. Word % Word = 0
    BY <1>1, <2>1, Remainder
  <2>3. (Word + j) % Size = j % Size
    BY <1>1, RemainderShifts
  <2> QED BY <1>4, <2>2, <2>3 DEF R!Slot
<1> QED BY <1>1, <1>2, <1>3, <1>4

\* Every slot is that of one of the values.
LEMMA EverySlot ==
  ASSUME R!SizeAssumption, RingInv, NEW t \in 0..(Size - 1)
  PROVE  \E e \in 1..Size : R!Slot(index + e) = t
<1>1. Size \in Nat \ {0} /\ index \in Nat
  BY SizeFacts DEF RingInv
<1> DEFINE q == index \div Size
           r == index % Size
<1>2. index = Size * q + r /\ q \in Nat /\ r \in 0..(Size - 1)
  BY <1>1, Division
<1> HIDE DEF q, r
<1>3. CASE t > r
  <2>1. t - r \in 1..Size /\ index + (t - r) = Size * q + t /\ index + (t - r) \in Nat
    BY <1>1, <1>2, <1>3
  <2>2. (index + (t - r)) % Size = t
    BY <1>1, <1>2, <2>1, Remainder
  <2> QED BY <2>1, <2>2 DEF R!Slot
<1>4. CASE t <= r
  <2> DEFINE e == t - r + Size
             p == q + 1
             c == index + e
  <2>1. Size * p = Size * q + Size
    BY <1>1, <1>2
  <2>2. e \in 1..Size /\ c = Size * p + t /\ c \in Nat /\ p \in Nat
    BY <1>1, <1>2, <1>4, <2>1
  <2> HIDE DEF e, p, c
  <2>3. c % Size = t
    BY <1>1, <2>2, Remainder
  <2> QED BY <2>2, <2>3 DEF R!Slot, c
<1> QED BY <1>2, <1>3, <1>4

\* The buffer holds the values of the list, and no other.
LEMMA SameValues ==
  ASSUME R!SizeAssumption, RingInv, NEW v
  PROVE  v \in R!Range(buffer) <=> v \in A!Range(Last)
<1>1. Size \in Nat \ {0} /\ index \in Nat /\ Len(Last) = Size
  BY SizeFacts DEF RingInv, Last
<1>2. ASSUME v \in R!Range(buffer) PROVE v \in A!Range(Last)
  <2>1. PICK t \in 0..(Size - 1) : buffer[t] = v
    BY <1>2 DEF R!Range, RingInv
  <2>2. PICK e \in 1..Size : R!Slot(index + e) = t
    BY EverySlot
  <2> QED BY <1>1, <2>1, <2>2 DEF A!Range, Last
<1>3. ASSUME v \in A!Range(Last) PROVE v \in R!Range(buffer)
  <2>1. PICK e \in 1..Size : Last[e] = v
    BY <1>1, <1>3 DEF A!Range
  <2>2. index + e \in Nat
    BY <1>1
  <2>3. R!Slot(index + e) \in DOMAIN buffer
    BY <2>2, Slots DEF RingInv
  <2> QED BY <2>1, <2>3 DEF R!Range, Last
<1> QED BY <1>2, <1>3

\* A value at the end, and the first one gone.
LEMMA ShiftedLeft ==
  ASSUME NEW S, NEW l \in Seq(S), l # <<>>, NEW v \in S
  PROVE  Append(Tail(l), v) = [j \in 1..Len(l) |-> IF j = Len(l) THEN v ELSE l[j + 1]]
<1> DEFINE u == Tail(l)
<1>1. u \in Seq(S) /\ Len(l) \in Nat \ {0} /\ Len(u) = Len(l) - 1 /\ \A j \in 1..Len(u) : u[j] = l[j + 1]
  OBVIOUS
<1> HIDE DEF u
<1> DEFINE w == Append(u, v)
<1>2. w \in Seq(S) /\ Len(w) = Len(l) /\ w[Len(l)] = v /\ \A j \in 1..(Len(l) - 1) : w[j] = l[j + 1]
  BY <1>1
<1> HIDE DEF w
<1>3. w = [j \in 1..Len(w) |-> w[j]]
  BY <1>2
<1>4. \A j \in 1..Len(l) : w[j] = IF j = Len(l) THEN v ELSE l[j + 1]
  BY <1>1, <1>2
<1>5. w = [j \in 1..Len(l) |-> IF j = Len(l) THEN v ELSE l[j + 1]]
  BY <1>2, <1>3, <1>4
<1> QED BY <1>5 DEF w, u

\* The value goes where the oldest was, and is the newest.
LEMMA PushedIsAppended ==
  ASSUME R!SizeAssumption, RingInv, NEW v, R!Pushed(v)
  PROVE  Last' = Append(Tail(Last), v) /\ DOMAIN buffer' = 0..(Size - 1) /\ index' \in 0..(Word - 1)
<1>1. Size \in Nat \ {0} /\ index \in Nat /\ Word \in Nat \ {0}
  BY SizeFacts DEF RingInv
<1>2. index' = (index + 1) % Word /\ index' \in 0..(Word - 1)
  BY <1>1, Division DEF R!Pushed
<1>3. \A n \in Nat : R!Slot(n) \in 0..(Size - 1)
  BY Slots
<1>4. \A j \in Nat : R!Slot(index' + j) = R!Slot(index + 1 + j)
  BY <1>2, WrapIsUnseen
<1>5. R!Slot(index') = R!Slot(index + 1)
  <2>1. R!Slot(index' + 0) = R!Slot(index + 1 + 0)
    BY <1>4
  <2>2. index' + 0 = index' /\ index + 1 + 0 = index + 1
    BY <1>1, <1>2
  <2> QED BY <2>1, <2>2
<1>6. index + 1 \in Nat /\ R!Slot(index + 1) \in 0..(Size - 1)
  BY <1>1, <1>3
<1>7. /\ DOMAIN buffer' = 0..(Size - 1) /\ buffer'[R!Slot(index + 1)] = v
      /\ \A t \in 0..(Size - 1) : t # R!Slot(index + 1) => buffer'[t] = buffer[t]
  BY <1>5, <1>6, Zenon DEF R!Pushed, RingInv
<1>8. /\ Last' = [j \in 1..Size |-> buffer'[R!Slot(index + 1 + j)]]
      /\ Last \in Seq({buffer[t] : t \in 0..(Size - 1)}) /\ Len(Last) = Size
      /\ \A j \in 1..Size : Last[j] = buffer[R!Slot(index + j)]
  <2>1. Last' = [j \in 1..Size |-> buffer'[R!Slot(index' + j)]]
    BY DEF Last
  <2>2. \A j \in 1..Size : index + j \in Nat
    BY <1>1
  <2> QED BY <1>1, <1>3, <1>4, <2>1, <2>2 DEF Last
<1>9. ASSUME NEW j \in 1..(Size - 1) PROVE buffer'[R!Slot(index + 1 + j)] = Last[j + 1]
  <2>1. R!Slot(index + 1 + j) # R!Slot(index + 1)
    BY <1>6, Slots
  <2>2. index + 1 + j = index + (j + 1) /\ j + 1 \in 1..Size /\ index + 1 + j \in Nat
    BY <1>1
  <2> QED BY <1>3, <1>7, <1>8, <2>1, <2>2
<1>10. buffer'[R!Slot(index + 1 + Size)] = v
  BY <1>6, <1>7, Slots
<1>11. \A j \in 1..Size : buffer'[R!Slot(index + 1 + j)] = IF j = Size THEN v ELSE Last[j + 1]
  <2> SUFFICES ASSUME NEW j \in 1..Size
               PROVE  buffer'[R!Slot(index + 1 + j)] = IF j = Size THEN v ELSE Last[j + 1]
    OBVIOUS
  <2>1. CASE j = Size
    BY <1>10, <2>1
  <2>2. CASE j # Size
    BY <1>1, <1>9, <2>2
  <2> QED BY <2>1, <2>2
<1>12. Last' = [j \in 1..Size |-> IF j = Size THEN v ELSE Last[j + 1]]
  BY <1>8, <1>11, Zenon
<1> DEFINE S == {buffer[t] : t \in 0..(Size - 1)} \cup {v}
<1>13. Last # <<>> /\ Last \in Seq(S) /\ v \in S
  BY <1>1, <1>8
<1> HIDE DEF S
<1>14. Append(Tail(Last), v) = [j \in 1..Len(Last) |-> IF j = Len(Last) THEN v ELSE Last[j + 1]]
  BY <1>13, ShiftedLeft
<1>15. Append(Tail(Last), v) = [j \in 1..Size |-> IF j = Size THEN v ELSE Last[j + 1]]
  BY <1>8, <1>14, Zenon
<1> QED BY <1>2, <1>7, <1>12, <1>15, Zenon

\* A value replaced in the buffer is replaced in the list.
LEMMA ReplacedInList ==
  ASSUME R!SizeAssumption, RingInv, NEW v, NEW w, R!Replace(v, w)
  PROVE  RingInv' /\ A!Replace(v, w)
<1>1. /\ buffer' = [e \in DOMAIN buffer |-> IF buffer[e] = v THEN w ELSE buffer[e]]
      /\ index' = index /\ answer' = answer
  BY DEF R!Replace
<1>2. \A e \in 1..Size : R!Slot(index + e) \in DOMAIN buffer
  <2>0. Size \in Nat \ {0} /\ index \in Nat
    BY SizeFacts DEF RingInv
  <2>1. \A e \in 1..Size : index + e \in Nat
    BY <2>0
  <2>2. \A n \in Nat : R!Slot(n) \in 0..(Size - 1)
    BY Slots
  <2> QED BY <2>1, <2>2, Zenon DEF RingInv
<1>3. Last' = [e \in DOMAIN Last |-> IF Last[e] = v THEN w ELSE Last[e]]
  BY <1>1, <1>2, Zenon DEF Last
<1> QED BY <1>1, <1>3, Zenon DEF A!Replace, RingInv

\* PushUnique answers whether the list had the value.
LEMMA PushedUnlessThere ==
  ASSUME R!SizeAssumption, RingInv, NEW v, R!PushUnique(v)
  PROVE  RingInv' /\ A!PushUnique(v)
<1>1. CASE v \in R!Range(buffer)
  <2>1. v \in A!Range(Last) /\ answer' = FALSE /\ buffer' = buffer /\ index' = index
    BY <1>1, SameValues DEF R!PushUnique
  <2>2. Last' = Last
    BY <2>1, Zenon DEF Last
  <2> QED BY <2>1, <2>2, Zenon DEF A!PushUnique, RingInv
<1>2. CASE v \notin R!Range(buffer)
  <2>1. v \notin A!Range(Last) /\ answer' = TRUE /\ R!Pushed(v)
    BY <1>2, SameValues DEF R!PushUnique
  <2>2. Last' = Append(Tail(Last), v) /\ DOMAIN buffer' = 0..(Size - 1) /\ index' \in 0..(Word - 1)
    BY <2>1, PushedIsAppended
  <2> QED BY <2>1, <2>2, Zenon DEF A!PushUnique, RingInv
<1> QED BY <1>1, <1>2

\* The ring of any size implements the list of the last values: also when its index wraps
\* around it forgets the oldest, and PushUnique refuses exactly the values it still remembers
\* (circular_buffer.go:21-61).
THEOREM RingRemembersRecent ==
  ASSUME R!SizeAssumption
  PROVE  R!Spec => A!Spec
<1>1. R!Init => RingInv /\ A!Init
  <2> SUFFICES ASSUME R!Init PROVE RingInv /\ A!Init
    OBVIOUS
  <2>1. buffer = [e \in 0..(Size - 1) |-> None] /\ index = 0 /\ answer = FALSE
    BY DEF R!Init
  <2>2. RingInv
    <3>0. Word \in Nat \ {0}
      BY SizeFacts
    <3>1. 0 \in 0..(Word - 1) /\ DOMAIN buffer = 0..(Size - 1)
      BY <2>1, <3>0
    <3> QED BY <2>1, <3>1, Zenon DEF RingInv
  <2>3. \A e \in 1..Size : R!Slot(index + e) \in 0..(Size - 1)
    <3>0. Size \in Nat \ {0}
      BY SizeFacts
    <3>1. \A e \in 1..Size : index + e \in Nat
      BY <3>0, <2>1
    <3>2. \A n \in Nat : R!Slot(n) \in 0..(Size - 1)
      BY Slots
    <3> QED BY <3>1, <3>2, Zenon
  <2>4. Last = [e \in 1..Size |-> None]
    BY <2>1, <2>3, Zenon DEF Last
  <2> QED BY <2>1, <2>2, <2>4, Zenon DEF A!Init
<1>2. RingInv /\ [R!Next]_(R!vars) => RingInv' /\ [A!Next]_(A!vars)
  <2> SUFFICES ASSUME RingInv, [R!Next]_(R!vars) PROVE RingInv' /\ [A!Next]_(A!vars)
    OBVIOUS
  <2>1. ASSUME NEW v \in Entries, R!Push(v) PROVE RingInv' /\ A!Push(v)
    <3>1. R!Pushed(v) /\ answer' = answer
      BY <2>1 DEF R!Push
    <3>2. Last' = Append(Tail(Last), v) /\ DOMAIN buffer' = 0..(Size - 1) /\ index' \in 0..(Word - 1)
      BY <3>1, PushedIsAppended
    <3> QED BY <3>1, <3>2, Zenon DEF A!Push, RingInv
  <2>2. CASE UNCHANGED R!vars
    BY <2>2, Zenon DEF R!vars, A!vars, RingInv, Last
  <2>3. CASE R!Next
    <3>1. PICK v \in Entries : R!Push(v) \/ R!PushUnique(v) \/ R!Replace(v, None)
      BY <2>3 DEF R!Next
    <3>2. RingInv' /\ (A!Push(v) \/ A!PushUnique(v) \/ A!Replace(v, None))
      BY <2>1, <3>1, PushedUnlessThere, ReplacedInList, Zenon
    <3> QED BY <3>2, Zenon DEF A!Next
  <2> QED BY <2>2, <2>3, Zenon
<1> QED BY <1>1, <1>2, PTL DEF R!Spec, A!Spec
====
