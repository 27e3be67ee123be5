-------------------------- MODULE BlockRequestsProofs --------------------------
(***************************************************************************)
(* The queue of pending block requests never outgrows its bound by more    *)
(* than one entry per sender, for any number of clients and blocks and any *)
(* bounds; the number of senders up to which nobody waits for room; and    *)
(* the queue has an id for every response of a peer.                       *)
(***************************************************************************)
EXTENDS BlockRequests, FiniteSetTheorems, SequenceTheorems, TLAPS

Tasks == [op : {"missing", "unique", "check", "enqueue", "write"},
          c : Clients \cup {Downloader}, h : Ids, bound : 1 .. Bound]

\* A sender's work: only its first task can be between the check and the write.
Plan(q) ==
    /\ q \in Seq(Tasks)
    /\ \A i \in 1 .. Len(q) :
          /\ q[i].op # "unique" => q[i].c \in Clients
          /\ i > 1 => q[i].op \notin {"enqueue", "write"}

\* The senders that passed the check and have not put their id in the queue of c.
Entering(c) == {s \in Senders : work[s] # <<>> /\ Head(work[s]).op = "enqueue" /\ Head(work[s]).c = c}

Messages == [type : {"notify", "response"}, id : Ids]

Shape ==
    /\ have \subseteq Blocks
    /\ cached \subseteq Blocks
    /\ toPeer \in [Clients -> Seq(Ids)]
    /\ fromPeer \in [Clients -> Seq(Messages)]
    /\ pendingIds \in [Clients -> Seq(Ids)]
    /\ DOMAIN banned = Clients
    /\ DOMAIN work = Senders
    /\ \A s \in Senders : Plan(work[s])

\* What is in the queue and what is about to be never exceed the bound by more than the senders
\* but one.
Room == \A c \in Clients :
    Len(pendingIds[c]) + Cardinality(Entering(c)) <= Bound - 1 + Cardinality(Senders)

IInv == Shape /\ Room

---------------------------------------------------------------------------
(* Lemmas.                                                                 *)

\* There are finitely many senders, at least one, and finitely many enter a queue.
LEMMA SendersFinite ==
    /\ IsFiniteSet(Senders)
    /\ Cardinality(Senders) \in Nat \ {0}
    /\ Clients \subseteq Senders
    /\ \A c : IsFiniteSet(Entering(c)) /\ Cardinality(Entering(c)) \in Nat
              /\ Cardinality(Entering(c)) <= Cardinality(Senders)
<1>1. IsFiniteSet(Senders)
  <2>1. CASE Downloads
    BY <2>1, FS_AddElement, NetworkAssumption DEF Senders
  <2>2. CASE ~Downloads
    <3>1. Senders = Clients
      BY <2>2 DEF Senders
    <3> QED
      BY <3>1, NetworkAssumption
  <2> QED
    BY <2>1, <2>2
<1>2. Clients \subseteq Senders
  BY DEF Senders
<1>3. Cardinality(Senders) \in Nat \ {0}
  <2>1. Senders # {}
    BY <1>2, NetworkAssumption
  <2> QED
    BY <1>1, <2>1, FS_CardinalityType, FS_EmptySet
<1>4. ASSUME NEW c
      PROVE  IsFiniteSet(Entering(c)) /\ Cardinality(Entering(c)) \in Nat
             /\ Cardinality(Entering(c)) <= Cardinality(Senders)
  <2>1. Entering(c) \subseteq Senders
    BY DEF Entering
  <2> QED
    BY <1>1, <2>1, FS_Subset, FS_CardinalityType
<1> QED
  BY <1>1, <1>2, <1>3, <1>4

\* Going on with new tasks keeps the shape of a sender's work, and the only way to get to the
\* queue is through the first of them.
LEMMA ContinuePlan ==
    ASSUME NEW q, NEW t, Plan(q), q # <<>>, Plan(t)
    PROVE  /\ Plan(t \o Tail(q))
           /\ (t \o Tail(q)) # <<>> /\ Head(t \o Tail(q)).op \in {"enqueue", "write"}
                => t # <<>>
           /\ t # <<>> => (t \o Tail(q)) # <<>> /\ Head(t \o Tail(q)) = Head(t)
<1> DEFINE r == t \o Tail(q)
<1>1. q \in Seq(Tasks) /\ t \in Seq(Tasks)
  BY DEF Plan
<1>2. /\ Tail(q) \in Seq(Tasks)
      /\ Len(Tail(q)) = Len(q) - 1
      /\ \A i \in 1 .. Len(Tail(q)) : Tail(q)[i] = q[i + 1]
  BY <1>1, HeadTailProperties
<1>3. /\ r \in Seq(Tasks)
      /\ Len(r) = Len(t) + Len(Tail(q))
      /\ \A i \in 1 .. Len(r) : r[i] = IF i <= Len(t) THEN t[i] ELSE Tail(q)[i - Len(t)]
  BY <1>1, <1>2, ConcatProperties
<1>4. Len(q) \in Nat /\ Len(t) \in Nat
  BY <1>1, LenProperties
<1>5. ASSUME NEW i \in 1 .. Len(r)
      PROVE  /\ r[i].op # "unique" => r[i].c \in Clients
             /\ i > 1 => r[i].op \notin {"enqueue", "write"}
             /\ i > Len(t) => r[i].op \notin {"enqueue", "write"}
  <2>1. CASE i <= Len(t)
    <3>1. r[i] = t[i] /\ i \in 1 .. Len(t)
      BY <1>3, <1>4, <2>1
    <3> QED
      BY <3>1, <1>4, <2>1 DEF Plan
  <2>2. CASE i > Len(t)
    <3>1. /\ i - Len(t) \in 1 .. Len(Tail(q))
          /\ r[i] = Tail(q)[i - Len(t)]
      BY <1>2, <1>3, <1>4, <2>2
    <3>2. /\ r[i] = q[i - Len(t) + 1]
          /\ i - Len(t) + 1 \in 1 .. Len(q)
          /\ i - Len(t) + 1 > 1
      BY <3>1, <1>2, <1>4
    <3> QED
      BY <3>2 DEF Plan
  <2> QED
    BY <1>4, <2>1, <2>2
<1>6. Plan(r)
  BY <1>3, <1>5 DEF Plan
<1>7. ASSUME r # <<>>, Head(r).op \in {"enqueue", "write"}
      PROVE  t # <<>>
  <2>1. 1 \in 1 .. Len(r) /\ Head(r) = r[1]
    BY <1>3, <1>7, HeadTailProperties, LenProperties, EmptySeq
  <2>2. 1 <= Len(t)
    BY <1>4, <1>5, <1>7, <2>1
  <2> QED
    BY <1>1, <2>2, EmptySeq
<1>8. ASSUME t # <<>>
      PROVE  r # <<>> /\ Head(r) = Head(t)
  <2>1. 1 <= Len(t) /\ Head(t) = t[1]
    BY <1>1, <1>4, <1>8, EmptySeq, HeadTailProperties
  <2>2. Len(r) \in Nat /\ 1 <= Len(r)
    BY <1>2, <1>3, <1>4, <2>1, LenProperties
  <2>3. r # <<>>
    BY <1>3, <2>2, EmptySeq
  <2>4. Head(r) = r[1]
    BY <1>3, <2>3, HeadTailProperties
  <2>5. r[1] = t[1]
    BY <1>3, <2>1, <2>2
  <2> QED
    BY <2>1, <2>3, <2>4, <2>5
<1> QED
  BY <1>6, <1>7, <1>8

\* One task is a plan when it is between check and write only as the first one.
LEMMA OneTask ==
    ASSUME NEW t \in Tasks, t.op # "unique" => t.c \in Clients
    PROVE  Plan(<<t>>) /\ <<t>> # <<>> /\ Head(<<t>>) = t
<1>1. <<t>> \in Seq(Tasks) /\ Len(<<t>>) = 1 /\ <<t>>[1] = t
  OBVIOUS
<1> QED
  BY <1>1 DEF Plan

\* Two tasks make a plan when the second is not at the queue.
LEMMA TwoTasks ==
    ASSUME NEW t \in Tasks, NEW u \in Tasks, t.c \in Clients, u.c \in Clients,
           u.op \notin {"enqueue", "write"}
    PROVE  Plan(<<t, u>>) /\ <<t, u>> # <<>> /\ Head(<<t, u>>) = t
<1>1. <<t, u>> \in Seq(Tasks) /\ Len(<<t, u>>) = 2 /\ <<t, u>>[1] = t /\ <<t, u>>[2] = u
  OBVIOUS
<1>2. \A i \in 1 .. 2 : i = 1 \/ i = 2
  OBVIOUS
<1> QED
  BY <1>1, <1>2 DEF Plan

\* The task a sender is at.
LEMMA FirstTask ==
    ASSUME NEW q, Plan(q), q # <<>>
    PROVE  /\ Head(q) \in Tasks
           /\ Head(q).op # "unique" => Head(q).c \in Clients
<1>1. q \in Seq(Tasks)
  BY DEF Plan
<1>2. Head(q) = q[1] /\ 1 \in 1 .. Len(q) /\ Head(q) \in Tasks
  BY <1>1, HeadTailProperties, LenProperties, EmptySeq
<1> QED
  BY <1>2 DEF Plan

\* No work is a plan.
LEMMA NoTask == Plan(<<>>)
  BY EmptySeq DEF Plan

\* The missing blocks of a block make a plan, and none of them is in the queue yet.
LEMMA FollowPlan ==
    ASSUME NEW c \in Clients, NEW b \in Blocks
    PROVE  /\ Plan(Follow(c, b))
           /\ Follow(c, b) # <<>> => Head(Follow(c, b)).op = "missing"
<1> DEFINE q == Follow(c, b)
<1>1. Links[b] \in Seq(Ids) /\ Len(Links[b]) \in Nat /\ DOMAIN Links[b] = 1 .. Len(Links[b])
  BY NetworkAssumption, LenProperties DEF Ids
<1>2. q = [i \in 1 .. Len(Links[b]) |-> Task("missing", c, Links[b][i], Bound)]
  BY <1>1 DEF Follow, Linked
<1>3. ASSUME NEW i \in 1 .. Len(Links[b])
      PROVE  Task("missing", c, Links[b][i], Bound) \in Tasks
  <2>1. Links[b][i] \in Ids
    BY <1>1, ElementOfSeq
  <2> QED
    BY <2>1, BoundAssumption DEF Task, Tasks
<1>4. q \in Seq(Tasks) /\ Len(q) = Len(Links[b])
  <2>1. q \in [1 .. Len(Links[b]) -> Tasks]
    BY <1>2, <1>3
  <2> QED
    BY <1>1, <2>1, IsASeq, LenProperties
<1>5. \A i \in 1 .. Len(q) : q[i].op = "missing" /\ q[i].c = c
  BY <1>2, <1>4 DEF Task
<1>6. Plan(q)
  BY <1>4, <1>5 DEF Plan
<1>7. q # <<>> => Head(q).op = "missing"
  <2>1. q # <<>> => Len(q) >= 1 /\ Head(q) = q[1]
    BY <1>4, EmptySeq, HeadTailProperties, LenProperties
  <2> QED
    BY <1>5, <2>1, <1>4, <1>1
<1> QED
  BY <1>6, <1>7

\* A step that sends nobody to a queue and adds nothing to one keeps the room.
LEMMA Quiet ==
    ASSUME IInv, Shape',
           \A s \in Senders : \/ work'[s] = work[s]
                              \/ work'[s] = <<>>
                              \/ Head(work'[s]).op # "enqueue",
           \A c \in Clients : Len(pendingIds'[c]) <= Len(pendingIds[c])
    PROVE  Room'
<1>1. ASSUME NEW c \in Clients
      PROVE  Len(pendingIds'[c]) + Cardinality(Entering(c)') <= Bound - 1 + Cardinality(Senders)
  <2>1. Entering(c)' \subseteq Entering(c)
    BY DEF Entering
  <2>2. /\ IsFiniteSet(Entering(c))
        /\ Cardinality(Entering(c)) \in Nat
        /\ Cardinality(Senders) \in Nat
    BY SendersFinite
  <2>3. /\ Cardinality(Entering(c)') \in Nat
        /\ Cardinality(Entering(c)') <= Cardinality(Entering(c))
    BY <2>1, <2>2, FS_Subset, FS_CardinalityType
  <2>4. Len(pendingIds[c]) + Cardinality(Entering(c)) <= Bound - 1 + Cardinality(Senders)
    BY DEF IInv, Room
  <2>5. pendingIds[c] \in Seq(Ids) /\ pendingIds'[c] \in Seq(Ids)
    BY DEF IInv, Shape
  <2>6. Len(pendingIds[c]) \in Nat /\ Len(pendingIds'[c]) \in Nat
    BY <2>5, LenProperties
  <2>7. Len(pendingIds'[c]) <= Len(pendingIds[c])
    OBVIOUS
  <2> QED
    BY <2>2, <2>3, <2>4, <2>6, <2>7, BoundAssumption
<1> QED
  BY <1>1 DEF Room

\* The queue is within its bound in a state of the invariant.
LEMMA RoomIsEnough == IInv => QueueWithinBound
<1> SUFFICES ASSUME IInv, NEW c \in Clients
             PROVE  Len(pendingIds[c]) <= Bound - 1 + Cardinality(Senders)
  BY DEF QueueWithinBound
<1>1. Len(pendingIds[c]) \in Nat
  BY LenProperties DEF IInv, Shape
<1>2. Cardinality(Entering(c)) \in Nat /\ Cardinality(Senders) \in Nat
  BY SendersFinite
<1>3. Len(pendingIds[c]) + Cardinality(Entering(c)) <= Bound - 1 + Cardinality(Senders)
  BY DEF IInv, Room
<1> QED
  BY <1>1, <1>2, <1>3, BoundAssumption

\* At the start every queue holds the request for the tip, and nobody has other work.
LEMMA InitRoom == Init => IInv
<1> SUFFICES ASSUME Init PROVE IInv
  OBVIOUS
<1>1. \A s \in Senders : work[s] = <<>>
  BY DEF Init
<1>2. \A c \in Clients : pendingIds[c] = <<Zero>> /\ Len(pendingIds[c]) = 1
  BY DEF Init
<1>3. Shape
  <2>1. \A s \in Senders : Plan(work[s])
    BY <1>1, NoTask
  <2>2. /\ have = {} /\ cached = Cached
        /\ toPeer = [c \in Clients |-> <<Zero>>]
        /\ fromPeer = [c \in Clients |-> <<>>]
        /\ pendingIds = [c \in Clients |-> <<Zero>>]
        /\ DOMAIN banned = Clients
        /\ DOMAIN work = Senders
    BY DEF Init
  <2>3. <<Zero>> \in Seq(Ids) /\ <<>> \in Seq(Messages)
    BY DEF Ids
  <2> QED
    BY <2>1, <2>2, <2>3, NetworkAssumption DEF Shape
<1>4. ASSUME NEW c \in Clients
      PROVE  Len(pendingIds[c]) + Cardinality(Entering(c)) <= Bound - 1 + Cardinality(Senders)
  <2>1. Entering(c) = {}
    BY <1>1 DEF Entering
  <2>2. Cardinality(Entering(c)) = 0
    BY <2>1, FS_EmptySet
  <2>3. Cardinality(Senders) \in Nat \ {0}
    BY SendersFinite
  <2>4. Len(pendingIds[c]) = 1
    BY <1>2
  <2> QED
    BY <2>2, <2>3, <2>4, BoundAssumption
<1> QED
  BY <1>3, <1>4 DEF IInv, Room

\* The ids that announce a block.
LEMMA LinksOfLinks ==
    ASSUME NEW c \in Clients, NEW b \in Blocks
    PROVE  (IF Links[b][1] \in PeerHas[c]
            THEN Append(Links[b], Links[Links[b][1]][1]) ELSE Links[b]) \in Seq(Ids)
<1>1. \A d \in Blocks : Links[d] \in Seq(Ids) /\ Links[d] # <<>>
  BY NetworkAssumption DEF Ids
<1>2. \A d \in Blocks : Links[d][1] \in Ids
  BY <1>1, HeadTailProperties
<1>3. PeerHas[c] \subseteq Blocks
  BY NetworkAssumption
<1>4. CASE Links[b][1] \in PeerHas[c]
  <2>1. Links[Links[b][1]][1] \in Ids
    BY <1>2, <1>3, <1>4
  <2> QED
    BY <1>1, <1>4, <2>1, AppendProperties
<1>5. CASE Links[b][1] \notin PeerHas[c]
  BY <1>1, <1>5
<1> QED
  BY <1>4, <1>5

\* A block is announced by notifications.
LEMMA AnnouncedMessages ==
    ASSUME NEW c \in Clients, NEW b \in Blocks
    PROVE  /\ Announced(c, b) \in Seq(Messages)
           /\ \A i \in 1 .. Len(Announced(c, b)) : Announced(c, b)[i].type = "notify"
<1>1. PICK q \in Seq(Ids) : q = IF Links[b][1] \in PeerHas[c]
                              THEN Append(Links[b], Links[Links[b][1]][1]) ELSE Links[b]
  BY LinksOfLinks
<1>2. DOMAIN q = 1 .. Len(q) /\ Len(q) \in Nat
  BY LenProperties
<1>3. \A i \in 1 .. Len(q) : Notify(q[i]) \in Messages
  BY <1>2, ElementOfSeq DEF Notify, Messages
<1>4. [i \in DOMAIN q |-> Notify(q[i])] \in [1 .. Len(q) -> Messages]
  BY <1>2, <1>3
<1> DEFINE r == [i \in DOMAIN q |-> Notify(q[i])]
<1>5. r \in Seq(Messages) /\ Len(r) = Len(q)
  BY <1>2, <1>4
<1>6. \A i \in 1 .. Len(r) : r[i].type = "notify"
  BY <1>2, <1>5 DEF Notify
<1>7. Announced(c, b) = IF Notifies THEN r ELSE <<>>
  BY <1>1, Zenon DEF Announced
<1>8. <<>> \in Seq(Messages) /\ \A i \in 1 .. Len(<<>>) : <<>>[i].type = "notify"
  OBVIOUS
<1> HIDE DEF r
<1>9. CASE Notifies
  <2>1. Announced(c, b) = r
    BY <1>7, <1>9, Zenon
  <2> QED
    BY <1>5, <1>6, <2>1, Zenon
<1>10. CASE ~Notifies
  <2>1. Announced(c, b) = <<>>
    BY <1>7, <1>10, Zenon
  <2> QED
    BY <1>8, <2>1, Zenon
<1> QED
  BY <1>9, <1>10

\* The variables other than the work of the senders keep their shape.
Wires ==
    /\ have \subseteq Blocks
    /\ cached \subseteq Blocks
    /\ toPeer \in [Clients -> Seq(Ids)]
    /\ fromPeer \in [Clients -> Seq(Messages)]
    /\ pendingIds \in [Clients -> Seq(Ids)]
    /\ DOMAIN banned = Clients

\* The senders between the queue and the connection stay the same.
SameWriting == \A c \in Clients : Writing(c)' = Writing(c)

\* The work of a sender changes that was and is not between the queue and the connection.
LEMMA NobodyWrites ==
    ASSUME DOMAIN work = Senders, NEW s \in Senders, NEW q,
           work[s] = <<>> \/ Head(work[s]).op # "write",
           q = <<>> \/ Head(q).op # "write",
           work' = [work EXCEPT ![s] = q], banned' = banned
    PROVE  SameWriting
<1>1. \A r \in Senders : work'[r] = IF r = s THEN q ELSE work[r]
  OBVIOUS
<1> QED
  BY <1>1 DEF SameWriting, Writing

\* A sender gets new work that does not begin at the queue.
LEMMA ReplaceKeeps ==
    ASSUME IInv, Wires', NEW s \in Senders, NEW q, Plan(q),
           q = <<>> \/ Head(q).op \notin {"enqueue", "write"},
           work' = [work EXCEPT ![s] = q],
           \A c \in Clients : Len(pendingIds'[c]) <= Len(pendingIds[c])
    PROVE  /\ IInv'
           /\ work[s] = <<>> \/ Head(work[s]).op # "write"
                => (banned' = banned => SameWriting)
<1>1. Shape'
  BY DEF IInv, Shape, Wires
<1>2. \A r \in Senders : \/ work'[r] = work[r]
                         \/ work'[r] = <<>>
                         \/ Head(work'[r]).op # "enqueue"
  BY DEF IInv, Shape
<1>3. Room'
  BY <1>1, <1>2, Quiet
<1>4. work[s] = <<>> \/ Head(work[s]).op # "write" => (banned' = banned => SameWriting)
  BY NobodyWrites DEF IInv, Shape
<1> QED
  BY <1>1, <1>3, <1>4 DEF IInv

\* A sender goes on with tasks that do not begin at the queue.
LEMMA ContinueKeeps ==
    ASSUME IInv, Wires', NEW s \in Senders, NEW t, work[s] # <<>>, Plan(t),
           t = <<>> \/ Head(t).op \notin {"enqueue", "write"},
           Continue(s, t), pendingIds' = pendingIds
    PROVE  IInv' /\ (Head(work[s]).op # "write" /\ banned' = banned => SameWriting)
<1> DEFINE q == t \o Tail(work[s])
<1>1. Plan(work[s])
  BY DEF IInv, Shape
<1>2. Plan(q) /\ (q = <<>> \/ Head(q).op \notin {"enqueue", "write"})
  BY <1>1, ContinuePlan
<1>3. work' = [work EXCEPT ![s] = q]
  BY DEF Continue
<1>4. \A c \in Clients : Len(pendingIds'[c]) <= Len(pendingIds[c])
  BY LenProperties DEF IInv, Shape
<1> HIDE DEF q
<1> QED
  BY <1>2, <1>3, <1>4, ReplaceKeeps

---------------------------------------------------------------------------
(* One lemma per action.                                                   *)

\* The peer's answer is made of ids, and touches no queue of ours.
LEMMA AnswerKeeps ==
    ASSUME IInv, NEW c \in Clients, Answer(c)
    PROVE  IInv' /\ SameWriting
<1> DEFINE b == IF Head(toPeer[c]) = Zero THEN PeerTip[c] ELSE Head(toPeer[c])
<1>1. UNCHANGED <<have, cached, pendingIds, banned, work>>
  BY DEF Answer
<1>2. toPeer[c] \in Seq(Ids) /\ toPeer[c] # <<>>
  BY DEF IInv, Shape, Answer
<1>3. toPeer' \in [Clients -> Seq(Ids)]
  <2>1. Tail(toPeer[c]) \in Seq(Ids)
    BY <1>2, HeadTailProperties
  <2> QED
    BY <2>1 DEF IInv, Shape, Answer
<1>4. fromPeer' \in [Clients -> Seq(Messages)]
  <2> DEFINE answer == IF b \in PeerHas[c] THEN Append(Announced(c, b), Response(b))
                                           ELSE <<Response(Zero)>>
  <2>1. \A i \in Ids : Response(i) \in Messages
    BY DEF Response, Messages
  <2>2. answer \in Seq(Messages)
    <3>1. CASE b \notin PeerHas[c]
      BY <3>1, <2>1 DEF Ids
    <3>2. CASE b \in PeerHas[c]
      <4>1. b \in Blocks
        BY <3>2, NetworkAssumption
      <4>2. Announced(c, b) \in Seq(Messages) /\ Response(b) \in Messages
        BY <4>1, <2>1, AnnouncedMessages DEF Ids
      <4> QED
        BY <3>2, <4>2, AppendProperties
    <3> QED
      BY <3>1, <3>2
  <2>3. fromPeer' = [fromPeer EXCEPT ![c] = @ \o answer]
    BY DEF Answer
  <2>4. fromPeer[c] \o answer \in Seq(Messages)
    BY <2>2, ConcatProperties DEF IInv, Shape
  <2> QED
    BY <2>3, <2>4 DEF IInv, Shape
<1>5. Shape'
  BY <1>1, <1>3, <1>4 DEF IInv, Shape
<1>6. \A d \in Clients : Len(pendingIds'[d]) <= Len(pendingIds[d])
  BY <1>1, LenProperties DEF IInv, Shape
<1>7. Room'
  BY <1>1, <1>5, <1>6, Quiet
<1>8. SameWriting
  BY DEF Answer, SameWriting, Writing
<1> QED
  BY <1>5, <1>7, <1>8 DEF IInv

\* BLOCK_NOTIFY leaves the reader with at most a check to do.
LEMMA ReadNotifyKeeps ==
    ASSUME IInv, NEW c \in Clients, ReadNotify(c)
    PROVE  IInv' /\ SameWriting
<1> DEFINE t == Task("check", c, Head(fromPeer[c]).id, NotifyBound)
           q == IF Head(fromPeer[c]).id \in have THEN <<>> ELSE <<t>>
<1>1. fromPeer[c] \in Seq(Messages) /\ fromPeer[c] # <<>>
  BY DEF IInv, Shape, ReadNotify, Receives
<1>2. Head(fromPeer[c]) \in Messages /\ Tail(fromPeer[c]) \in Seq(Messages)
  BY <1>1, HeadTailProperties
<1>3. Wires'
  BY <1>2 DEF IInv, Shape, Wires, ReadNotify, Receives
<1>4. t \in Tasks /\ t.op = "check" /\ t.c = c
  BY <1>2, BoundAssumption DEF Messages, Task, Tasks
<1>5. Plan(<<t>>) /\ Head(<<t>>).op \notin {"enqueue", "write"}
  BY <1>4, OneTask
<1>6. Plan(q) /\ (q = <<>> \/ Head(q).op \notin {"enqueue", "write"})
  BY <1>5, NoTask
<1>7. work' = [work EXCEPT ![c] = q]
  BY DEF ReadNotify
<1>8. \A d \in Clients : Len(pendingIds'[d]) <= Len(pendingIds[d])
  BY LenProperties DEF IInv, Shape, ReadNotify
<1>9. c \in Senders /\ work[c] = <<>> /\ banned' = banned
  BY DEF Senders, ReadNotify, Receives
<1> HIDE DEF q
<1> QED
  BY <1>3, <1>6, <1>7, <1>8, <1>9, ReplaceKeeps

\* BLOCK_RESPONSE takes an id from the queue and leaves the reader with the missing blocks.
LEMMA ReadResponseKeeps ==
    ASSUME IInv, NEW c \in Clients, ReadResponse(c)
    PROVE  IInv' /\ SameWriting
<1> DEFINE b == Head(fromPeer[c]).id
<1>1. fromPeer[c] \in Seq(Messages) /\ fromPeer[c] # <<>>
  BY DEF IInv, Shape, ReadResponse, Receives
<1>2. Head(fromPeer[c]) \in Messages /\ Tail(fromPeer[c]) \in Seq(Messages) /\ b \in Ids
  <2>1. Head(fromPeer[c]) \in Messages /\ Tail(fromPeer[c]) \in Seq(Messages)
    BY <1>1, HeadTailProperties
  <2>2. b \in Ids
    BY <2>1 DEF Messages
  <2> QED
    BY <2>1, <2>2
<1>3. fromPeer' \in [Clients -> Seq(Messages)] /\ UNCHANGED <<cached, toPeer>>
  BY <1>2 DEF IInv, Shape, ReadResponse, Receives
<1>4. pendingIds[c] # <<>> => /\ Tail(pendingIds[c]) \in Seq(Ids)
                             /\ Len(Tail(pendingIds[c])) = Len(pendingIds[c]) - 1
  BY HeadTailProperties DEF IInv, Shape
<1>5. \/ pendingIds' = pendingIds
      \/ pendingIds[c] # <<>> /\ pendingIds' = [pendingIds EXCEPT ![c] = Tail(@)]
  BY DEF ReadResponse
<1>6. /\ pendingIds' \in [Clients -> Seq(Ids)]
      /\ \A d \in Clients : Len(pendingIds'[d]) <= Len(pendingIds[d])
  <2>1. pendingIds \in [Clients -> Seq(Ids)]
    BY DEF IInv, Shape
  <2>2. \A d \in Clients : Len(pendingIds[d]) \in Nat
    BY <2>1, LenProperties
  <2>3. CASE pendingIds' = pendingIds
    BY <2>1, <2>2, <2>3
  <2>4. CASE pendingIds[c] # <<>> /\ pendingIds' = [pendingIds EXCEPT ![c] = Tail(@)]
    <3>1. pendingIds' \in [Clients -> Seq(Ids)]
      BY <1>4, <2>1, <2>4
    <3>2. ASSUME NEW d \in Clients PROVE Len(pendingIds'[d]) <= Len(pendingIds[d])
      <4>1. CASE d = c
        <5>1. pendingIds'[d] = Tail(pendingIds[c])
          BY <2>1, <2>4, <4>1
        <5> QED
          BY <1>4, <2>2, <2>4, <4>1, <5>1
      <4>2. CASE d # c
        <5>1. pendingIds'[d] = pendingIds[d]
          BY <2>1, <2>4, <4>2
        <5> QED
          BY <2>2, <5>1
      <4> QED
        BY <4>1, <4>2
    <3> QED
      BY <3>1, <3>2
  <2> QED
    BY <1>5, <2>3, <2>4
<1>7. have' = have \/ (b \in Blocks /\ have' = have \cup {b})
  BY <1>2 DEF ReadResponse, Ids
<1>8. Wires'
  <2>1. DOMAIN banned' = Clients
    BY DEF IInv, Shape, ReadResponse, Banned
  <2> QED
    BY <1>3, <1>6, <1>7, <2>1 DEF IInv, Shape, Wires
<1>9. \/ work' = work /\ (banned' = banned \/ \E why : banned' = [banned EXCEPT ![c] = why])
      \/ banned' = banned /\ work' = [work EXCEPT ![c] = <<>>]
      \/ b \in Blocks /\ banned' = banned /\ work' = [work EXCEPT ![c] = Follow(c, b)]
  BY <1>2 DEF ReadResponse, Banned, Ids
<1>10. c \in Senders /\ work[c] = <<>>
  BY DEF Senders, ReadResponse, Receives
<1>11. CASE work' = work /\ (banned' = banned \/ \E why : banned' = [banned EXCEPT ![c] = why])
  <2>1. Shape'
    BY <1>8, <1>11 DEF IInv, Shape, Wires
  <2>2. Room'
    BY <1>6, <1>11, <2>1, Quiet
  <2>3. SameWriting
    <3>1. \A r \in Clients : r # c => banned'[r] = banned[r]
      BY <1>11 DEF IInv, Shape
    <3> QED
      BY <1>10, <1>11, <3>1 DEF SameWriting, Writing
  <2> QED
    BY <2>1, <2>2, <2>3 DEF IInv
<1>12. CASE banned' = banned /\ work' = [work EXCEPT ![c] = <<>>]
  BY <1>6, <1>8, <1>10, <1>12, NoTask, ReplaceKeeps
<1>13. CASE b \in Blocks /\ banned' = banned /\ work' = [work EXCEPT ![c] = Follow(c, b)]
  <2>1. /\ Plan(Follow(c, b))
        /\ Follow(c, b) = <<>> \/ Head(Follow(c, b)).op \notin {"enqueue", "write"}
    BY <1>13, FollowPlan
  <2> QED
    BY <1>6, <1>8, <1>10, <1>13, <2>1, ReplaceKeeps
<1> QED
  BY <1>9, <1>11, <1>12, <1>13

\* SendMissingBlockRequest goes on with a check, with more missing blocks or with the rest.
LEMMA SendMissingKeeps ==
    ASSUME IInv, NEW s \in Senders, SendMissingBlockRequest(s)
    PROVE  IInv' /\ SameWriting
<1> DEFINE c == Head(work[s]).c
           h == Head(work[s]).h
           check == Task("check", c, h, Bound)
<1>1. work[s] # <<>> /\ Head(work[s]).op = "missing" /\ Plan(work[s])
  BY DEF IInv, Shape, SendMissingBlockRequest, Does
<1>2. Head(work[s]) \in Tasks /\ c \in Clients
  BY <1>1, FirstTask
<1>3. h \in Ids
  BY <1>2 DEF Tasks
<1>4. UNCHANGED <<cached, pendingIds, toPeer, fromPeer, banned>>
  BY DEF SendMissingBlockRequest
<1>5. have' = have \/ (h \in cached /\ have' = have \cup {h})
  BY DEF SendMissingBlockRequest
<1>6. Wires'
  BY <1>4, <1>5 DEF IInv, Shape, Wires
<1>7. \/ Continue(s, <<>>)
      \/ h \in cached /\ Continue(s, Follow(c, h))
      \/ Continue(s, <<check>>)
      \/ \E f \in Clients : Continue(s, <<Task("missing", f, h, Bound), check>>)
  <2>1. \/ Continue(s, <<>>)
        \/ h \in cached /\ Continue(s, Follow(c, h))
        \/ \E fastest \in {d \in Clients : banned[d] = "no"} \cup {c} :
              Continue(s, IF preCalc \/ fastest = c THEN <<check>>
                          ELSE <<Task("missing", fastest, h, Bound), check>>)
    BY Zenon DEF SendMissingBlockRequest
  <2>2. ASSUME NEW f \in {d \in Clients : banned[d] = "no"} \cup {c},
               Continue(s, IF preCalc \/ f = c THEN <<check>>
                           ELSE <<Task("missing", f, h, Bound), check>>)
        PROVE  \/ Continue(s, <<check>>)
               \/ \E g \in Clients : Continue(s, <<Task("missing", g, h, Bound), check>>)
    <3>1. f \in Clients
      BY <1>2
    <3>2. CASE preCalc \/ f = c
      BY <2>2, <3>2, Zenon
    <3>3. CASE ~(preCalc \/ f = c)
      <4>1. Continue(s, <<Task("missing", f, h, Bound), check>>)
        BY <2>2, <3>3, Zenon
      <4> QED
        BY <3>1, <4>1, Zenon
    <3> QED
      BY <3>2, <3>3
  <2> QED
    BY <2>1, <2>2, Zenon
<1>8. check \in Tasks /\ check.op = "check" /\ check.c = c
  BY <1>2, <1>3, BoundAssumption DEF Task, Tasks
<1>9. CASE Continue(s, <<>>)
  BY <1>1, <1>4, <1>6, <1>9, NoTask, ContinueKeeps
<1>10. CASE h \in cached /\ Continue(s, Follow(c, h))
  <2>1. h \in Blocks
    BY <1>10 DEF IInv, Shape
  <2>2. Plan(Follow(c, h)) /\ (Follow(c, h) = <<>> \/ Head(Follow(c, h)).op \notin {"enqueue", "write"})
    BY <1>2, <2>1, FollowPlan
  <2> QED
    BY <1>1, <1>4, <1>6, <1>10, <2>2, ContinueKeeps
<1>11. CASE Continue(s, <<check>>)
  <2>1. Plan(<<check>>) /\ Head(<<check>>).op \notin {"enqueue", "write"}
    BY <1>2, <1>8, OneTask
  <2> HIDE DEF check
  <2> QED
    BY <1>1, <1>4, <1>6, <1>11, <2>1, ContinueKeeps
<1>12. CASE \E f \in Clients : Continue(s, <<Task("missing", f, h, Bound), check>>)
  <2>1. PICK f \in Clients : Continue(s, <<Task("missing", f, h, Bound), check>>)
    BY <1>12
  <2> DEFINE more == Task("missing", f, h, Bound)
  <2>2. more \in Tasks /\ more.op = "missing" /\ more.c = f
    BY <1>3, BoundAssumption DEF Task, Tasks
  <2>3. Plan(<<more, check>>) /\ Head(<<more, check>>).op \notin {"enqueue", "write"}
    BY <1>2, <1>8, <2>2, TwoTasks
  <2>4. Continue(s, <<more, check>>)
    BY <2>1
  <2> HIDE DEF more, check
  <2> QED
    BY <1>1, <1>4, <1>6, <2>3, <2>4, ContinueKeeps
<1> QED
  BY <1>7, <1>9, <1>10, <1>11, <1>12

\* DownloadMissingBlocks starts with a list of blocks to ask for.
LEMMA DownloadKeeps ==
    ASSUME IInv, DownloadMissingBlocks
    PROVE  IInv' /\ SameWriting
<1> DEFINE S == UNION {Range(Linked(b)) : b \in have} \ (have \cup {Zero})
<1>1. S \subseteq Ids
  <2>1. ASSUME NEW b \in have PROVE Range(Linked(b)) \subseteq Ids
    <3>1. Links[b] \in Seq(Ids)
      BY NetworkAssumption DEF IInv, Shape, Ids
    <3> QED
      BY <3>1, ElementOfSeq, LenProperties DEF Range, Linked
  <2> QED
    BY <2>1
<1>2. IsFiniteSet(S)
  <2>1. IsFiniteSet(Ids)
    BY NetworkAssumption, FS_AddElement DEF Ids
  <2> QED
    BY <1>1, <2>1, FS_Subset
<1>3. PICK missing \in Bijection(1 .. Cardinality(S), S) :
        work' = [work EXCEPT ![Downloader] =
                   [i \in DOMAIN missing |-> Task("unique", Downloader, missing[i], Bound)]]
  BY DEF DownloadMissingBlocks
<1> HIDE DEF S
<1>4. Cardinality(S) \in Nat
  BY <1>2, FS_CardinalityType
<1>5. missing \in [1 .. Cardinality(S) -> S]
  BY DEF Bijection, Injection
<1> DEFINE q == [i \in 1 .. Cardinality(S) |-> Task("unique", Downloader, missing[i], Bound)]
<1>6. ASSUME NEW i \in 1 .. Cardinality(S)
      PROVE  Task("unique", Downloader, missing[i], Bound) \in Tasks
  BY <1>1, <1>5, BoundAssumption DEF Task, Tasks
<1>7. q \in Seq(Tasks) /\ Len(q) = Cardinality(S)
  <2>1. q \in [1 .. Cardinality(S) -> Tasks]
    BY <1>6
  <2> QED
    BY <1>4, <2>1
<1>8. \A i \in 1 .. Len(q) : q[i].op = "unique"
  BY <1>7 DEF Task
<1>9. Plan(q)
  BY <1>7, <1>8 DEF Plan
<1>10. q = <<>> \/ Head(q).op \notin {"enqueue", "write"}
  <2>1. \A r \in Seq(Tasks) : r # <<>> => Head(r) = r[1] /\ 1 \in 1 .. Len(r)
    BY HeadTailProperties, LenProperties, EmptySeq
  <2> HIDE DEF q
  <2> QED
    BY <1>7, <1>8, <2>1
<1>11. work' = [work EXCEPT ![Downloader] = q]
  BY <1>3, <1>5
<1>12. Wires' /\ Downloader \in Senders /\ work[Downloader] = <<>> /\ banned' = banned
  BY DEF IInv, Shape, Wires, DownloadMissingBlocks, Senders
<1>13. \A d \in Clients : Len(pendingIds'[d]) <= Len(pendingIds[d])
  BY LenProperties DEF IInv, Shape, DownloadMissingBlocks
<1> HIDE DEF q
<1> QED
  BY <1>9, <1>10, <1>11, <1>12, <1>13, ReplaceKeeps

\* SendUniqueBlockRequest goes on with a check or with the rest.
LEMMA SendUniqueKeeps ==
    ASSUME IInv, SendUniqueBlockRequest
    PROVE  IInv' /\ SameWriting
<1> DEFINE s == Downloader
           h == Head(work[s]).h
<1>1. s \in Senders /\ work[s] # <<>> /\ Head(work[s]).op = "unique" /\ Plan(work[s])
  BY DEF IInv, Shape, SendUniqueBlockRequest, Does, Senders
<1>2. h \in Ids
  BY <1>1, FirstTask DEF Tasks
<1>3. UNCHANGED <<cached, pendingIds, toPeer, fromPeer, banned>>
  BY DEF SendUniqueBlockRequest
<1>4. have' = have \/ (h \in cached /\ have' = have \cup {h})
  BY DEF SendUniqueBlockRequest
<1>5. Wires'
  BY <1>3, <1>4 DEF IInv, Shape, Wires
<1>6. Continue(s, <<>>) \/ \E c \in Clients : Continue(s, <<Task("check", c, h, Bound)>>)
  BY Zenon DEF SendUniqueBlockRequest
<1>7. CASE Continue(s, <<>>)
  BY <1>1, <1>3, <1>5, <1>7, NoTask, ContinueKeeps
<1>8. CASE \E c \in Clients : Continue(s, <<Task("check", c, h, Bound)>>)
  <2>1. PICK c \in Clients : Continue(s, <<Task("check", c, h, Bound)>>)
    BY <1>8
  <2> DEFINE check == Task("check", c, h, Bound)
  <2>2. check \in Tasks /\ check.op = "check" /\ check.c = c
    BY <1>2, BoundAssumption DEF Task, Tasks
  <2>3. Plan(<<check>>) /\ Head(<<check>>).op \notin {"enqueue", "write"}
    BY <2>2, OneTask
  <2>4. Continue(s, <<check>>)
    BY <2>1
  <2> HIDE DEF check
  <2> QED
    BY <1>1, <1>3, <1>5, <2>3, <2>4, ContinueKeeps
<1> QED
  BY <1>6, <1>7, <1>8

\* Writing the request ends a task.
LEMMA WriteKeeps ==
    ASSUME IInv, NEW s \in Senders, Write(s)
    PROVE  /\ IInv'
           /\ s \in Writing(Head(work[s]).c)
           /\ \A c \in Clients :
                 Writing(c)' = IF c = Head(work[s]).c THEN Writing(c) \ {s} ELSE Writing(c)
<1>1. work[s] # <<>> /\ Head(work[s]).op = "write" /\ Plan(work[s])
  BY DEF IInv, Shape, Write, Does
<1>2. Head(work[s]) \in Tasks /\ Head(work[s]).c \in Clients
  BY <1>1, FirstTask
<1>3. Head(work[s]).h \in Ids
  BY <1>2 DEF Tasks
<1>4. toPeer \in [Clients -> Seq(Ids)]
  BY DEF IInv, Shape
<1>5. \A c \in Clients : Append(toPeer[c], Head(work[s]).h) \in Seq(Ids)
  BY <1>3, <1>4, AppendProperties
<1>6. toPeer' \in [Clients -> Seq(Ids)]
  BY <1>2, <1>4, <1>5 DEF Write
<1>7. UNCHANGED <<have, cached, pendingIds, fromPeer, banned>> /\ Continue(s, <<>>)
  BY DEF Write
<1>8. Wires'
  BY <1>6, <1>7 DEF IInv, Shape, Wires
<1>9. IInv'
  BY <1>1, <1>7, <1>8, NoTask, ContinueKeeps
<1> DEFINE q == <<>> \o Tail(work[s])
<1>10. q = <<>> \/ Head(q).op \notin {"enqueue", "write"}
  BY <1>1, NoTask, ContinuePlan
<1>11. work' = [work EXCEPT ![s] = q]
  BY <1>7 DEF Continue
<1> HIDE DEF q
<1>12. \A r \in Senders : work'[r] = IF r = s THEN q ELSE work[r]
  BY <1>11 DEF IInv, Shape
<1>13. s \in Writing(Head(work[s]).c)
  BY <1>1 DEF Writing, Write, Does
<1>14. \A c \in Clients :
         Writing(c)' = IF c = Head(work[s]).c THEN Writing(c) \ {s} ELSE Writing(c)
  BY <1>1, <1>7, <1>10, <1>12 DEF Writing
<1> QED
  BY <1>9, <1>13, <1>14

\* A sender that passes the check finds fewer entries than the bound, and there are no more
\* senders than there are.
LEMMA CheckBoundKeeps ==
    ASSUME IInv, NEW s \in Senders, CheckBound(s)
    PROVE  IInv' /\ SameWriting
<1> DEFINE t == Head(work[s])
           u == [t EXCEPT !.op = "enqueue"]
<1>1. work[s] # <<>> /\ t.op = "check" /\ Plan(work[s])
  BY DEF IInv, Shape, CheckBound, Does
<1>2. t \in Tasks /\ t.c \in Clients
  BY <1>1, FirstTask
<1>3. UNCHANGED <<have, cached, pendingIds, toPeer, fromPeer, banned>>
  BY DEF CheckBound
<1>4. Wires'
  BY <1>3 DEF IInv, Shape, Wires
<1>5. \/ Continue(s, <<>>)
      \/ Len(pendingIds[t.c]) < t.bound /\ Continue(s, <<u>>)
  BY Zenon DEF CheckBound
<1>6. CASE Continue(s, <<>>)
  BY <1>1, <1>3, <1>4, <1>6, NoTask, ContinueKeeps
<1>7. CASE Len(pendingIds[t.c]) < t.bound /\ Continue(s, <<u>>)
  <2>1. u \in Tasks /\ u.op = "enqueue" /\ u.c = t.c
    BY <1>2 DEF Tasks
  <2>2. Plan(<<u>>) /\ <<u>> # <<>> /\ Head(<<u>>) = u
    BY <1>2, <2>1, OneTask
  <2> DEFINE q == <<u>> \o Tail(work[s])
  <2>3. Plan(q) /\ q # <<>> /\ Head(q) = u
    BY <1>1, <2>2, ContinuePlan
  <2>4. work' = [work EXCEPT ![s] = q]
    BY <1>7 DEF Continue
  <2> HIDE DEF q, u
  <2>5. Shape'
    BY <1>4, <2>3, <2>4 DEF IInv, Shape, Wires
  <2>6. ASSUME NEW c \in Clients
        PROVE  Len(pendingIds'[c]) + Cardinality(Entering(c)') <= Bound - 1 + Cardinality(Senders)
    <3>1. /\ IsFiniteSet(Senders)
          /\ Cardinality(Senders) \in Nat
          /\ IsFiniteSet(Entering(c))
          /\ Cardinality(Entering(c)) \in Nat
      BY SendersFinite
    <3>2. Len(pendingIds[c]) \in Nat /\ pendingIds'[c] = pendingIds[c]
      BY <1>3, LenProperties DEF IInv, Shape
    <3>3. CASE c = t.c
      <4>1. Entering(c)' \subseteq Senders
        BY DEF Entering
      <4>2. Cardinality(Entering(c)') \in Nat /\ Cardinality(Entering(c)') <= Cardinality(Senders)
        BY <3>1, <4>1, FS_Subset, FS_CardinalityType
      <4>3. t.bound \in 1 .. Bound
        BY <1>2 DEF Tasks
      <4>4. Len(pendingIds[c]) < t.bound
        BY <1>7, <3>3
      <4> QED
        BY <3>1, <3>2, <4>2, <4>3, <4>4, BoundAssumption
    <3>4. CASE c # t.c
      <4>1. Entering(c)' \subseteq Entering(c)
        BY <2>1, <2>3, <2>4, <3>4 DEF Entering, IInv, Shape
      <4>2. /\ Cardinality(Entering(c)') \in Nat
            /\ Cardinality(Entering(c)') <= Cardinality(Entering(c))
        BY <3>1, <4>1, FS_Subset, FS_CardinalityType
      <4>3. Len(pendingIds[c]) + Cardinality(Entering(c)) <= Bound - 1 + Cardinality(Senders)
        BY DEF IInv, Room
      <4> QED
        BY <3>1, <3>2, <4>2, <4>3, BoundAssumption
    <3> QED
      BY <3>3, <3>4
  <2>7. SameWriting
    BY <1>1, <1>3, <2>1, <2>3, <2>4, NobodyWrites DEF IInv, Shape
  <2> QED
    BY <2>5, <2>6, <2>7 DEF IInv, Room
<1> QED
  BY <1>5, <1>6, <1>7

\* A sender that puts its id in the queue is no longer about to.
LEMMA EnqueueKeeps ==
    ASSUME IInv, NEW s \in Senders, Enqueue(s)
    PROVE  /\ IInv'
           /\ s \notin Writing(Head(work[s]).c)
           /\ \A c \in Clients :
                 Writing(c)' = IF c = Head(work[s]).c THEN Writing(c) \cup {s} ELSE Writing(c)
<1> DEFINE t == Head(work[s])
           u == [t EXCEPT !.op = "write"]
<1>1. work[s] # <<>> /\ t.op = "enqueue" /\ Plan(work[s])
  BY DEF IInv, Shape, Enqueue, Does
<1>2. t \in Tasks /\ t.c \in Clients
  BY <1>1, FirstTask
<1>3. /\ UNCHANGED <<have, cached, toPeer, fromPeer, banned>>
      /\ pendingIds' = [pendingIds EXCEPT ![t.c] = Append(@, t.h)]
      /\ Continue(s, <<u>>)
  BY DEF Enqueue
<1>4. pendingIds \in [Clients -> Seq(Ids)] /\ t.h \in Ids
  BY <1>2 DEF IInv, Shape, Tasks
<1>5. /\ Append(pendingIds[t.c], t.h) \in Seq(Ids)
      /\ Len(Append(pendingIds[t.c], t.h)) = Len(pendingIds[t.c]) + 1
  BY <1>2, <1>4, AppendProperties
<1>6. Wires'
  BY <1>3, <1>4, <1>5 DEF IInv, Shape, Wires
<1>7. u \in Tasks /\ u.op = "write" /\ u.c = t.c
  BY <1>2 DEF Tasks
<1>8. Plan(<<u>>) /\ <<u>> # <<>> /\ Head(<<u>>) = u
  BY <1>2, <1>7, OneTask
<1> DEFINE q == <<u>> \o Tail(work[s])
<1>9. Plan(q) /\ q # <<>> /\ Head(q) = u
  BY <1>1, <1>7, <1>8, ContinuePlan
<1>10. work' = [work EXCEPT ![s] = q]
  BY <1>3 DEF Continue
<1> HIDE DEF q, u
<1>11. Shape'
  BY <1>6, <1>9, <1>10 DEF IInv, Shape, Wires
<1>12. DOMAIN work = Senders
  BY DEF IInv, Shape
<1>13. ASSUME NEW c \in Clients
       PROVE  Len(pendingIds'[c]) + Cardinality(Entering(c)') <= Bound - 1 + Cardinality(Senders)
  <2>1. /\ Cardinality(Senders) \in Nat
        /\ IsFiniteSet(Entering(c))
        /\ Cardinality(Entering(c)) \in Nat
    BY SendersFinite
  <2>2. Len(pendingIds[c]) \in Nat
    BY <1>4, LenProperties
  <2>3. Len(pendingIds[c]) + Cardinality(Entering(c)) <= Bound - 1 + Cardinality(Senders)
    BY DEF IInv, Room
  <2>4. CASE c = t.c
    <3>1. s \in Entering(c)
      BY <1>1, <2>4 DEF Entering
    <3>2. Entering(c)' = Entering(c) \ {s}
      BY <1>7, <1>9, <1>10, <1>12 DEF Entering
    <3>3. Cardinality(Entering(c)') = Cardinality(Entering(c)) - 1
      BY <2>1, <3>1, <3>2, FS_RemoveElement
    <3>4. Len(pendingIds'[c]) = Len(pendingIds[c]) + 1
      BY <1>3, <1>4, <1>5, <2>4
    <3> QED
      BY <2>1, <2>2, <2>3, <3>3, <3>4, BoundAssumption
  <2>5. CASE c # t.c
    <3>1. Entering(c)' \subseteq Entering(c)
      BY <1>7, <1>9, <1>10, <1>12 DEF Entering
    <3>2. /\ Cardinality(Entering(c)') \in Nat
          /\ Cardinality(Entering(c)') <= Cardinality(Entering(c))
      BY <2>1, <3>1, FS_Subset, FS_CardinalityType
    <3>3. pendingIds'[c] = pendingIds[c]
      BY <1>3, <1>4, <2>5
    <3> QED
      BY <2>1, <2>2, <2>3, <3>2, <3>3, BoundAssumption
  <2> QED
    BY <2>4, <2>5
<1>14. \A r \in Senders : work'[r] = IF r = s THEN q ELSE work[r]
  BY <1>10, <1>12
<1>15. s \in Clients => banned[s] = "no"
  BY DEF Enqueue, Does
<1>16. s \notin Writing(t.c)
  BY <1>1 DEF Writing
<1>17. \A c \in Clients : Writing(c)' = IF c = t.c THEN Writing(c) \cup {s} ELSE Writing(c)
  BY <1>1, <1>3, <1>7, <1>9, <1>14, <1>15 DEF Writing
<1> QED
  BY <1>11, <1>13, <1>16, <1>17 DEF IInv, Room

\* The other steps touch neither the queues nor the work.
LEMMA IdleKeeps ==
    ASSUME IInv, PreCalcFinishes \/ ClearCachedBlocks \/ UNCHANGED vars
    PROVE  IInv' /\ SameWriting
<1>1. UNCHANGED <<have, pendingIds, toPeer, fromPeer, banned, work>> /\ cached' \subseteq cached
  BY DEF PreCalcFinishes, ClearCachedBlocks, vars
<1>2. Shape'
  BY <1>1 DEF IInv, Shape
<1>3. \A c \in Clients : Len(pendingIds'[c]) <= Len(pendingIds[c])
  BY <1>1, LenProperties DEF IInv, Shape
<1>4. Room'
  BY <1>1, <1>2, <1>3, Quiet
<1>5. SameWriting
  BY <1>1 DEF SameWriting, Writing
<1> QED
  BY <1>2, <1>4, <1>5 DEF IInv

---------------------------------------------------------------------------
(* Requests and answers.                                                   *)

\* The places of the responses in a list of messages.
Replies(q) == {i \in 1 .. Len(q) : q[i].type = "response"}

\* A list has finitely many responses.
LEMMA RepliesFinite ==
    ASSUME NEW q \in Seq(Messages)
    PROVE  IsFiniteSet(Replies(q)) /\ Cardinality(Replies(q)) \in Nat
<1>1. Len(q) \in Nat
  BY LenProperties
<1>2. IsFiniteSet(1 .. Len(q))
  BY <1>1, FS_Interval
<1>3. Replies(q) \subseteq 1 .. Len(q)
  BY DEF Replies
<1> QED
  BY <1>2, <1>3, FS_Subset, FS_CardinalityType

\* Reading a message takes at most one response off the list.
LEMMA RepliesOfTail ==
    ASSUME NEW q \in Seq(Messages), q # <<>>
    PROVE  Cardinality(Replies(Tail(q))) =
             IF Head(q).type = "response" THEN Cardinality(Replies(q)) - 1
                                          ELSE Cardinality(Replies(q))
<1>1. /\ Tail(q) \in Seq(Messages)
      /\ Head(q) = q[1]
      /\ Len(Tail(q)) = Len(q) - 1
      /\ \A i \in 1 .. Len(Tail(q)) : Tail(q)[i] = q[i + 1]
  BY HeadTailProperties
<1>2. Len(q) \in Nat /\ Len(q) >= 1
  BY LenProperties, EmptySeq
<1> DEFINE S == Replies(Tail(q))
           T == Replies(q) \ {1}
           f == [i \in S |-> i + 1]
<1>3. ExistsBijection(S, T)
  <2>1. \A i \in S : i \in Nat /\ i + 1 \in T
    BY <1>1, <1>2 DEF Replies
  <2>2. \A j \in T : j - 1 \in S /\ (j - 1) + 1 = j
    BY <1>1, <1>2 DEF Replies
  <2> HIDE DEF S, T
  <2>3. f \in [S -> T]
    BY <2>1
  <2>4. \A i, j \in S : f[i] = f[j] => i = j
    BY <2>1
  <2>5. \A j \in T : \E i \in S : f[i] = j
    <3> SUFFICES ASSUME NEW j \in T PROVE f[j - 1] = j /\ j - 1 \in S
      OBVIOUS
    <3> QED
      BY <2>2
  <2>6. f \in Bijection(S, T)
    BY <2>3, <2>4, <2>5, Zenon DEF Bijection, Injection, Surjection, IsInjective
  <2> QED
    BY <2>6, Zenon DEF ExistsBijection
<1>4. IsFiniteSet(S) /\ IsFiniteSet(Replies(q)) /\ Cardinality(Replies(q)) \in Nat
  BY <1>1, RepliesFinite
<1>5. Cardinality(T) = Cardinality(S)
  <2> HIDE DEF S, T
  <2> QED
    BY <1>3, <1>4, FS_Bijection
<1>6. CASE Head(q).type = "response"
  <2>1. 1 \in Replies(q)
    BY <1>1, <1>2, <1>6 DEF Replies
  <2>2. Cardinality(T) = Cardinality(Replies(q)) - 1
    BY <1>4, <2>1, FS_RemoveElement
  <2> QED
    BY <1>5, <1>6, <2>2
<1>7. CASE Head(q).type # "response"
  <2>1. T = Replies(q)
    BY <1>1, <1>7 DEF Replies
  <2> QED
    BY <1>5, <1>7, <2>1
<1> QED
  BY <1>6, <1>7

\* An answer ends with its only response.
LEMMA RepliesOfAnswer ==
    ASSUME NEW q \in Seq(Messages), NEW a \in Seq(Messages), NEW m \in Messages,
           \A i \in 1 .. Len(a) : a[i].type = "notify", m.type = "response"
    PROVE  Cardinality(Replies(q \o Append(a, m))) = Cardinality(Replies(q)) + 1
<1> DEFINE b == Append(a, m)
           r == q \o b
           n == Len(q) + Len(a) + 1
<1>1. Len(q) \in Nat /\ Len(a) \in Nat
  BY LenProperties
<1>2. /\ b \in Seq(Messages)
      /\ Len(b) = Len(a) + 1
      /\ \A i \in 1 .. Len(a) : b[i] = a[i]
      /\ b[Len(a) + 1] = m
  BY AppendProperties
<1> HIDE DEF b
<1>3. /\ Len(r) = Len(q) + Len(b)
      /\ \A i \in 1 .. Len(r) : r[i] = IF i <= Len(q) THEN q[i] ELSE b[i - Len(q)]
  <2>1. b \in Seq(Messages) /\ q \in Seq(Messages)
    BY <1>2
  <2> QED
    BY <2>1, ConcatProperties
<1> HIDE DEF r
<1>4. Replies(r) = Replies(q) \cup {n}
  <2>1. ASSUME NEW i \in 1 .. Len(r)
        PROVE  r[i].type = "response" <=> i \in Replies(q) \/ i = n
    <3>1. CASE i <= Len(q)
      BY <1>1, <1>3, <3>1 DEF Replies
    <3>2. CASE i > Len(q) /\ i < n
      <4>1. i - Len(q) \in 1 .. Len(a) /\ r[i] = b[i - Len(q)]
        BY <1>1, <1>3, <3>2
      <4>2. r[i].type = "notify"
        BY <1>2, <4>1
      <4> QED
        BY <1>1, <3>2, <4>2 DEF Replies
    <3>3. CASE i = n
      <4>1. r[i] = b[Len(a) + 1]
        BY <1>1, <1>3, <3>3
      <4> QED
        BY <1>2, <3>3, <4>1
    <3>4. i <= n
      BY <1>1, <1>2, <1>3
    <3>5. n \in Nat
      BY <1>1
    <3> HIDE DEF n
    <3> QED
      BY <1>1, <3>1, <3>2, <3>3, <3>4, <3>5
  <2>2. n \in 1 .. Len(r) /\ Replies(q) \subseteq 1 .. Len(r)
    BY <1>1, <1>2, <1>3 DEF Replies
  <2> HIDE DEF n
  <2> QED
    BY <2>1, <2>2 DEF Replies
<1>5. n \notin Replies(q)
  BY <1>1 DEF Replies
<1>6. IsFiniteSet(Replies(q)) /\ Cardinality(Replies(q)) \in Nat
  BY RepliesFinite
<1> HIDE DEF n
<1>7. Cardinality(Replies(r)) = Cardinality(Replies(q)) + 1
  BY <1>4, <1>5, <1>6, FS_AddElement
<1> QED
  BY <1>7 DEF r, b

\* Of every client that is not banned: as many ids wait in the queue as requests and responses
\* are on their way or about to be.
Balanced(c) == Len(pendingIds[c]) =
    Len(toPeer[c]) + Cardinality(Replies(fromPeer[c])) + Cardinality(Writing(c))

Answers == \A c \in Clients :
    /\ banned[c] = "no" => Balanced(c)
    /\ banned[c] # "unexpected BLOCK_RESPONSE"

\* What is counted is finite.
LEMMA Counted ==
    ASSUME IInv, NEW c \in Clients
    PROVE  /\ Len(pendingIds[c]) \in Nat
           /\ Len(toPeer[c]) \in Nat
           /\ Cardinality(Replies(fromPeer[c])) \in Nat
           /\ IsFiniteSet(Writing(c))
           /\ Cardinality(Writing(c)) \in Nat
<1>1. pendingIds[c] \in Seq(Ids) /\ toPeer[c] \in Seq(Ids) /\ fromPeer[c] \in Seq(Messages)
  BY DEF IInv, Shape
<1>2. Len(pendingIds[c]) \in Nat /\ Len(toPeer[c]) \in Nat
  BY <1>1, LenProperties
<1>3. Cardinality(Replies(fromPeer[c])) \in Nat
  BY <1>1, RepliesFinite
<1>4. Writing(c) \subseteq Senders
  BY DEF Writing
<1>5. IsFiniteSet(Writing(c)) /\ Cardinality(Writing(c)) \in Nat
  BY <1>4, SendersFinite, FS_Subset, FS_CardinalityType
<1> QED
  BY <1>2, <1>3, <1>5

\* The balance is the property.
LEMMA BalanceIsExpectation == IInv /\ Answers => EveryAnswerIsExpected
<1> SUFFICES ASSUME IInv, Answers PROVE EveryAnswerIsExpected
  OBVIOUS
<1>1. \A c \in Clients : Responses(c) = Replies(fromPeer[c])
  BY LenProperties DEF IInv, Shape, Responses, Replies
<1> QED
  BY <1>1 DEF Answers, Balanced, EveryAnswerIsExpected

\* A step that leaves the connections alone keeps the balance.
LEMMA BalanceStays ==
    ASSUME Answers, SameWriting, UNCHANGED <<pendingIds, toPeer, fromPeer, banned>>
    PROVE  Answers'
  BY DEF Answers, Balanced, SameWriting

\* A step at one client keeps the balance of the others.
LEMMA BalanceElsewhere ==
    ASSUME Answers, NEW c \in Clients, NEW d \in Clients, d # c,
           pendingIds'[d] = pendingIds[d], toPeer'[d] = toPeer[d], fromPeer'[d] = fromPeer[d],
           banned'[d] = banned[d], Writing(d)' = Writing(d)
    PROVE  /\ banned'[d] = "no" => Balanced(d)'
           /\ banned'[d] # "unexpected BLOCK_RESPONSE"
  BY DEF Answers, Balanced

\* At the start the request for the tip is in the queue and on its way.
LEMMA InitBalanced == Init => Answers
<1> SUFFICES ASSUME Init, NEW c \in Clients
             PROVE  Balanced(c) /\ banned[c] # "unexpected BLOCK_RESPONSE"
  BY DEF Answers
<1>1. pendingIds[c] = <<Zero>> /\ toPeer[c] = <<Zero>> /\ fromPeer[c] = <<>> /\ banned[c] = "no"
  BY DEF Init
<1>2. Replies(fromPeer[c]) = {}
  BY <1>1 DEF Replies
<1>3. Writing(c) = {}
  BY DEF Init, Writing
<1>4. Cardinality(Replies(fromPeer[c])) = 0 /\ Cardinality(Writing(c)) = 0
  BY <1>2, <1>3, FS_EmptySet
<1>5. Len(pendingIds[c]) = 1 /\ Len(toPeer[c]) = 1
  BY <1>1
<1> QED
  BY <1>1, <1>4, <1>5 DEF Balanced

\* The peer answers one request with one response.
LEMMA AnswerBalances ==
    ASSUME IInv, Answers, SameWriting, NEW c \in Clients, Answer(c)
    PROVE  Answers'
<1> DEFINE b == IF Head(toPeer[c]) = Zero THEN PeerTip[c] ELSE Head(toPeer[c])
           answer == IF b \in PeerHas[c] THEN Append(Announced(c, b), Response(b))
                                         ELSE <<Response(Zero)>>
           q == fromPeer[c]
<1>1. /\ toPeer[c] \in Seq(Ids) /\ toPeer[c] # <<>> /\ q \in Seq(Messages)
      /\ banned[c] = "no"
  BY DEF IInv, Shape, Answer
<1>2. Len(Tail(toPeer[c])) = Len(toPeer[c]) - 1
  BY <1>1, HeadTailProperties
<1>3. Cardinality(Replies(q \o answer)) = Cardinality(Replies(q)) + 1
  <2>1. \A i \in Ids : Response(i) \in Messages /\ Response(i).type = "response"
    BY DEF Response, Messages
  <2>2. PICK a \in Seq(Messages), m \in Messages :
          /\ answer = Append(a, m)
          /\ \A i \in 1 .. Len(a) : a[i].type = "notify"
          /\ m.type = "response"
    <3>1. CASE b \notin PeerHas[c]
      <4>1. answer = Append(<<>>, Response(Zero)) /\ <<>> \in Seq(Messages) /\ Len(<<>>) = 0
        BY <3>1
      <4>2. Response(Zero) \in Messages /\ Response(Zero).type = "response"
        BY <2>1 DEF Ids
      <4> HIDE DEF answer
      <4>3. \A i \in 1 .. Len(<<>>) : <<>>[i].type = "notify"
        BY <4>1
      <4> QED
        BY <4>1, <4>2, <4>3
    <3>2. CASE b \in PeerHas[c]
      <4>1. b \in Blocks
        BY <3>2, NetworkAssumption
      <4>2. /\ Announced(c, b) \in Seq(Messages)
            /\ \A i \in 1 .. Len(Announced(c, b)) : Announced(c, b)[i].type = "notify"
        BY <4>1, AnnouncedMessages
      <4>3. Response(b) \in Messages /\ Response(b).type = "response"
        BY <2>1, <4>1 DEF Ids
      <4>4. answer = Append(Announced(c, b), Response(b))
        BY <3>2
      <4> HIDE DEF answer, b
      <4> QED
        BY <4>2, <4>3, <4>4
    <3> QED
      BY <3>1, <3>2
  <2> HIDE DEF answer, q
  <2> QED
    BY <1>1, <2>2, RepliesOfAnswer
<1>4. /\ fromPeer' = [fromPeer EXCEPT ![c] = @ \o answer]
      /\ toPeer' = [toPeer EXCEPT ![c] = Tail(@)]
      /\ UNCHANGED <<pendingIds, banned>>
  BY DEF Answer
<1> HIDE DEF answer
<1>5. /\ fromPeer'[c] = q \o answer
      /\ toPeer'[c] = Tail(toPeer[c])
      /\ \A d \in Clients : d # c => fromPeer'[d] = fromPeer[d] /\ toPeer'[d] = toPeer[d]
  BY <1>4 DEF IInv, Shape
<1>6. Balanced(c)'
  <2>1. Balanced(c)
    BY <1>1 DEF Answers
  <2>2. Writing(c)' = Writing(c)
    BY DEF SameWriting
  <2>3. /\ Len(pendingIds'[c]) = Len(pendingIds[c])
        /\ Len(toPeer'[c]) = Len(toPeer[c]) - 1
        /\ Cardinality(Replies(fromPeer'[c])) = Cardinality(Replies(fromPeer[c])) + 1
        /\ Cardinality(Writing(c)') = Cardinality(Writing(c))
    BY <1>2, <1>3, <1>4, <1>5, <2>2
  <2>4. /\ Len(toPeer[c]) \in Nat
        /\ Cardinality(Replies(fromPeer[c])) \in Nat
        /\ Cardinality(Writing(c)) \in Nat
    BY Counted
  <2> QED
    BY <2>1, <2>3, <2>4 DEF Balanced
<1>7. ASSUME NEW d \in Clients
      PROVE  (banned'[d] = "no" => Balanced(d)') /\ banned'[d] # "unexpected BLOCK_RESPONSE"
  <2>1. CASE d = c
    BY <1>1, <1>4, <1>6, <2>1
  <2>2. CASE d # c
    BY <1>4, <1>5, <2>2, BalanceElsewhere DEF SameWriting
  <2> QED
    BY <2>1, <2>2
<1> QED
  BY <1>7 DEF Answers

\* A notification is not a response.
LEMMA ReadNotifyBalances ==
    ASSUME IInv, Answers, SameWriting, NEW c \in Clients, ReadNotify(c)
    PROVE  Answers'
<1>1. /\ fromPeer[c] \in Seq(Messages) /\ fromPeer[c] # <<>>
      /\ Head(fromPeer[c]).type # "response"
      /\ fromPeer' = [fromPeer EXCEPT ![c] = Tail(@)]
      /\ UNCHANGED <<pendingIds, toPeer, banned>>
  BY DEF IInv, Shape, ReadNotify, Receives
<1>2. /\ fromPeer'[c] = Tail(fromPeer[c])
      /\ \A d \in Clients : d # c => fromPeer'[d] = fromPeer[d]
  BY <1>1 DEF IInv, Shape
<1>3. Cardinality(Replies(fromPeer'[c])) = Cardinality(Replies(fromPeer[c]))
  BY <1>1, <1>2, RepliesOfTail
<1>4. \A d \in Clients : Cardinality(Replies(fromPeer'[d])) = Cardinality(Replies(fromPeer[d]))
  BY <1>2, <1>3
<1> QED
  BY <1>1, <1>4 DEF Answers, Balanced, SameWriting

\* A response finds its id in the queue, and takes it off.
LEMMA ReadResponseBalances ==
    ASSUME IInv, Answers, SameWriting, NEW c \in Clients, ReadResponse(c)
    PROVE  Answers'
<1>1. /\ fromPeer[c] \in Seq(Messages) /\ fromPeer[c] # <<>>
      /\ pendingIds[c] \in Seq(Ids)
      /\ Head(fromPeer[c]).type = "response"
      /\ fromPeer' = [fromPeer EXCEPT ![c] = Tail(@)]
      /\ toPeer' = toPeer
      /\ banned[c] = "no"
  BY DEF IInv, Shape, ReadResponse, Receives
<1>2. /\ fromPeer'[c] = Tail(fromPeer[c])
      /\ \A d \in Clients : d # c => fromPeer'[d] = fromPeer[d]
  BY <1>1 DEF IInv, Shape
<1>3. Cardinality(Replies(fromPeer'[c])) = Cardinality(Replies(fromPeer[c])) - 1
  BY <1>1, <1>2, RepliesOfTail
<1>4. Cardinality(Replies(fromPeer[c])) > 0
  <2>1. Tail(fromPeer[c]) \in Seq(Messages)
    BY <1>1, HeadTailProperties
  <2>2. Cardinality(Replies(fromPeer'[c])) \in Nat
    BY <1>2, <2>1, RepliesFinite
  <2> QED
    BY <1>3, <2>2, Counted
<1>5. Balanced(c)
  BY <1>1 DEF Answers
<1>6. pendingIds[c] # <<>>
  <2>1. Len(pendingIds[c]) > 0
    BY <1>4, <1>5, Counted DEF Balanced
  <2> QED
    BY <2>1
<1>7. Len(Tail(pendingIds[c])) = Len(pendingIds[c]) - 1
  BY <1>1, <1>6, HeadTailProperties
<1>8. /\ pendingIds' = [pendingIds EXCEPT ![c] = Tail(@)]
      /\ banned' = banned \/ banned' = [banned EXCEPT ![c] = "expected block id"]
  BY <1>6 DEF ReadResponse, Banned
<1>9. /\ pendingIds'[c] = Tail(pendingIds[c])
      /\ banned'[c] \in {"no", "expected block id"}
      /\ \A d \in Clients : d # c => pendingIds'[d] = pendingIds[d] /\ banned'[d] = banned[d]
  BY <1>1, <1>8 DEF IInv, Shape
<1>10. Balanced(c)'
  <2>1. Writing(c)' = Writing(c)
    BY DEF SameWriting
  <2>2. /\ Len(pendingIds'[c]) = Len(pendingIds[c]) - 1
        /\ Len(toPeer'[c]) = Len(toPeer[c])
        /\ Cardinality(Writing(c)') = Cardinality(Writing(c))
    BY <1>1, <1>7, <1>9, <2>1
  <2>3. /\ Len(toPeer[c]) \in Nat
        /\ Cardinality(Replies(fromPeer[c])) \in Nat
        /\ Cardinality(Writing(c)) \in Nat
    BY Counted
  <2> QED
    BY <1>3, <1>5, <2>2, <2>3 DEF Balanced
<1>11. ASSUME NEW d \in Clients
       PROVE  (banned'[d] = "no" => Balanced(d)') /\ banned'[d] # "unexpected BLOCK_RESPONSE"
  <2>1. CASE d = c
    BY <1>9, <1>10, <2>1
  <2>2. CASE d # c
    BY <1>1, <1>2, <1>9, <2>2, BalanceElsewhere DEF SameWriting
  <2> QED
    BY <2>1, <2>2
<1> QED
  BY <1>11 DEF Answers

\* An id enters the queue, and its sender is about to write the request.
LEMMA EnqueueBalances ==
    ASSUME IInv, Answers, NEW s \in Senders, Enqueue(s)
    PROVE  Answers'
<1>1. Head(work[s]) \in Tasks /\ Head(work[s]).c \in Clients
  BY FirstTask DEF IInv, Shape, Enqueue, Does
<1>2. PICK c \in Clients, h \in Ids : c = Head(work[s]).c /\ h = Head(work[s]).h
  BY <1>1 DEF Tasks
<1>3. /\ pendingIds' = [pendingIds EXCEPT ![c] = Append(@, h)]
      /\ UNCHANGED <<toPeer, fromPeer, banned>>
  BY <1>2 DEF Enqueue
<1>4. /\ s \notin Writing(c)
      /\ \A d \in Clients : Writing(d)' = IF d = c THEN Writing(d) \cup {s} ELSE Writing(d)
  BY <1>2, EnqueueKeeps
<1>5. /\ pendingIds[c] \in Seq(Ids)
      /\ pendingIds'[c] = Append(pendingIds[c], h)
      /\ \A d \in Clients : d # c => pendingIds'[d] = pendingIds[d]
  BY <1>3 DEF IInv, Shape
<1>6. Len(pendingIds'[c]) = Len(pendingIds[c]) + 1
  BY <1>5, AppendProperties
<1>7. Cardinality(Writing(c)') = Cardinality(Writing(c)) + 1
  BY <1>4, Counted, FS_AddElement
<1>8. banned[c] = "no" => Balanced(c)'
  <2>1. banned[c] = "no" => Balanced(c)
    BY DEF Answers
  <2>2. /\ Len(toPeer[c]) \in Nat
        /\ Cardinality(Replies(fromPeer[c])) \in Nat
        /\ Cardinality(Writing(c)) \in Nat
    BY Counted
  <2> QED
    BY <1>3, <1>6, <1>7, <2>1, <2>2 DEF Balanced
<1>9. ASSUME NEW d \in Clients
      PROVE  (banned'[d] = "no" => Balanced(d)') /\ banned'[d] # "unexpected BLOCK_RESPONSE"
  <2>1. CASE d = c
    BY <1>3, <1>8, <2>1 DEF Answers
  <2>2. CASE d # c
    BY <1>3, <1>4, <1>5, <2>2, BalanceElsewhere
  <2> QED
    BY <2>1, <2>2
<1> QED
  BY <1>9 DEF Answers

\* The request that was about to be written is on its way.
LEMMA WriteBalances ==
    ASSUME IInv, Answers, NEW s \in Senders, Write(s)
    PROVE  Answers'
<1>1. Head(work[s]) \in Tasks /\ Head(work[s]).c \in Clients
  BY FirstTask DEF IInv, Shape, Write, Does
<1>2. PICK c \in Clients, h \in Ids : c = Head(work[s]).c /\ h = Head(work[s]).h
  BY <1>1 DEF Tasks
<1>3. /\ toPeer' = [toPeer EXCEPT ![c] = IF banned[c] = "no" THEN Append(@, h) ELSE @]
      /\ UNCHANGED <<pendingIds, fromPeer, banned>>
  BY <1>2 DEF Write
<1>4. /\ s \in Writing(c)
      /\ \A d \in Clients : Writing(d)' = IF d = c THEN Writing(d) \ {s} ELSE Writing(d)
  BY <1>2, WriteKeeps
<1>5. /\ toPeer[c] \in Seq(Ids)
      /\ banned[c] = "no" => toPeer'[c] = Append(toPeer[c], h)
      /\ \A d \in Clients : d # c => toPeer'[d] = toPeer[d]
  BY <1>3 DEF IInv, Shape
<1>6. banned[c] = "no" => Len(toPeer'[c]) = Len(toPeer[c]) + 1
  BY <1>5, AppendProperties
<1>7. Cardinality(Writing(c)') = Cardinality(Writing(c)) - 1
  BY <1>4, Counted, FS_RemoveElement
<1>8. banned[c] = "no" => Balanced(c)'
  <2>1. banned[c] = "no" => Balanced(c)
    BY DEF Answers
  <2>2. /\ Len(toPeer[c]) \in Nat
        /\ Cardinality(Replies(fromPeer[c])) \in Nat
        /\ Cardinality(Writing(c)) \in Nat
    BY Counted
  <2> QED
    BY <1>3, <1>6, <1>7, <2>1, <2>2 DEF Balanced
<1>9. ASSUME NEW d \in Clients
      PROVE  (banned'[d] = "no" => Balanced(d)') /\ banned'[d] # "unexpected BLOCK_RESPONSE"
  <2>1. CASE d = c
    BY <1>3, <1>8, <2>1 DEF Answers
  <2>2. CASE d # c
    BY <1>3, <1>4, <1>5, <2>2, BalanceElsewhere
  <2> QED
    BY <2>1, <2>2
<1> QED
  BY <1>9 DEF Answers

---------------------------------------------------------------------------
(* The theorems.                                                           *)

\* The queues and the work of the senders keep their shape, the queues their room, and the
\* requests and answers their balance.
LEMMA RoomIsKept == Spec => [](IInv /\ Answers)
<1>1. Init => IInv /\ Answers
  BY InitRoom, InitBalanced
<1>2. IInv /\ Answers /\ [Next]_vars => IInv' /\ Answers'
  <2> SUFFICES ASSUME IInv, Answers, [Next]_vars PROVE IInv' /\ Answers'
    OBVIOUS
  <2>1. ASSUME NEW c \in Clients, Answer(c) PROVE IInv' /\ Answers'
    BY <2>1, AnswerKeeps, AnswerBalances
  <2>2. ASSUME NEW c \in Clients, ReadNotify(c) PROVE IInv' /\ Answers'
    BY <2>2, ReadNotifyKeeps, ReadNotifyBalances
  <2>3. ASSUME NEW c \in Clients, ReadResponse(c) PROVE IInv' /\ Answers'
    BY <2>3, ReadResponseKeeps, ReadResponseBalances
  <2>4. ASSUME NEW s \in Senders, SendMissingBlockRequest(s) PROVE IInv' /\ Answers'
    <3>1. UNCHANGED <<pendingIds, toPeer, fromPeer, banned>>
      BY <2>4 DEF SendMissingBlockRequest
    <3> QED
      BY <2>4, <3>1, SendMissingKeeps, BalanceStays
  <2>5. ASSUME NEW s \in Senders, CheckBound(s) PROVE IInv' /\ Answers'
    <3>1. UNCHANGED <<pendingIds, toPeer, fromPeer, banned>>
      BY <2>5 DEF CheckBound
    <3> QED
      BY <2>5, <3>1, CheckBoundKeeps, BalanceStays
  <2>6. ASSUME NEW s \in Senders, Enqueue(s) PROVE IInv' /\ Answers'
    BY <2>6, EnqueueKeeps, EnqueueBalances
  <2>7. ASSUME NEW s \in Senders, Write(s) PROVE IInv' /\ Answers'
    BY <2>7, WriteKeeps, WriteBalances
  <2>8. CASE DownloadMissingBlocks
    <3>1. UNCHANGED <<pendingIds, toPeer, fromPeer, banned>>
      BY <2>8 DEF DownloadMissingBlocks
    <3> QED
      BY <2>8, <3>1, DownloadKeeps, BalanceStays
  <2>9. CASE SendUniqueBlockRequest
    <3>1. UNCHANGED <<pendingIds, toPeer, fromPeer, banned>>
      BY <2>9 DEF SendUniqueBlockRequest
    <3> QED
      BY <2>9, <3>1, SendUniqueKeeps, BalanceStays
  <2>10. CASE PreCalcFinishes \/ ClearCachedBlocks \/ UNCHANGED vars
    <3>1. UNCHANGED <<pendingIds, toPeer, fromPeer, banned>>
      BY <2>10 DEF PreCalcFinishes, ClearCachedBlocks, vars
    <3> QED
      BY <2>10, <3>1, IdleKeeps, BalanceStays
  <2> QED
    BY <2>1, <2>2, <2>3, <2>4, <2>5, <2>6, <2>7, <2>8, <2>9, <2>10, Zenon DEF Next, Reader, Sending
<1> QED
  BY <1>1, <1>2, PTL DEF Spec

\* However the goroutines that send requests to a client interleave (client.go:189-248), its
\* queue has an id for every answer to come, and no peer that answers every request once is ever
\* banned for an "unexpected BLOCK_RESPONSE" (client.go:490-493): for all clients, chains, bounds
\* and capacities.
THEOREM AnswersAreExpected == Spec => []EveryAnswerIsExpected
<1>1. IInv /\ Answers => EveryAnswerIsExpected
  BY BalanceIsExpectation
<1> QED
  BY <1>1, RoomIsKept, PTL

\* SendBlockRequestWithBound compares the length of the queue without a lock
\* (client.go:239-240), and yet the queue overshoots the bound by fewer entries than there are
\* senders: for all clients, chains, bounds and interleavings.
THEOREM QueueIsBounded == Spec => []QueueWithinBound
<1>1. IInv => QueueWithinBound
  BY RoomIsEnough
<1> QED
  BY <1>1, RoomIsKept, PTL

\* With the code's bound of 80 and capacity of 100 (client.go:106, 235), up to 21 goroutines can
\* send requests to a client without one of them ever waiting for room in its queue.
THEOREM SendersDoNotWait ==
    ASSUME Capacity >= Bound - 1 + Cardinality(Senders)
    PROVE  Spec => []NoSenderWaits
<1>1. IInv => NoSenderWaits
  <2> SUFFICES ASSUME IInv, NEW s \in Senders, work[s] # <<>>, Head(work[s]).op = "enqueue"
               PROVE  Len(pendingIds[Head(work[s]).c]) < Capacity
    BY DEF NoSenderWaits
  <2> DEFINE c == Head(work[s]).c
  <2>1. c \in Clients
    BY FirstTask DEF IInv, Shape
  <2>2. s \in Entering(c)
    BY DEF Entering
  <2>3. /\ IsFiniteSet(Entering(c))
        /\ Cardinality(Entering(c)) \in Nat
        /\ Cardinality(Senders) \in Nat
    BY SendersFinite
  <2>4. Cardinality(Entering(c)) # 0
    BY <2>2, <2>3, FS_EmptySet
  <2>5. Len(pendingIds[c]) \in Nat
    BY <2>1, LenProperties DEF IInv, Shape
  <2>6. Len(pendingIds[c]) + Cardinality(Entering(c)) <= Bound - 1 + Cardinality(Senders)
    BY <2>1 DEF IInv, Room
  <2> HIDE DEF c
  <2>7. Len(pendingIds[c]) < Capacity
    BY <2>3, <2>4, <2>5, <2>6, BoundAssumption
  <2> QED
    BY <2>7 DEF c
<1> QED
  BY <1>1, RoomIsKept, PTL
====
