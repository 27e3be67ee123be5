---------------------------- MODULE MissingBlocks ----------------------------
(***************************************************************************)
(* Catching up with the share chain: DownloadMissingBlocks (p2p/server.go) *)
(* asks for what GetMissingBlocks (sidechain.go) lists, again and again.   *)
(***************************************************************************)
EXTENDS Integers, Sequences, FiniteSets, Functions

CONSTANTS
    Blocks,          \* the shares, numbered so that parents and uncles come first
    Parent, Uncles,  \* 0: no parent
    Received,        \* the shares broadcast to the node
    Cached           \* the shares in the cache of the server

VARIABLES
    stored,
    asked            \* requested from a peer, the answer on its way

vars == <<stored, asked>>

\* Verification succeeds once everything a share builds on is there.
Verified ==
    LET ok[b \in Blocks] ==
            /\ b \in stored
            /\ Parent[b] # 0 => ok[Parent[b]]
            /\ \A i \in DOMAIN Uncles[b] : ok[Uncles[b][i]]
    IN  {b \in Blocks : ok[b]}

MissingUncles(b) == SelectSeq(Uncles[b], LAMBDA u : u \notin stored)

\* What the loop takes from one share: its parent, and two uncles.
ListedOf(b) ==
    {p \in {Parent[b]} : p # 0 /\ p \notin stored}
        \cup {MissingUncles(b)[i] : i \in 1..Len(MissingUncles(b)) \cap 1..2}

\* Mutant: only parents are listed.
GetMissingBlocksParents(visited) == {Parent[b] : b \in visited} \ (stored \cup {0})

GetMissingBlocks(visited) == UNION {ListedOf(b) : b \in visited}

\* The shares an iteration in some order of the map takes something from: all that are not
\* verified, or some of them up to the first that lacks two uncles, where it stops.
Visits ==
    LET stops(b) == Len(MissingUncles(b)) >= 2 IN
    {visited \in SUBSET (stored \ Verified) :
        \/ \E b \in visited : stops(b) /\ \A c \in visited \ {b} : ~stops(c)
        \/ visited = stored \ Verified /\ \A b \in visited : ~stops(b)}

Init == stored = Received /\ asked = {}

\* One round of DownloadMissingBlocks: a share of the cache is added, any other requested.
DownloadMissingBlocks ==
    \E visited \in Visits :
        LET listed == GetMissingBlocks(visited) IN
        /\ stored' = stored \cup (listed \cap Cached)
        /\ asked' = asked \cup (listed \ Cached)

\* A share that was requested arrives, and what it lacks is requested at once.
Answer(b) ==
    /\ b \in asked
    /\ stored' = stored \cup {b}
    /\ asked' = (asked \cup ({Parent[b]} \cup Range(Uncles[b]))) \ (stored' \cup {0})

Next == DownloadMissingBlocks \/ \E b \in Blocks : Answer(b)

\* The server runs the download every second, and a peer that has a share sends it.
Spec ==
    /\ Init /\ [][Next]_vars
    /\ WF_vars(DownloadMissingBlocks) /\ \A b \in Blocks : WF_vars(Answer(b))

\* The node has every share the ones it received build on.
CaughtUp == Verified = stored

\* It ends up there, although a round stops at the first share that lacks two uncles
\* (server.go:475-492, sidechain.go:1021-1054).
CatchesUp == <>[]CaughtUp
====
