---------------------------- MODULE LegacyCache ------------------------------
(***************************************************************************)
(* The cache of shares on disk (cache/legacy/legacy.go): a file of slots   *)
(* of a fixed size, each with the length of a share and its bytes.         *)
(*                                                                         *)
(* saveBlock (blobcache.go) starts a goroutine for every share to store.   *)
(* A crash leaves what was written; WriteAt is taken to be done or not.    *)
(***************************************************************************)
EXTENDS Integers, FiniteSets

CONSTANTS
    NumBlocks,
    Blocks, None,
    Size,        \* the number of cells a share's bytes fill
    BlockSize,   \* the number of cells for bytes in a slot
    Altered,     \* what parsing bytes of more than one origin gives
    Savers,      \* goroutines of saveBlock
    MaxSaves, MaxCrashes

VARIABLES
    length, cells,        \* the file, by slot
    up,                   \* whether the process runs
    storeIndex, once, loading,
    at, block, slot,      \* by goroutine: where it is, what it stores, where
    scanned,              \* how many slots LoadAll has gone through
    blobLength,           \* the length LoadAll has read, -1 between two slots
    loadSlot,             \* the slot it is reading
    loaded,               \* what LoadAll has handed to AddCachedBlock
    stored,               \* history: the shares passed to Store
    owner,                \* history: the share a slot holds, if its Store was not disturbed
    touched,              \* history: slots this process has read or written
    saves, crashes

loader == <<scanned, blobLength, loadSlot, loaded>>
bounds == <<saves, crashes>>
vars == <<length, cells, up, storeIndex, once, loading, at, block, slot, scanned,
          blobLength, loadSlot, loaded, stored, owner, touched, saves, crashes>>

\* A share has bytes.  None fills a slot to the last byte, the one NewCache writes.
CacheAssumption ==
    /\ NumBlocks \in Nat \ {0} /\ BlockSize \in Nat \ {0}
    /\ \A b \in Blocks : Size[b] \in Nat \ {0} /\ Size[b] # BlockSize
    /\ None \notin Blocks

Slots == 0..(NumBlocks - 1)

Init ==
    /\ length = [s \in Slots |-> 0]
    /\ cells = [s \in Slots |-> [c \in 1..BlockSize |-> None]]
    /\ up = FALSE /\ storeIndex = 0 /\ once = FALSE /\ loading = FALSE
    /\ at = [p \in Savers |-> "idle"]
    /\ block = [p \in Savers |-> None] /\ slot = [p \in Savers |-> 0]
    /\ scanned = 0 /\ blobLength = -1 /\ loadSlot = 0 /\ loaded = {} /\ stored = {}
    /\ owner = [s \in Slots |-> None] /\ touched = {}
    /\ saves = 0 /\ crashes = 0

-----------------------------------------------------------------------------
\* Mutant: a share that ends early is taken.
ParseShort(s, n) ==
    LET b == cells[s][1] IN
    IF b = None THEN None
    ELSE IF n >= Size[b] /\ \A c \in 1..Size[b] : cells[s][c] = b THEN b ELSE Altered

\* UnmarshalBinary of the slot's bytes: it needs all of the share and ignores what follows.
Parse(s, n) ==
    LET b == cells[s][1] IN
    IF b = None \/ n < Size[b] THEN None
    ELSE IF \A c \in 1..Size[b] : cells[s][c] = b THEN b ELSE Altered

\* NewCache: the last byte of the file is written.
NewCache ==
    /\ ~up
    /\ up' = TRUE
    /\ cells' = [cells EXCEPT ![NumBlocks - 1][BlockSize] = None]
    /\ storeIndex' = 0 /\ once' = FALSE /\ loading' = FALSE
    /\ scanned' = 0 /\ blobLength' = -1 /\ loadSlot' = 0 /\ loaded' = {} /\ touched' = {}
    /\ UNCHANGED <<length, at, block, slot, stored, owner, bounds>>

\* saveBlock: the goroutine is started.
SaveBlock(p, b) ==
    /\ up /\ at[p] = "idle" /\ saves < MaxSaves
    /\ at' = [at EXCEPT ![p] = "store"] /\ block' = [block EXCEPT ![p] = b]
    /\ saves' = saves + 1
    /\ UNCHANGED <<length, cells, up, storeIndex, once, loading, slot, loader, stored, owner,
                   touched, crashes>>

\* Store: whether there is something to do is asked before the place in the ring is taken.
Store(p) ==
    /\ at[p] = "store"
    /\ at' = [at EXCEPT ![p] = IF loading \/ Size[block[p]] > BlockSize THEN "idle" ELSE "index"]
    /\ UNCHANGED <<length, cells, up, storeIndex, once, loading, block, slot, loader, stored, owner,
                   touched, bounds>>

TakeSlot(p) ==
    /\ at[p] = "index"
    /\ storeIndex' = storeIndex + 1
    /\ slot' = [slot EXCEPT ![p] = storeIndex' % NumBlocks]
    /\ at' = [at EXCEPT ![p] = "length"]
    /\ stored' = stored \cup {block[p]}
    /\ owner' = [owner EXCEPT ![slot'[p]] = None]
    /\ UNCHANGED <<length, cells, up, once, loading, block, loader, touched, bounds>>

WriteLength(p) ==
    /\ at[p] = "length"
    /\ length' = [length EXCEPT ![slot[p]] = Size[block[p]]]
    /\ at' = [at EXCEPT ![p] = "blob"]
    /\ UNCHANGED <<cells, up, storeIndex, once, loading, block, slot, loader, stored, owner,
                   touched, bounds>>

Written(s, b) == [cells EXCEPT ![s] = [c \in 1..BlockSize |-> IF c <= Size[b] THEN b ELSE @[c]]]

\* Whether another goroutine is writing to the slot of p.
Shared(p) == \E q \in Savers \ {p} : at[q] \in {"length", "blob"} /\ slot[q] = slot[p]

\* Mutant: the bytes go to the slot of whoever came last.
WriteBlobAtIndex(p) ==
    /\ at[p] = "blob"
    /\ cells' = Written(storeIndex % NumBlocks, block[p])
    /\ owner' = [owner EXCEPT ![slot[p]] = IF Shared(p) THEN None ELSE block[p]]
    /\ touched' = touched \cup {slot[p]}
    /\ at' = [at EXCEPT ![p] = "idle"]
    /\ UNCHANGED <<length, up, storeIndex, once, loading, block, slot, loader, stored, bounds>>

WriteBlob(p) ==
    /\ at[p] = "blob"
    /\ cells' = Written(slot[p], block[p])
    /\ owner' = [owner EXCEPT ![slot[p]] =
                   IF Shared(p) \/ length[slot[p]] # Size[block[p]] THEN None ELSE block[p]]
    /\ touched' = touched \cup {slot[p]}
    /\ at' = [at EXCEPT ![p] = "idle"]
    /\ UNCHANGED <<length, up, storeIndex, once, loading, block, slot, loader, stored, bounds>>

LoadAll ==
    /\ up /\ ~once
    /\ once' = TRUE /\ loading' = TRUE
    /\ UNCHANGED <<length, cells, up, storeIndex, at, block, slot, loader, stored, owner,
                   touched, bounds>>

\* Mutant: the index of Store is left alone, and LoadAll reads from its own place.
LoadLengthInOrder ==
    /\ up /\ loading /\ scanned < NumBlocks /\ blobLength = -1
    /\ storeIndex' = storeIndex + 1 /\ scanned' = scanned + 1
    /\ blobLength' = length[storeIndex % (NumBlocks - 1)]
    /\ touched' = touched \cup {storeIndex % (NumBlocks - 1)}
    /\ loadSlot' = storeIndex % (NumBlocks - 1)
    /\ UNCHANGED <<length, cells, up, once, loading, at, block, slot, loaded, stored, owner,
                   bounds>>

LoadLength ==
    /\ up /\ loading /\ scanned < NumBlocks /\ blobLength = -1
    /\ storeIndex' = storeIndex + 1 /\ scanned' = scanned + 1
    /\ loadSlot' = storeIndex' % NumBlocks
    /\ blobLength' = length[loadSlot']
    /\ touched' = touched \cup {loadSlot'}
    /\ UNCHANGED <<length, cells, up, once, loading, at, block, slot, loaded, stored, owner,
                   bounds>>

LoadBlob ==
    /\ up /\ loading /\ blobLength >= 0
    /\ loaded' = loaded \cup ({Parse(loadSlot, blobLength)} \ {None})
    /\ blobLength' = -1
    /\ UNCHANGED <<length, cells, up, storeIndex, once, loading, at, block, slot, scanned,
                   loadSlot, stored, owner, touched, bounds>>

LoadEnds ==
    /\ up /\ loading /\ scanned = NumBlocks /\ blobLength = -1
    /\ loading' = FALSE
    /\ UNCHANGED <<length, cells, up, storeIndex, once, at, block, slot, loader, stored,
                   owner, touched, bounds>>

\* The process dies, or is stopped without Close: what was written stays.
Crash ==
    /\ up /\ crashes < MaxCrashes
    /\ up' = FALSE /\ crashes' = crashes + 1
    /\ at' = [p \in Savers |-> "idle"]
    /\ UNCHANGED <<length, cells, storeIndex, once, loading, block, slot, loader, stored,
                   owner, touched, saves>>

Next ==
    \/ NewCache \/ LoadAll \/ LoadLength \/ LoadBlob \/ LoadEnds \/ Crash
    \/ \E p \in Savers : Store(p) \/ TakeSlot(p) \/ WriteLength(p) \/ WriteBlob(p)
    \/ \E p \in Savers, b \in Blocks : SaveBlock(p, b)

Spec == Init /\ [][Next]_vars

-----------------------------------------------------------------------------
\* What LoadAll hands on is a share that was once stored, wherever a crash came between the
\* writes and however goroutines met in a slot (legacy.go:60-62, 79-99).
LoadedWereStored == loaded \subseteq stored

\* A share whose Store went through undisturbed is there after any restart, until its slot is
\* taken again (legacy.go:60-62).
StoredIsLoadable == up => \A s \in Slots : owner[s] # None => Parse(s, length[s]) = owner[s]

\* This process has read the slot or taken it for a Store.
Reached(s) ==
    \/ s \in touched
    \/ \E p \in Savers : at[p] \in {"length", "blob"} /\ slot[p] = s

\* When LoadAll has ended, every slot was read or belongs to a Store of this process, although
\* both advance the same index (legacy.go:60, 77).
EverySlotIsRead == up /\ once /\ ~loading => \A s \in Slots : Reached(s)

-----------------------------------------------------------------------------
(* The inductive invariant.                                                *)

\* Every variable the other invariants depend on has its type.
TypeOK ==
    /\ length \in [Slots -> Nat] /\ cells \in [Slots -> [1..BlockSize -> Blocks \cup {None}]]
    /\ up \in BOOLEAN /\ once \in BOOLEAN /\ loading \in BOOLEAN
    /\ storeIndex \in Nat /\ scanned \in 0..NumBlocks /\ loadSlot \in Slots
    /\ at \in [Savers -> {"idle", "store", "index", "length", "blob"}]
    /\ block \in [Savers -> Blocks \cup {None}] /\ slot \in [Savers -> Slots]
    /\ owner \in [Slots -> Blocks \cup {None}]

\* A goroutine writes a share that fits and counts as stored, into a slot nobody owns.
Writing ==
    \A p \in Savers :
        /\ at[p] # "idle" => block[p] \in Blocks
        /\ at[p] \in {"index", "length", "blob"} => Size[block[p]] < BlockSize
        /\ at[p] \in {"length", "blob"} => block[p] \in stored /\ owner[slot[p]] = None

\* The share at the start of a slot is there in full, whatever is left behind it of others.
Whole ==
    \A s \in Slots : cells[s][1] # None =>
        /\ cells[s][1] \in stored /\ Size[cells[s][1]] < BlockSize
        /\ \A c \in 1..Size[cells[s][1]] : cells[s][c] = cells[s][1]

\* An owned slot holds its share and its length.
Owned ==
    \A s \in Slots : owner[s] # None => cells[s][1] = owner[s] /\ length[s] = Size[owner[s]]

\* LoadAll has gone through as many slots as it says, and the last ones of the ring are reached.
Scanned ==
    /\ ~once => ~loading /\ scanned = 0
    /\ once /\ ~loading => scanned = NumBlocks
    /\ scanned <= storeIndex
    /\ up /\ once => \A i \in (storeIndex - scanned + 1)..storeIndex : Reached(i % NumBlocks)

IInv == TypeOK /\ Writing /\ Whole /\ Owned /\ Scanned /\ LoadedWereStored
====
