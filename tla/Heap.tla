--------------------------------- MODULE Heap ---------------------------------
(***************************************************************************)
(* The first-fit-by-size heap of the kernel and of the user library:       *)
(* PalmyraOS/source/palmyraOS/shared/memory/Heap.cpp, on the pages of      *)
(* KernelHeap.cpp.                                                         *)
(*                                                                         *)
(* A chunk is a header followed by its memory, and the headers form a      *)
(* doubly linked list that is not in the order of the addresses.  Nothing  *)
(* guards the heap: the keyboard and mouse interrupts push on queues that  *)
(* allocate, in the middle of whatever the kernel does.  A call is a       *)
(* sequence of steps here, and a context with a greater number interrupts  *)
(* the smaller ones and runs its call to the end before they go on.  With  *)
(* one context this is the heap of a user process, and of a kernel that    *)
(* keeps interrupts off.                                                   *)
(***************************************************************************)
EXTENDS Integers, FiniteSets

CONSTANTS
    Contexts,      \* 0: a thread, 1: an interrupt of it
    HeaderSize,    \* sizeof(HeapChunk)
    PageSize,
    Pages,         \* numbers of the pages the heap may get, never 0
    RequestSizes,  \* what the callers ask for
    Slots          \* bound of the model: blocks allocated at the same time

Null == 0
PageBytes(p) == p * PageSize .. (p + 1) * PageSize - 1
Addresses == UNION {PageBytes(p) : p \in Pages}
ASSUME HeapAssumption ==
    /\ HeaderSize \in Nat \ {0} /\ PageSize \in Nat /\ PageSize > HeaderSize
    /\ Pages \subseteq Nat \ {0} /\ Pages # {} /\ IsFiniteSet(Pages)
    /\ RequestSizes \subseteq Nat \ {0} /\ IsFiniteSet(RequestSizes)
    /\ Slots \subseteq Nat /\ Contexts \subseteq Nat

VARIABLES
    chunks,    \* the headers in memory, those of merged chunks too
    heapList,  \* heapList_
    allocated, \* totalAllocatedMemory_
    total,     \* totalMemory_
    pages,     \* the pages of the heap
    held,      \* what the callers hold: address and requested size
    call       \* the call each context executes

vars == <<chunks, heapList, allocated, total, pages, held, call>>

Idle == [op |-> "idle", size |-> 0, cursor |-> Null, best |-> Null, grown |-> FALSE]
Free(a) == ~chunks[a].isAllocated
End(chunk, a) == a + HeaderSize + chunk[a].size

\* The chunks in the list, as deep as there are addresses.
Depth == 0 .. Cardinality(Addresses)
Linked ==
    LET walk[n \in Depth] ==
            IF n = 0 THEN heapList
            ELSE IF walk[n - 1] = Null THEN Null ELSE chunks[walk[n - 1]].next
    IN  {walk[n] : n \in Depth} \ {Null}

-----------------------------------------------------------------------------
(* Chunks.                                                                 *)

\* HeapChunk::split: what is left becomes a chunk of its own.
Remainder_OverHeader(a, size) == a + size
Remainder(a, size) == a + HeaderSize + size
Split(a, size) ==
    LET rest == Remainder(a, size)
        new == [size |-> chunks[a].size - size - HeaderSize, isAllocated |-> FALSE,
                next |-> chunks[a].next, prev |-> a]
        next == chunks[a].next
    IN  IF chunks[a].size <= size + HeaderSize THEN chunks
        ELSE [x \in DOMAIN chunks |->
                IF x = rest THEN new
                ELSE IF x = a THEN [chunks[a] EXCEPT !.next = rest, !.size = size]
                ELSE IF x = next THEN [chunks[x] EXCEPT !.prev = rest]
                ELSE chunks[x]]

\* HeapChunk::tryMerge, first with the next chunk, then with the previous.
Joins(ch, a, b) == a # Null /\ b # Null /\ End(ch, a) = b
Unlink_LosesHeader(ch, a, b) ==
    LET merged == [ch EXCEPT ![a].size = @ + ch[b].size, ![a].next = ch[b].next]
    IN  IF ch[b].next = Null THEN merged ELSE [merged EXCEPT ![ch[b].next].prev = a]
Unlink(ch, a, b) ==
    LET merged == [ch EXCEPT ![a].size = @ + ch[b].size + HeaderSize,
                             ![a].next = ch[b].next]
    IN  IF ch[b].next = Null THEN merged ELSE [merged EXCEPT ![ch[b].next].prev = a]
MergeNext(ch, a) ==
    IF Joins(ch, a, ch[a].next) /\ ~ch[ch[a].next].isAllocated
    THEN Unlink(ch, a, ch[a].next) ELSE ch
MergePrev(ch, a) ==
    IF Joins(ch, ch[a].prev, a) /\ ~ch[ch[a].prev].isAllocated
    THEN Unlink(ch, ch[a].prev, a) ELSE ch
TryMerge(a) == MergePrev(MergeNext(chunks, a), a)

-----------------------------------------------------------------------------
(* Steps of a call.                                                        *)

Runs(c) == \A d \in Contexts : d > c => call[d].op = "idle"
At(c, op) == Runs(c) /\ call[c].op = op

\* alloc(size) begins; findSmallestHole starts at the head of the list.
Alloc(c, size) ==
    /\ At(c, "idle")
    /\ \E s \in Slots : held[s].at = Null
    /\ call' = [call EXCEPT ![c] = [Idle EXCEPT !.op = "find", !.size = size,
                                                !.cursor = heapList]]
    /\ UNCHANGED <<chunks, heapList, allocated, total, pages, held>>

\* One turn of the loop of findSmallestHole.
Fits_TakenToo(a, size) == chunks[a].size >= size
Fits(a, size) == Free(a) /\ chunks[a].size >= size
Better(a, b) == b = Null \/ chunks[a].size < chunks[b].size
Find(c) ==
    LET k == call[c]
    IN  /\ At(c, "find") /\ k.cursor # Null
        /\ call' = [call EXCEPT
              ![c].best = IF Fits(k.cursor, k.size) /\ Better(k.cursor, @) THEN k.cursor ELSE @,
              ![c].cursor = chunks[k.cursor].next]
        /\ UNCHANGED <<chunks, heapList, allocated, total, pages, held>>

\* requestMoreMemory, after the first search and never after the second.
PagesFor(size) == (size + HeaderSize + PageSize - 1) \div PageSize
Appended_Swapped(a, last) == [next |-> last, prev |-> Null]
Appended(a, last) == [next |-> Null, prev |-> last]
RequestMoreMemory(c, p) ==
    LET k == call[c]
        n == PagesFor(k.size)
        a == p * PageSize
        last == IF heapList = Null THEN Null ELSE CHOOSE x \in Linked : chunks[x].next = Null
        new == [size |-> n * PageSize - HeaderSize, isAllocated |-> FALSE,
                next |-> Appended(a, last).next, prev |-> Appended(a, last).prev]
    IN  /\ At(c, "find") /\ k.cursor = Null /\ k.best = Null /\ ~k.grown
        /\ p .. p + n - 1 \subseteq Pages \ pages
        /\ pages' = pages \cup (p .. p + n - 1)
        /\ total' = total + n * PageSize
        /\ chunks' = [x \in DOMAIN chunks |->
                        IF x = a THEN new
                        ELSE IF x = last THEN [chunks[x] EXCEPT !.next = a] ELSE chunks[x]]
        /\ heapList' = IF heapList = Null THEN a ELSE heapList
        /\ call' = [call EXCEPT ![c].grown = TRUE, ![c].cursor = heapList']
        /\ UNCHANGED <<allocated, held>>

\* No memory: alloc returns nullptr.
AllocFails(c) ==
    LET k == call[c]
    IN  /\ At(c, "find") /\ k.cursor = Null /\ k.best = Null
        /\ k.grown \/ \A p \in Pages : ~(p .. p + PagesFor(k.size) - 1 \subseteq Pages \ pages)
        /\ call' = [call EXCEPT ![c] = Idle]
        /\ UNCHANGED <<chunks, heapList, allocated, total, pages, held>>

SplitChunk(c) ==
    /\ At(c, "find") /\ call[c].cursor = Null /\ call[c].best # Null
    /\ chunks' = Split(call[c].best, call[c].size)
    /\ call' = [call EXCEPT ![c].op = "mark"]
    /\ UNCHANGED <<heapList, allocated, total, pages, held>>

Counted(c) == chunks[call[c].best].size
MarkChunk(c) ==
    /\ At(c, "mark")
    /\ chunks' = [chunks EXCEPT ![call[c].best].isAllocated = TRUE]
    /\ allocated' = allocated + Counted(c)
    /\ \E s \in Slots :
          /\ held[s].at = Null /\ \A t \in Slots : held[t].at = Null => s <= t
          /\ held' = [held EXCEPT ![s] = [at |-> call[c].best + HeaderSize, size |-> call[c].size]]
    /\ call' = [call EXCEPT ![c] = Idle]
    /\ UNCHANGED <<heapList, total, pages>>

\* free(p).
FreeBlock(c, s) ==
    LET a == held[s].at - HeaderSize
    IN  /\ At(c, "idle") /\ held[s].at # Null
        /\ chunks' = [chunks EXCEPT ![a].isAllocated = FALSE]
        /\ allocated' = allocated - chunks[a].size
        /\ held' = [held EXCEPT ![s] = [at |-> Null, size |-> 0]]
        /\ call' = [call EXCEPT ![c] = [Idle EXCEPT !.op = "merge", !.cursor = a]]
        /\ UNCHANGED <<heapList, total, pages>>

Merge(c) ==
    /\ At(c, "merge")
    /\ chunks' = TryMerge(call[c].cursor)
    /\ call' = [call EXCEPT ![c].op = "coalesce", ![c].cursor = heapList]
    /\ UNCHANGED <<heapList, allocated, total, pages, held>>

\* One turn of coalesceFreeBlocks, which goes on from the chunk it is at
\* even when that chunk has just been merged away.
Coalesce(c) ==
    LET a == call[c].cursor
    IN  /\ At(c, "coalesce") /\ a # Null
        /\ chunks' = IF Free(a) THEN TryMerge(a) ELSE chunks
        /\ call' = [call EXCEPT ![c].cursor = chunks'[a].next]
        /\ UNCHANGED <<heapList, allocated, total, pages, held>>

\* Once no call is on its way nobody has a pointer to a merged header.
Blank == [size |-> 0, isAllocated |-> FALSE, next |-> Null, prev |-> Null]
Forgotten == [a \in DOMAIN chunks |-> IF a \in Linked THEN chunks[a] ELSE Blank]
FreeReturns(c) ==
    /\ At(c, "coalesce") /\ call[c].cursor = Null
    /\ call' = [call EXCEPT ![c] = Idle]
    /\ chunks' = IF \A d \in Contexts \ {c} : call[d].op = "idle" THEN Forgotten ELSE chunks
    /\ UNCHANGED <<heapList, allocated, total, pages, held>>

Step(c) ==
    \/ Find(c)
    \/ \E p \in Pages : RequestMoreMemory(c, p)
    \/ AllocFails(c)
    \/ SplitChunk(c)
    \/ MarkChunk(c)
    \/ Merge(c)
    \/ Coalesce(c)
    \/ FreeReturns(c)

Init ==
    /\ chunks = [a \in Addresses |-> Blank]
    /\ heapList = Null /\ allocated = 0 /\ total = 0 /\ pages = {}
    /\ held = [s \in Slots |-> [at |-> Null, size |-> 0]]
    /\ call = [c \in Contexts |-> Idle]

Next ==
    \E c \in Contexts :
        \/ \E size \in RequestSizes : Alloc(c, size)
        \/ \E s \in Slots : FreeBlock(c, s)
        \/ Step(c)

Spec == Init /\ [][Next]_vars

\* Nothing in a call waits, and an interrupt returns.
FairSpec == Spec /\ \A c \in Contexts : WF_vars(Step(c))

-----------------------------------------------------------------------------
(* Properties.                                                             *)

Quiet == \A c \in Contexts : call[c].op = "idle"
Bytes(b) == b.at .. b.at + b.size - 1
ChunkBytes(a) == a .. End(chunks, a) - 1

\* Heap.h:57: alloc "Allocates a contiguous block of memory of the requested
\* size".  No two blocks share a byte, and none overlaps the header of a
\* chunk, however the calls interleave.
BlocksDisjoint ==
    \A s \in Slots :
        /\ \A t \in Slots \ {s} : Bytes(held[s]) \cap Bytes(held[t]) = {}
        /\ \A a \in Linked : Bytes(held[s]) \cap (a .. a + HeaderSize - 1) = {}

\* Between two calls the chunks of the list cover the pages of the heap
\* exactly once: splitting, merging and growing lose no byte and share none,
\* and the links backwards are those forwards (tryMerge goes back by them).
ChunksTile ==
    Quiet =>
        /\ UNION {ChunkBytes(a) : a \in Linked} = UNION {PageBytes(p) : p \in pages}
        /\ \A a, b \in Linked : a # b => ChunkBytes(a) \cap ChunkBytes(b) = {}
        /\ \A a \in Linked : chunks[a].next # Null => chunks[chunks[a].next].prev = a
        /\ \A a \in Linked : chunks[a].prev # Null => chunks[chunks[a].prev].next = a

\* Every call returns: the loops over the list that they change end.
CallsReturn ==
    \A c \in Contexts : call[c].op # "idle" ~> call[c].op = "idle"

\* The heap implements the abstract store of blocks.
Store == INSTANCE BlockStore WITH
             Slots <- Slots, Null <- Null, Addresses <- Addresses, RequestSizes <- RequestSizes,
             held <- held
IsStore == Store!Spec
=============================================================================
