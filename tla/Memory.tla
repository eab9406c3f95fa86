-------------------------------- MODULE Memory --------------------------------
(***************************************************************************)
(* Physical frames, the kernel's identity mapping and the page directories *)
(* of user processes: PalmyraOS/source/core/memory/PhysicalMemory.cpp and  *)
(* paging.cpp, with the parts of Process.cpp, ProcessManager.cpp,          *)
(* SystemCalls.cpp and KernelHeap.cpp that allocate and free pages.        *)
(*                                                                         *)
(* A system call runs with interrupts off, so only one of them allocates   *)
(* at a time.  It is a sequence of steps here because mapping a page may   *)
(* need a page table, the table needs a frame and that frame is mapped     *)
(* too: the recursion of mapPage and getTable is the stack "todo".         *)
(*                                                                         *)
(* The state starts after boot: initializeVirtualMemory has mapped the     *)
(* frames below BootFrames one to one, and has allocated the tables of the *)
(* kernel directory for every frame, so no kernel table is ever missing.   *)
(***************************************************************************)
EXTENDS Integers, Sequences, FiniteSets

CONSTANTS
    FrameCount,    \* framesCount_
    WordBits,      \* bits in a word of frameBits_ (32)
    BootFrames,    \* frames in use when boot ends: kernel, directory, tables
    KernelPages,   \* kernelLastPage: every process maps the pages below it
    PageCount,     \* pages of the virtual address space
    TableSize,     \* entries of a page table (1024)
    Processes,
    StartSizes,    \* pages of the directory and the two stacks of a process
    LoadPages,     \* pages where programs are linked to; brk grows from there
    MaxRequest,    \* bound of the model: pages of one request
    MaxFailures    \* bound of the model: requests of a process that may fail
                   \* for lack of memory (0: there is always enough)

Frames == 0 .. FrameCount - 1
Pages == 0 .. PageCount - 1
Boot == 0 .. BootFrames - 1
TableOf(page) == page \div TableSize
Tables == {TableOf(page) : page \in Pages}
None == 0

ASSUME MemoryAssumption ==
    /\ FrameCount \in Nat /\ WordBits \in Nat \ {0} /\ TableSize \in Nat \ {0}
    /\ BootFrames \in 1 .. FrameCount /\ KernelPages \in 1 .. BootFrames
    /\ PageCount \in Nat /\ PageCount >= FrameCount
    /\ MaxRequest \in 0 .. FrameCount /\ MaxFailures \in Nat
    /\ StartSizes \in Seq(1 .. MaxRequest)
    /\ LoadPages \subseteq Pages \ {None}

VARIABLES
    used,        \* frameBits_
    free,        \* freeFramesCount_
    kernelMap,   \* frames the kernel directory maps, each to its own address
    kernelOwned, \* frames of the kernel heap
    state,       \* of each process: "new", "live" or "dead"
    owned,       \* physicalPages_: how often a frame is registered
    maxBrk,      \* max_brk: the page after the program and its heap
    map,         \* the frame each page of a process is mapped to
    tables,      \* the page tables of a process
    client,      \* the process the current system call allocates for
    todo,        \* what this call still has to do
    halted,      \* kernelPanic was called
    failed       \* history: some request found no memory and went on

processVars == <<state, owned, maxBrk, map, tables>>
vars == <<used, free, kernelMap, kernelOwned, processVars, client, todo,
          halted, failed>>

Run(first, n) == first .. first + n - 1
Alloc(n, at) == [op |-> "alloc", n |-> n, frame |-> None, page |-> at]
Map(frame, page, n) == [op |-> "map", n |-> n, frame |-> frame, page |-> page]

-----------------------------------------------------------------------------
(* The frame allocator.                                                    *)

\* findFirstFreeFrames looks at every frame ...
FitsAt_OffByOne(f, n) == f + n <= FrameCount /\ Run(f, n - 1) \cap used = {}
FitsAt(f, n) == f + n <= FrameCount /\ Run(f, n) \cap used = {}
FirstRun(f, n) ==
    /\ FitsAt(f, n)
    /\ \A g \in Frames : FitsAt(g, n) => f <= g

\* ... findFirstFreeFrame only at those of the complete words of the bitmap.
InWord(f) == f < WordBits * (FrameCount \div WordBits)
Available(f) == f \in Frames \ used /\ InWord(f)
FirstFree(f) == Available(f) /\ \A g \in Frames : Available(g) => f <= g

NoRun(n) == \A f \in Frames : ~FitsAt(f, n)
NoFrame == \A f \in Frames : ~Available(f)

\* allocateFrames, and allocatePages that maps the frames in the kernel.
Counted_OnlyOne(n) == free - 1
Counted(n) == free - n
Mapped_Forgotten(frames) == kernelMap
Mapped(frames) == kernelMap \cup frames
Take(frames, n) ==
    /\ used' = used \cup frames
    /\ free' = Counted(n)
    /\ kernelMap' = Mapped(frames)

-----------------------------------------------------------------------------
(* Steps of a system call.                                                 *)

OwnedFrames(p) == {f \in Frames : owned[p][f] > 0}

Working(op) == ~halted /\ todo # <<>> /\ Head(todo).op = op
Panic ==
    /\ halted' = TRUE
    /\ UNCHANGED <<used, free, kernelMap, kernelOwned, processVars, client, todo, failed>>

\* Process::allocatePages and allocatePagesAt: allocate, register and map.
\* Nobody looks at the result: with no memory left the addresses from
\* nullptr on are registered and mapped.
Registered_Never(first, n) == owned[client]
Registered(first, n) ==
    [f \in Frames |-> owned[client][f] + (IF f \in Run(first, n) THEN 1 ELSE 0)]
Register(first, item) ==
    /\ owned' = [owned EXCEPT ![client] = Registered(first, item.n)]
    /\ todo' = <<Map(first, IF item.page = None THEN first ELSE item.page, item.n)>>
                 \o Tail(todo)

\* brk and the loader go on behind the pages they got.
Grown(brk, item) == IF item.page = None THEN brk ELSE item.page + item.n

AllocateStep ==
    /\ Working("alloc")
    /\ \E first \in Frames :
          /\ FirstRun(first, Head(todo).n)
          /\ Take(Run(first, Head(todo).n), Head(todo).n)
          /\ Register(first, Head(todo))
    /\ maxBrk' = [maxBrk EXCEPT ![client] = Grown(@, Head(todo))]
    /\ UNCHANGED <<kernelOwned, state, map, tables, client, halted, failed>>

\* Only the memory of the page directory is used at once: a page fault.
DirectoryFails ==
    /\ Working("alloc") /\ OwnedFrames(client) = {}
    /\ MaxFailures > 0 /\ NoRun(Head(todo).n)
    /\ Panic

AllocateFails ==
    /\ Working("alloc") /\ OwnedFrames(client) # {}
    /\ owned[client][None] < MaxFailures /\ NoRun(Head(todo).n)
    /\ Register(None, Head(todo))
    /\ failed' = TRUE
    /\ UNCHANGED <<used, free, kernelMap, kernelOwned, state, maxBrk, map, tables,
                   client, halted>>

\* mapPages is done with the run at the head, one page after the other.
Rest(item) == Map(item.frame + 1, item.page + 1, item.n - 1)
Popped_SkipsLast == IF Head(todo).n <= 2 THEN Tail(todo) ELSE <<Rest(Head(todo))>> \o Tail(todo)
Popped == IF Head(todo).n <= 1 THEN Tail(todo) ELSE <<Rest(Head(todo))>> \o Tail(todo)
NullPage == Head(todo).frame = None \/ Head(todo).page = None
HasTable == tables[client][TableOf(Head(todo).page)] # None

SkipNull ==
    /\ Working("map") /\ NullPage
    /\ todo' = Popped
    /\ UNCHANGED <<used, free, kernelMap, kernelOwned, processVars, client, halted, failed>>

MapPage ==
    /\ Working("map") /\ ~NullPage /\ HasTable
    /\ map' = [map EXCEPT ![client][Head(todo).page] = Head(todo).frame]
    /\ todo' = Popped
    /\ UNCHANGED <<used, free, kernelMap, kernelOwned, state, owned, maxBrk, tables,
                   client, halted, failed>>

\* getTable: the new table is mapped in the kernel, and then in the
\* directory it belongs to, before the page that needed it.
AllocateTable ==
    /\ Working("map") /\ ~NullPage /\ ~HasTable
    /\ \E t \in Frames :
          /\ FirstFree(t)
          /\ Take({t}, 1)
          /\ tables' = [tables EXCEPT ![client][TableOf(Head(todo).page)] = t]
          /\ todo' = <<Map(t, t, 1)>> \o todo
    /\ UNCHANGED <<kernelOwned, state, owned, maxBrk, map, client, halted, failed>>

TableFails ==
    /\ Working("map") /\ ~NullPage /\ ~HasTable
    /\ MaxFailures > 0 /\ NoFrame
    /\ Panic

-----------------------------------------------------------------------------
(* Operations.                                                             *)

Begins(p, items) ==
    /\ ~halted /\ todo = <<>>
    /\ client' = p
    /\ todo' = items

\* The constructor of Process; the kernel space is mapped from nullptr on.
CreateProcess(p) ==
    /\ state[p] = "new"
    /\ Begins(p, [i \in DOMAIN StartSizes |-> Alloc(StartSizes[i], None)]
                   \o <<Map(None, None, KernelPages)>>)
    /\ state' = [state EXCEPT ![p] = "live"]
    /\ \E page \in LoadPages : maxBrk' = [maxBrk EXCEPT ![p] = page]
    /\ UNCHANGED <<used, free, kernelMap, kernelOwned, owned, map, tables, halted, failed>>

\* mmap, initWindow and the arguments of a program.
AllocatePages(p, n) ==
    /\ state[p] = "live"
    /\ Begins(p, <<Alloc(n, None)>>)
    /\ UNCHANGED <<used, free, kernelMap, kernelOwned, processVars, halted, failed>>

\* The segments of a program, and brk.
AllocatePagesAt(p, n) ==
    /\ state[p] = "live" /\ maxBrk[p] + n <= PageCount
    /\ Begins(p, <<Alloc(n, maxBrk[p])>>)
    /\ UNCHANGED <<used, free, kernelMap, kernelOwned, processVars, halted, failed>>

\* Process::kill: freePage panics on a page the kernel does not map.
Released(p) == OwnedFrames(p) \ {None}
Freeable(p) == \A f \in Released(p) : f \in kernelMap /\ owned[p][f] = 1
Unmapped(p) == kernelMap \ Released(p)
Kill(p) ==
    /\ ~halted /\ todo = <<>> /\ state[p] = "live"
    /\ Freeable(p)
    /\ used' = used \ Released(p)
    /\ free' = free + Cardinality(Released(p))
    /\ kernelMap' = Unmapped(p)
    /\ owned' = [owned EXCEPT ![p] = [f \in Frames |-> 0]]
    /\ state' = [state EXCEPT ![p] = "dead"]
    /\ UNCHANGED <<kernelOwned, maxBrk, map, tables, client, todo, halted, failed>>

KillPanics(p) ==
    /\ ~halted /\ todo = <<>> /\ state[p] = "live"
    /\ ~Freeable(p)
    /\ Panic

\* HeapManager::allocateMemory; its pages are never given back.
GrowHeap(n) ==
    /\ ~halted /\ todo = <<>>
    /\ \E first \in Frames :
          /\ FirstRun(first, n)
          /\ Take(Run(first, n), n)
          /\ kernelOwned' = kernelOwned \cup Run(first, n)
    /\ UNCHANGED <<processVars, client, todo, halted, failed>>

Init ==
    /\ used = Boot /\ free = FrameCount - BootFrames
    /\ kernelMap = Boot \ {None} /\ kernelOwned = {}
    /\ state = [p \in Processes |-> "new"]
    /\ owned = [p \in Processes |-> [f \in Frames |-> 0]]
    /\ maxBrk = [p \in Processes |-> None]
    /\ map = [p \in Processes |-> [page \in Pages |-> None]]
    /\ tables = [p \in Processes |-> [t \in Tables |-> None]]
    /\ client \in Processes /\ todo = <<>> /\ halted = FALSE /\ failed = FALSE

Next ==
    \/ AllocateStep
    \/ AllocateFails
    \/ DirectoryFails
    \/ SkipNull
    \/ MapPage
    \/ AllocateTable
    \/ TableFails
    \/ \E p \in Processes :
          \/ CreateProcess(p)
          \/ \E n \in 1 .. MaxRequest :
                \/ AllocatePages(p, n)
                \/ AllocatePagesAt(p, n)
          \/ Kill(p)
          \/ KillPanics(p)
    \/ \E n \in 1 .. MaxRequest : GrowHeap(n)

Spec == Init /\ [][Next]_vars

-----------------------------------------------------------------------------
(* Properties.                                                             *)

TableFrames(p) == {tables[p][t] : t \in Tables} \ {None}

Items ==
    [op : {"alloc", "map"}, n : Nat, frame : Nat, page : Nat]

TypeOK ==
    /\ used \subseteq Frames /\ free \in Int
    /\ kernelMap \subseteq Frames /\ kernelOwned \subseteq Frames
    /\ state \in [Processes -> {"new", "live", "dead"}]
    /\ owned \in [Processes -> [Frames -> Nat]]
    /\ maxBrk \in [Processes -> 0 .. PageCount]
    /\ map \in [Processes -> [Pages -> Frames]]
    /\ tables \in [Processes -> [Tables -> Frames]]
    /\ client \in Processes
    /\ todo \in Seq(Items)
    /\ halted \in BOOLEAN /\ failed \in BOOLEAN

\* As long as no request went on without memory, every frame has one role at
\* most: kernel and boot, kernel heap, pages of one process, one page table
\* of one process; and a frame with a role is marked in the bitmap, so no
\* allocation returns it a second time.
Held(p) == OwnedFrames(p) \cup TableFrames(p)

OneRole ==
    ~failed =>
        /\ Boot \cup kernelOwned \subseteq used
        /\ Boot \cap kernelOwned = {}
        /\ \A p \in Processes :
              /\ Held(p) \subseteq used \ (Boot \cup kernelOwned)
              /\ OwnedFrames(p) \cap TableFrames(p) = {}
              /\ \A f \in Frames : owned[p][f] <= 1
              /\ \A q \in Processes : p # q => Held(p) \cap Held(q) = {}

\* Until then a live process reaches nothing but its own pages, its page
\* tables and the kernel space every process maps: never a frame that is
\* free or that belongs to another process.
Isolation ==
    ~failed =>
        \A p \in Processes : state[p] = "live" =>
            \A page \in Pages : map[p][page] \in Held(p) \cup (0 .. KernelPages - 1)

\* Until then kill() never panics, not even in the middle of a request: each
\* page is registered once, and mapped in the kernel's directory.
KillNeverPanics ==
    ~failed => \A p \in Processes : Freeable(p)

\* getFreeFrames() counts the frames that are free, whatever failed and
\* whatever was freed since.
FreeIsCounted == free = Cardinality(Frames \ used)

\* The kernel reaches no frame that is free, even after requests that could
\* not be met: what is freed twice is noticed by freePage, which panics.
KernelMapsUsed == kernelMap \subseteq used

\* Process.cpp:351: "Make them accessible to the process".  Between two
\* system calls a process still reaches every page it was given.
OwnedAccessible ==
    ~failed /\ ~halted /\ todo = <<>> =>
        \A p \in Processes : state[p] = "live" =>
            \A f \in OwnedFrames(p) : \E page \in Pages : map[p][page] = f

\* PhysicalMemory.cpp:64: "Mark all frames until the end of the reserved
\* space".  The frames of the kernel are never free.
KernelStaysReserved == 0 .. KernelPages - 1 \subseteq used
=============================================================================
