---------------------------- MODULE Memory_proofs ----------------------------
(***************************************************************************)
(* Safety of the page allocation, for every size of the memory, of the     *)
(* page tables and of the kernel, and any number of processes.             *)
(*                                                                         *)
(* MemoryInv strengthens the invariants of the model by what is true in    *)
(* the middle of a system call: the runs of frames that the stack "todo"   *)
(* has still to map already belong to the process (or to the kernel space  *)
(* it shares), and nothing is allocated for a process that is not live.    *)
(***************************************************************************)
EXTENDS Memory, TLAPS, FiniteSetTheorems, SequenceTheorems

\* What can be on the stack: an address range inside of the memory.
SafeItems ==
    {i \in Items :
        /\ i.n >= 1 /\ i.page + i.n <= PageCount
        /\ i.op = "alloc" => i.n <= FrameCount
        /\ i.op = "map" => i.frame + i.n <= FrameCount}

TypeInv == TypeOK /\ todo \in Seq(SafeItems)

\* Frames the current process may map.
Reach(p) == Held(p) \cup (0 .. KernelPages - 1)
GoodItems ==
    {i \in SafeItems :
        ~failed /\ i.op = "map" => Run(i.frame, i.n) \subseteq Reach(client)}

NewIsEmpty ==
    \A p \in Processes : state[p] = "new" => \A page \in Pages : map[p][page] = None
ClientIsLive == todo # <<>> => state[client] = "live"

\* The whole invariant.
MemoryInv ==
    /\ TypeInv
    /\ OneRole
    /\ KillNeverPanics
    /\ ClientIsLive
    /\ NewIsEmpty
    /\ todo \in Seq(GoodItems)
    /\ Isolation

-----------------------------------------------------------------------------
(* Lemmas about the stack and the allocator.                               *)

\* Pushing on the stack keeps it a stack of the same kind of items.
LEMMA PushIn ==
    ASSUME NEW S, NEW s \in Seq(S), NEW x \in S
    PROVE  <<x>> \o s \in Seq(S)
<1>1. <<x>> \in Seq(S)
    OBVIOUS
<1> QED BY <1>1, ConcatProperties

\* Popping one page of the run at the head keeps the kind of the items when
\* it holds of the rest of that run.
LEMMA PoppedIn ==
    ASSUME NEW S, todo \in Seq(S), todo # <<>>,
           Head(todo).n \in Nat,
           Head(todo).n > 1 => Rest(Head(todo)) \in S
    PROVE  Popped \in Seq(S)
<1>1. Tail(todo) \in Seq(S)
    BY HeadTailProperties
<1>2. CASE Head(todo).n <= 1
    BY <1>1, <1>2 DEF Popped
<1>3. CASE Head(todo).n > 1
    BY <1>1, <1>3, PushIn DEF Popped
<1> QED BY <1>2, <1>3

\* What is at the head of the stack, and what is left below it.
LEMMA TopOfStack ==
    ASSUME NEW S, todo \in Seq(S), todo # <<>>
    PROVE  Head(todo) \in S /\ Tail(todo) \in Seq(S)
BY HeadTailProperties

\* A run of n frames has n members.
LEMMA RunSize ==
    ASSUME NEW f \in Nat, NEW n \in Nat
    PROVE  IsFiniteSet(Run(f, n)) /\ Cardinality(Run(f, n)) = n
<1>1. f \in Int /\ f + n - 1 \in Int
    OBVIOUS
<1> QED BY <1>1, FS_Interval DEF Run

\* Requests and runs inside of their ranges are safe to push.
LEMMA MapIsSafe ==
    ASSUME NEW f \in Nat, NEW page \in Nat, NEW n \in Nat \ {0},
           f + n <= FrameCount, page + n <= PageCount
    PROVE  Map(f, page, n) \in SafeItems
BY DEF Map, SafeItems, Items

LEMMA AllocIsSafe ==
    ASSUME NEW page \in Nat, NEW n \in Nat \ {0}, n <= FrameCount, page + n <= PageCount
    PROVE  Alloc(n, page) \in SafeItems
BY DEF Alloc, SafeItems, Items, None

LEMMA RestIsSafe ==
    ASSUME NEW i \in SafeItems, i.op = "map", i.n > 1
    PROVE  Rest(i) \in SafeItems
<1>1. /\ i.frame \in Nat /\ i.page \in Nat /\ i.n \in Nat
      /\ i.frame + i.n <= FrameCount /\ i.page + i.n <= PageCount
    BY DEF SafeItems, Items
<1>2. FrameCount \in Nat /\ PageCount \in Nat
    BY MemoryAssumption
<1>3. \A f, n, c \in Nat : f + n <= c => (f + 1) + (n - 1) <= c
    OBVIOUS
<1>4. /\ i.frame + 1 \in Nat /\ i.page + 1 \in Nat /\ i.n - 1 \in Nat \ {0}
    BY <1>1
<1> QED BY <1>1, <1>2, <1>3, <1>4, MapIsSafe DEF Rest

\* A run that fits is inside of the memory.
LEMMA RunInFrames ==
    ASSUME NEW f \in Nat, NEW n \in Nat, f + n <= FrameCount
    PROVE  Run(f, n) \subseteq Frames
<1>1. FrameCount \in Nat
    BY MemoryAssumption
<1> QED BY <1>1 DEF Run, Frames

-----------------------------------------------------------------------------
(* Types.                                                                  *)

LEMMA TypeInit == Init => TypeInv
<1> SUFFICES ASSUME Init PROVE TypeInv
    OBVIOUS
<1>1. todo \in Seq(SafeItems) /\ todo \in Seq(Items)
    BY EmptySeq DEF Init
<1>2. None \in Frames
    BY MemoryAssumption DEF None, Frames
<1>3. TypeOK
    <2>1. used \subseteq Frames /\ kernelMap \subseteq Frames /\ free \in Int
        BY MemoryAssumption DEF Init, Boot, Frames
    <2>2. maxBrk \in [Processes -> 0 .. PageCount]
        BY MemoryAssumption DEF Init, None
    <2> QED BY <1>1, <1>2, <2>1, <2>2 DEF Init, TypeOK
<1> QED BY <1>1, <1>3 DEF TypeInv

LEMMA TypeStep == TypeInv /\ [Next]_vars => TypeInv'
<1> SUFFICES ASSUME TypeInv, [Next]_vars PROVE TypeInv'
    OBVIOUS
<1> USE MemoryAssumption DEF TypeInv, TypeOK
<1>0. SafeItems \subseteq Items /\ SafeItems' = SafeItems /\ Items' = Items
    BY DEF SafeItems, Items
<1>s. ASSUME todo' \in Seq(SafeItems) PROVE todo' \in Seq(Items)
    BY <1>0, <1>s, SeqMonotonic
<1>t. ASSUME todo # <<>>
      PROVE  /\ Head(todo) \in SafeItems /\ Tail(todo) \in Seq(SafeItems)
             /\ Head(todo).n \in Nat /\ Head(todo).frame \in Nat /\ Head(todo).page \in Nat
             /\ Head(todo).n >= 1 /\ Head(todo).page + Head(todo).n <= PageCount
             /\ Head(todo).op = "alloc" => Head(todo).n <= FrameCount
             /\ Head(todo).op = "map" => Head(todo).frame + Head(todo).n <= FrameCount
             /\ Head(todo).op \in {"alloc", "map"}
    <2>1. Head(todo) \in SafeItems /\ Tail(todo) \in Seq(SafeItems)
        BY <1>t, TopOfStack
    <2> QED BY <2>1 DEF SafeItems, Items
<1>p. ASSUME Working("map") PROVE Popped \in Seq(SafeItems)
    <2>1. ASSUME Head(todo).n > 1 PROVE Rest(Head(todo)) \in SafeItems
        BY <1>p, <1>t, <2>1, RestIsSafe DEF Working
    <2>2. todo \in Seq(SafeItems) /\ todo # <<>> /\ Head(todo).n \in Nat
        BY <1>p, <1>t DEF Working
    <2> QED BY <2>1, <2>2, PoppedIn
<1>r. ASSUME NEW first \in Frames, Working("alloc"), Head(todo).n <= FrameCount,
             first + Head(todo).n <= FrameCount, Register(first, Head(todo))
      PROVE  owned' \in [Processes -> [Frames -> Nat]] /\ todo' \in Seq(SafeItems)
    <2>1. Registered(first, Head(todo).n) \in [Frames -> Nat]
        BY DEF Registered
    <2>2. Map(first, IF Head(todo).page = None THEN first ELSE Head(todo).page, Head(todo).n)
             \in SafeItems
        <3> DEFINE page == IF Head(todo).page = None THEN first ELSE Head(todo).page
        <3>1. /\ page \in Nat /\ page + Head(todo).n <= PageCount
              /\ first \in Nat /\ Head(todo).n \in Nat \ {0}
            BY <1>r, <1>t DEF Working, Frames
        <3> HIDE DEF TypeInv, TypeOK, page
        <3>2. Map(first, page, Head(todo).n) \in SafeItems
            BY <1>r, <3>1, MapIsSafe
        <3> QED BY <3>2 DEF page
    <2> QED BY <1>r, <1>t, <2>1, <2>2, PushIn DEF Register, Working
<1>1. CASE AllocateStep
    <2>1. PICK first \in Frames :
             /\ FirstRun(first, Head(todo).n)
             /\ Take(Run(first, Head(todo).n), Head(todo).n)
             /\ Register(first, Head(todo))
        BY <1>1 DEF AllocateStep
    <2>2. Working("alloc") /\ todo # <<>> /\ Head(todo).op = "alloc"
        BY <1>1 DEF AllocateStep, Working
    <2>3. owned' \in [Processes -> [Frames -> Nat]] /\ todo' \in Seq(SafeItems)
        BY <2>1, <2>2, <1>t, <1>r DEF FirstRun, FitsAt
    <2>4. used' \subseteq Frames /\ kernelMap' \subseteq Frames /\ free' \in Int
        <3>1. Run(first, Head(todo).n) \subseteq Frames
            BY <2>1, <2>2, <1>t, RunInFrames DEF FirstRun, FitsAt, Frames
        <3> QED BY <2>1, <2>2, <1>t, <3>1 DEF Take, Mapped, Counted
    <2>5. Grown(maxBrk[client], Head(todo)) \in 0 .. PageCount
        BY <2>2, <1>t DEF Grown
    <2>6. maxBrk' \in [Processes -> 0 .. PageCount]
        BY <1>1, <2>5 DEF AllocateStep
    <2> QED BY <1>1, <1>s, <2>3, <2>4, <2>6 DEF AllocateStep
<1>2. CASE AllocateFails
    <2>1. Working("alloc") /\ todo # <<>> /\ Head(todo).op = "alloc"
        BY <1>2 DEF AllocateFails, Working
    <2>2. None \in Frames /\ None + Head(todo).n <= FrameCount
        BY <2>1, <1>t DEF None, Frames
    <2>3. owned' \in [Processes -> [Frames -> Nat]] /\ todo' \in Seq(SafeItems)
        BY <1>2, <2>1, <2>2, <1>t, <1>r DEF AllocateFails
    <2> QED BY <1>2, <1>s, <2>3 DEF AllocateFails
<1>3. CASE SkipNull
    BY <1>3, <1>p, <1>s DEF SkipNull, processVars
<1>4. CASE MapPage
    <2>1. Head(todo).frame \in Frames /\ Working("map")
        BY <1>4, <1>t DEF MapPage, Working, Frames
    <2>2. map' \in [Processes -> [Pages -> Frames]]
        BY <1>4, <2>1 DEF MapPage
    <2> QED BY <1>4, <1>p, <1>s, <2>1, <2>2 DEF MapPage
<1>5. CASE AllocateTable
    <2>1. PICK t \in Frames :
             /\ FirstFree(t)
             /\ Take({t}, 1)
             /\ tables' = [tables EXCEPT ![client][TableOf(Head(todo).page)] = t]
             /\ todo' = <<Map(t, t, 1)>> \o todo
        BY <1>5 DEF AllocateTable
    <2>2. Map(t, t, 1) \in SafeItems
        BY DEF Map, SafeItems, Items, Frames
    <2>3. todo' \in Seq(SafeItems)
        BY <2>1, <2>2, PushIn
    <2>4. tables' \in [Processes -> [Tables -> Frames]]
        BY <2>1
    <2>5. used' \subseteq Frames /\ kernelMap' \subseteq Frames /\ free' \in Int
        BY <2>1 DEF Take, Mapped, Counted
    <2> QED BY <1>5, <1>s, <2>3, <2>4, <2>5 DEF AllocateTable
<1>6. CASE DirectoryFails \/ TableFails \/ \E p \in Processes : KillPanics(p)
    BY <1>6 DEF DirectoryFails, TableFails, KillPanics, Panic, processVars
<1>7. ASSUME NEW p \in Processes, CreateProcess(p) PROVE TypeInv'
    <2>1. Map(None, None, KernelPages) \in SafeItems
        BY DEF Map, SafeItems, Items, None
    <2>2. \A i \in DOMAIN StartSizes : Alloc(StartSizes[i], None) \in SafeItems
        <3>1. ASSUME NEW i \in DOMAIN StartSizes PROVE StartSizes[i] \in 1 .. MaxRequest
            BY ElementOfSeq
        <3> QED BY <3>1 DEF Alloc, SafeItems, Items, None
    <2>3. /\ [i \in DOMAIN StartSizes |-> Alloc(StartSizes[i], None)] \in Seq(SafeItems)
          /\ <<Map(None, None, KernelPages)>> \in Seq(SafeItems)
        <3>1. DOMAIN StartSizes = 1 .. Len(StartSizes) /\ Len(StartSizes) \in Nat
            BY LenProperties
        <3> QED BY <2>1, <2>2, <3>1, IsASeq
    <2>4. todo' \in Seq(SafeItems) /\ client' \in Processes
        BY <1>7, <2>3, ConcatProperties DEF CreateProcess, Begins
    <2>5. maxBrk' \in [Processes -> 0 .. PageCount]
        BY <1>7 DEF CreateProcess, Pages
    <2> QED BY <1>7, <1>s, <2>4, <2>5 DEF CreateProcess, Begins
<1>8. ASSUME NEW p \in Processes, NEW n \in 1 .. MaxRequest,
             AllocatePages(p, n) \/ AllocatePagesAt(p, n)
      PROVE  TypeInv'
    <2>1. CASE AllocatePages(p, n)
        <3>1. Alloc(n, None) \in SafeItems
            BY DEF Alloc, SafeItems, Items, None
        <3>2. todo' \in Seq(SafeItems)
            BY <2>1, <3>1 DEF AllocatePages, Begins
        <3> QED BY <2>1, <1>s, <3>2 DEF AllocatePages, Begins, processVars
    <2>2. CASE AllocatePagesAt(p, n)
        <3>1. Alloc(n, maxBrk[p]) \in SafeItems
            BY <2>2 DEF AllocatePagesAt, Alloc, SafeItems, Items, None
        <3>2. todo' \in Seq(SafeItems)
            BY <2>2, <3>1 DEF AllocatePagesAt, Begins
        <3> QED BY <2>2, <1>s, <3>2 DEF AllocatePagesAt, Begins, processVars
    <2> QED BY <1>8, <2>1, <2>2
<1>9. ASSUME NEW p \in Processes, Kill(p) PROVE TypeInv'
    <2>1. Released(p) \subseteq Frames /\ IsFiniteSet(Frames)
        BY FS_Interval DEF Released, OwnedFrames, Frames
    <2>2. Cardinality(Released(p)) \in Nat
        BY <2>1, FS_Subset, FS_CardinalityType
    <2> QED BY <1>9, <2>2 DEF Kill, Unmapped
<1>10. ASSUME NEW n \in 1 .. MaxRequest, GrowHeap(n) PROVE TypeInv'
    BY <1>10 DEF GrowHeap, Take, Mapped, Counted, FirstRun, FitsAt, Run, Frames, processVars
<1>11. CASE UNCHANGED vars
    BY <1>11 DEF vars, processVars
<1> QED BY <1>1, <1>2, <1>3, <1>4, <1>5, <1>6, <1>7, <1>8, <1>9, <1>10, <1>11 DEF Next

\* Types are kept: no request, freed page or table takes a frame, a page or
\* a program break out of its range.
THEOREM TypeTheorem == Spec => []TypeOK
<1>1. TypeInv => TypeOK
    BY DEF TypeInv
<1> QED BY <1>1, TypeInit, TypeStep, PTL DEF Spec

-----------------------------------------------------------------------------
(* The counter and the kernel's mapping.                                   *)

\* Taking a run of free frames.
LEMMA TakeCounts ==
    ASSUME TypeInv, KernelMapsUsed, FreeIsCounted,
           NEW f \in Nat, NEW n \in Nat, f + n <= FrameCount,
           Run(f, n) \cap used = {}, Take(Run(f, n), n)
    PROVE  KernelMapsUsed' /\ FreeIsCounted'
<1>1. IsFiniteSet(Frames) /\ Run(f, n) \subseteq Frames
    BY RunInFrames, MemoryAssumption, FS_Interval DEF Frames
<1>2. IsFiniteSet(Frames \ used)
    BY <1>1, FS_Difference
<1>3. Frames \ used' = (Frames \ used) \ Run(f, n)
    BY DEF Take
<1>4. (Frames \ used) \cap Run(f, n) = Run(f, n)
    BY <1>1
<1>5. Cardinality(Frames \ used') = Cardinality(Frames \ used) - n
    <2>1. Cardinality((Frames \ used) \ Run(f, n))
            = Cardinality(Frames \ used) - Cardinality((Frames \ used) \cap Run(f, n))
        BY <1>2, FS_Difference
    <2>2. Cardinality((Frames \ used) \cap Run(f, n)) = n
        BY <1>4, RunSize
    <2>3. Cardinality(Frames \ used') = Cardinality((Frames \ used) \ Run(f, n))
        BY <1>3
    <2> QED BY <2>1, <2>2, <2>3
<1> QED BY <1>5 DEF Take, Counted, Mapped, KernelMapsUsed, FreeIsCounted

\* What a dying process releases was used, so each frame counts once.
LEMMA KillCounts ==
    ASSUME TypeInv, KernelMapsUsed, FreeIsCounted, NEW p \in Processes, Kill(p)
    PROVE  KernelMapsUsed' /\ FreeIsCounted'
<1> DEFINE R == Released(p)
<1>1. IsFiniteSet(Frames) /\ R \subseteq Frames /\ used \subseteq Frames
    <2>1. IsFiniteSet(0 .. FrameCount - 1)
        BY MemoryAssumption, FS_Interval
    <2> QED BY <2>1 DEF Frames, Released, OwnedFrames, TypeInv, TypeOK
<1>2. R \subseteq used
    BY DEF Kill, Freeable, KernelMapsUsed
<1>3. IsFiniteSet(Frames \ used) /\ IsFiniteSet(R)
    BY <1>1, FS_Difference, FS_Subset
<1>4. Frames \ used' = (Frames \ used) \cup R
    BY <1>1 DEF Kill
<1>5. (Frames \ used) \cap R = {}
    BY <1>2
<1>6. Cardinality(Frames \ used') = Cardinality(Frames \ used) + Cardinality(R)
    <2>1. /\ Cardinality((Frames \ used) \cup R)
               = Cardinality(Frames \ used) + Cardinality(R)
                   - Cardinality((Frames \ used) \cap R)
          /\ Cardinality(Frames \ used) \in Nat /\ Cardinality(R) \in Nat
        BY <1>3, FS_Union, FS_CardinalityType
    <2>2. Cardinality((Frames \ used) \cap R) = 0
        BY <1>5, FS_EmptySet
    <2>3. Cardinality(Frames \ used') = Cardinality((Frames \ used) \cup R)
        BY <1>4
    <2> HIDE DEF R
    <2> QED BY <2>1, <2>2, <2>3
<1>7. kernelMap' \subseteq used'
    BY DEF Kill, Unmapped, KernelMapsUsed
<1> QED BY <1>6, <1>7 DEF Kill, KernelMapsUsed, FreeIsCounted

LEMMA CountInit == Init => KernelMapsUsed /\ FreeIsCounted
<1> SUFFICES ASSUME Init PROVE KernelMapsUsed /\ FreeIsCounted
    OBVIOUS
<1>1. Frames \ used = BootFrames .. FrameCount - 1
    BY MemoryAssumption DEF Init, Frames, Boot
<1>2. Cardinality(BootFrames .. FrameCount - 1) = FrameCount - BootFrames
    <2>1. BootFrames \in Int /\ FrameCount - 1 \in Int /\ BootFrames <= FrameCount
        BY MemoryAssumption
    <2> QED BY <2>1, MemoryAssumption, FS_Interval
<1> QED BY <1>1, <1>2 DEF Init, KernelMapsUsed, FreeIsCounted

LEMMA CountStep ==
    TypeInv /\ KernelMapsUsed /\ FreeIsCounted /\ [Next]_vars
        => KernelMapsUsed' /\ FreeIsCounted'
<1> SUFFICES ASSUME TypeInv, KernelMapsUsed, FreeIsCounted, [Next]_vars
             PROVE  KernelMapsUsed' /\ FreeIsCounted'
    OBVIOUS
<1>0. ASSUME UNCHANGED <<used, free, kernelMap>> PROVE KernelMapsUsed' /\ FreeIsCounted'
    BY <1>0 DEF KernelMapsUsed, FreeIsCounted
<1>1. CASE AllocateStep
    <2>1. PICK f \in Frames :
             FirstRun(f, Head(todo).n) /\ Take(Run(f, Head(todo).n), Head(todo).n)
        BY <1>1 DEF AllocateStep
    <2>2. Head(todo).n \in Nat
        <3>1. todo # <<>> /\ todo \in Seq(SafeItems)
            BY <1>1 DEF AllocateStep, Working, TypeInv
        <3> QED BY <3>1, TopOfStack DEF SafeItems, Items
    <2> QED BY <2>1, <2>2, TakeCounts DEF FirstRun, FitsAt, Frames
<1>2. CASE AllocateTable
    <2>1. PICK t \in Frames : FirstFree(t) /\ Take({t}, 1)
        BY <1>2 DEF AllocateTable
    <2>2. {t} = Run(t, 1) /\ t + 1 <= FrameCount /\ t \in Nat
        BY MemoryAssumption DEF Run, Frames
    <2>3. Run(t, 1) \cap used = {}
        BY <2>1, <2>2 DEF FirstFree, Available
    <2> QED BY <2>1, <2>2, <2>3, TakeCounts
<1>3. ASSUME NEW n \in 1 .. MaxRequest, GrowHeap(n) PROVE KernelMapsUsed' /\ FreeIsCounted'
    BY <1>3, TakeCounts DEF GrowHeap, FirstRun, FitsAt, Frames
<1>4. ASSUME NEW p \in Processes, Kill(p) PROVE KernelMapsUsed' /\ FreeIsCounted'
    BY <1>4, KillCounts
<1>5. CASE \/ AllocateFails \/ DirectoryFails \/ SkipNull \/ MapPage \/ TableFails
           \/ \E p \in Processes : CreateProcess(p) \/ KillPanics(p)
           \/ \E p \in Processes, n \in 1 .. MaxRequest :
                 AllocatePages(p, n) \/ AllocatePagesAt(p, n)
    BY <1>0, <1>5 DEF AllocateFails, DirectoryFails, SkipNull, MapPage, TableFails,
                      CreateProcess, KillPanics, AllocatePages, AllocatePagesAt, Panic
<1>6. CASE UNCHANGED vars
    BY <1>0, <1>6 DEF vars
<1> QED BY <1>1, <1>2, <1>3, <1>4, <1>5, <1>6 DEF Next

\* getFreeFrames() is exact and the kernel maps no free frame, whatever
\* failed, was freed or was freed twice.
THEOREM CountTheorem == Spec => [](FreeIsCounted /\ KernelMapsUsed)
<1> DEFINE I == TypeInv /\ KernelMapsUsed /\ FreeIsCounted
<1>1. Init => I
    BY TypeInit, CountInit
<1>2. I /\ [Next]_vars => I'
    BY TypeStep, CountStep
<1> QED BY <1>1, <1>2, PTL DEF Spec

-----------------------------------------------------------------------------
(* One role for every frame.                                               *)

\* The free frames R are marked, mapped in the kernel and divided among the
\* pages and the tables of the process c and the kernel heap.
Grants(c, R, O, T, K) ==
    /\ R \cap used = {} /\ used' = used \cup R /\ kernelMap' = kernelMap \cup R
    /\ O \cup T \cup K \subseteq R /\ O \cap T = {} /\ O \cap K = {} /\ T \cap K = {}
    /\ kernelOwned' = kernelOwned \cup K
    /\ \A p \in Processes :
          /\ OwnedFrames(p)' \subseteq OwnedFrames(p) \cup (IF p = c THEN O ELSE {})
          /\ TableFrames(p)' \subseteq TableFrames(p) \cup (IF p = c THEN T ELSE {})
          /\ \A f \in Frames : owned'[p][f] <= 1
    /\ owned' \in [Processes -> [Frames -> Nat]]

LEMMA GrantKeepsRoles ==
    ASSUME ~failed, OneRole, KillNeverPanics, NEW c \in Processes,
           NEW R, NEW O, NEW T, NEW K, Grants(c, R, O, T, K)
    PROVE  OneRole' /\ KillNeverPanics'
<1> USE DEF Grants
<1>1. /\ Boot \cup kernelOwned \subseteq used
      /\ Boot \cap kernelOwned = {}
      /\ \A p \in Processes :
            /\ Held(p) \subseteq used \ (Boot \cup kernelOwned)
            /\ OwnedFrames(p) \cap TableFrames(p) = {}
            /\ \A q \in Processes : p # q => Held(p) \cap Held(q) = {}
    BY DEF OneRole
<1>2. \A p \in Processes : Held(p)' \subseteq Held(p) \cup (IF p = c THEN O \cup T ELSE {})
    BY DEF Held
<1>3. Boot' \cup kernelOwned' \subseteq used' /\ Boot' \cap kernelOwned' = {}
    BY <1>1 DEF Boot
<1>4. ASSUME NEW p \in Processes
      PROVE  /\ Held(p)' \subseteq used' \ (Boot' \cup kernelOwned')
             /\ OwnedFrames(p)' \cap TableFrames(p)' = {}
    <2>1. Held(p) \subseteq used \ (Boot \cup kernelOwned) /\ OwnedFrames(p) \cap TableFrames(p) = {}
          /\ OwnedFrames(p) \subseteq used /\ TableFrames(p) \subseteq used
        BY <1>1 DEF Held
    <2>2. Held(p)' \subseteq used' \ (Boot' \cup kernelOwned')
        BY <1>1, <1>2, <2>1 DEF Boot
    <2>3. CASE p = c
        BY <2>1, <2>2, <2>3
    <2>4. CASE p # c
        BY <2>1, <2>2, <2>4
    <2> QED BY <2>2, <2>3, <2>4
<1>5. ASSUME NEW p \in Processes, NEW q \in Processes, p # q
      PROVE  Held(p)' \cap Held(q)' = {}
    <2>1. Held(p) \cap Held(q) = {} /\ Held(p) \subseteq used /\ Held(q) \subseteq used
        BY <1>1, <1>5
    <2> QED BY <1>2, <1>5, <2>1
<1>6. OneRole'
    BY <1>3, <1>4, <1>5 DEF OneRole
<1>7. ASSUME NEW p \in Processes, NEW f \in Released(p)'
      PROVE  f \in kernelMap' /\ owned'[p][f] = 1
    <2>1. f \in Frames /\ f # None /\ owned'[p][f] > 0 /\ f \in OwnedFrames(p)'
        BY <1>7 DEF Released, OwnedFrames, Frames
    <2>2. owned'[p][f] \in Nat /\ owned'[p][f] <= 1
        BY <2>1
    <2>3. owned'[p][f] = 1
        BY <2>1, <2>2
    <2>4. f \in OwnedFrames(p) \cup O
        BY <2>1
    <2>5. f \in Released(p) => f \in kernelMap
        BY DEF KillNeverPanics, Freeable
    <2> QED BY <2>1, <2>3, <2>4, <2>5 DEF Released
<1> QED BY <1>6, <1>7 DEF KillNeverPanics, Freeable

\* kill() takes the frames of one process from that process, from the bitmap
\* and from the kernel's directory, and none from anybody else.
LEMMA KillKeepsRoles ==
    ASSUME TypeInv, ~failed, OneRole, KillNeverPanics, NEW c \in Processes, Kill(c)
    PROVE  OneRole' /\ KillNeverPanics'
<1>1. /\ used' = used \ Released(c) /\ kernelMap' = kernelMap \ Released(c)
      /\ kernelOwned' = kernelOwned /\ tables' = tables
    BY DEF Kill, Unmapped
<1>2. OwnedFrames(c)' = {} /\ \A f \in Frames : owned'[c][f] = 0
    BY DEF Kill, OwnedFrames, TypeInv, TypeOK, Frames
<1>3. \A p \in Processes \ {c} : owned'[p] = owned[p]
    BY DEF Kill, TypeInv, TypeOK
<1>4. \A p \in Processes : TableFrames(p)' = TableFrames(p)
    BY <1>1 DEF TableFrames, Tables, Pages
<1>5. \A p \in Processes \ {c} : OwnedFrames(p)' = OwnedFrames(p)
    BY <1>3 DEF OwnedFrames, Frames
<1>6. /\ Boot \cup kernelOwned \subseteq used
      /\ Boot \cap kernelOwned = {}
      /\ \A p \in Processes :
            /\ Held(p) \subseteq used \ (Boot \cup kernelOwned)
            /\ OwnedFrames(p) \cap TableFrames(p) = {}
            /\ \A f \in Frames : owned[p][f] <= 1
            /\ \A q \in Processes : p # q => Held(p) \cap Held(q) = {}
    BY DEF OneRole
<1>7. Released(c) \subseteq Held(c) /\ Released(c) \cap TableFrames(c) = {}
    BY <1>6 DEF Released, Held
<1>8. \A p \in Processes : Held(p)' \subseteq Held(p) /\ Held(p)' \cap Released(c) = {}
    <2>1. TAKE p \in Processes
    <2>2. CASE p = c
        BY <1>2, <1>4, <1>7, <2>2 DEF Held
    <2>3. CASE p # c
        BY <1>4, <1>5, <1>6, <1>7, <2>3 DEF Held
    <2> QED BY <2>2, <2>3
<1>9. OneRole'
    <2>1. Boot' \cup kernelOwned' \subseteq used' /\ Boot' \cap kernelOwned' = {}
        BY <1>1, <1>6, <1>7 DEF Boot
    <2>2. ASSUME NEW p \in Processes
          PROVE  /\ Held(p)' \subseteq used' \ (Boot' \cup kernelOwned')
                 /\ \A q \in Processes : p # q => Held(p)' \cap Held(q)' = {}
        BY <1>1, <1>6, <1>8 DEF Boot
    <2>3. ASSUME NEW p \in Processes
          PROVE  /\ OwnedFrames(p)' \cap TableFrames(p)' = {}
                 /\ \A f \in Frames : owned'[p][f] <= 1
        <3>1. CASE p = c
            BY <1>2, <3>1
        <3>2. CASE p # c
            BY <1>3, <1>4, <1>5, <1>6, <3>2
        <3> QED BY <3>1, <3>2
    <2> QED BY <2>1, <2>2, <2>3 DEF OneRole, Frames
<1>10. ASSUME NEW p \in Processes, NEW f \in Released(p)'
       PROVE  f \in kernelMap' /\ owned'[p][f] = 1
    <2>1. p # c /\ f \in Released(p)
        BY <1>2, <1>5, <1>10 DEF Released
    <2>2. f \in kernelMap /\ owned[p][f] = 1
        BY <2>1 DEF KillNeverPanics, Freeable
    <2>3. f \notin Released(c)
        BY <1>6, <1>7, <2>1 DEF Released, Held
    <2> QED BY <1>1, <1>3, <2>1, <2>2, <2>3
<1> QED BY <1>9, <1>10 DEF KillNeverPanics, Freeable

\* The part of the invariant that does not speak of page directories.
RoleInv == TypeInv /\ OneRole /\ KillNeverPanics

\* An empty set of frames has no owner.
LEMMA RoleInit == Init => OneRole /\ KillNeverPanics
<1> SUFFICES ASSUME Init PROVE OneRole /\ KillNeverPanics
    OBVIOUS
<1>1. \A p \in Processes : OwnedFrames(p) = {} /\ \A f \in Frames : owned[p][f] = 0
    BY DEF Init, OwnedFrames
<1>2. \A p \in Processes : TableFrames(p) = {}
    BY DEF Init, TableFrames
<1>3. OneRole
    BY <1>1, <1>2 DEF Init, OneRole, Held
<1> QED BY <1>1, <1>3 DEF KillNeverPanics, Freeable, Released

\* A step that changes no frame's role.
LEMMA RolesUnchanged ==
    ASSUME OneRole, KillNeverPanics,
           UNCHANGED <<used, kernelMap, kernelOwned, owned, tables, failed>>
    PROVE  OneRole' /\ KillNeverPanics'
<1>1. OneRole'
    BY DEF OneRole, Held, OwnedFrames, TableFrames, Boot, Frames, Tables, Pages
<1>2. KillNeverPanics'
    BY DEF KillNeverPanics, Freeable, Released, OwnedFrames, Frames
<1> QED BY <1>1, <1>2

\* The pages a request gets become the process's, the table a page needs its
\* table, the pages the heap gets the kernel's.
LEMMA AllocateKeepsRoles ==
    ASSUME RoleInv, ~failed, AllocateStep
    PROVE  OneRole' /\ KillNeverPanics'
<1> DEFINE n == Head(todo).n
<1>1. PICK first \in Frames :
         /\ FirstRun(first, n) /\ Take(Run(first, n), n) /\ Register(first, Head(todo))
    BY DEF AllocateStep
<1>2. Run(first, n) \cap used = {}
    BY <1>1 DEF FirstRun, FitsAt
<1>3. client \in Processes /\ owned \in [Processes -> [Frames -> Nat]]
    BY DEF RoleInv, TypeInv, TypeOK
<1>4. \A p \in Processes : \A f \in Frames :
         owned'[p][f] = owned[p][f] + (IF p = client /\ f \in Run(first, n) THEN 1 ELSE 0)
    BY <1>1, <1>3 DEF Register, Registered
<1>5. owned' \in [Processes -> [Frames -> Nat]]
    <2>1. Registered(first, n) \in [Frames -> Nat]
        BY <1>3 DEF Registered
    <2> QED BY <1>1, <1>3, <2>1 DEF Register
<1>6. ASSUME NEW p \in Processes, NEW f \in OwnedFrames(p)'
      PROVE  f \in OwnedFrames(p) \/ (p = client /\ f \in Run(first, n))
    <2>1. f \in Frames /\ owned'[p][f] > 0 /\ owned[p][f] \in Nat
        BY <1>3, <1>6 DEF OwnedFrames, Frames
    <2>2. ASSUME ~(p = client /\ f \in Run(first, n)) PROVE owned[p][f] > 0
        <3>1. owned'[p][f] = owned[p][f] + 0
            BY <1>4, <2>1, <2>2
        <3> QED BY <2>1, <3>1
    <2> QED BY <2>1, <2>2 DEF OwnedFrames
<1>7. \A p \in Processes : TableFrames(p)' \subseteq TableFrames(p)
    BY DEF AllocateStep, TableFrames, Tables, Pages
<1>8. ASSUME NEW p \in Processes, NEW f \in Frames PROVE owned'[p][f] <= 1
    <2>1. owned[p][f] \in Nat /\ owned[p][f] <= 1
        BY <1>3 DEF RoleInv, OneRole
    <2>2. ASSUME f \in Run(first, n) PROVE owned[p][f] = 0
        <3>1. f \notin OwnedFrames(p)
            BY <1>2, <2>2 DEF RoleInv, OneRole, Held
        <3> QED BY <2>1, <3>1 DEF OwnedFrames
    <2> HIDE DEF n
    <2> QED BY <1>4, <2>1, <2>2
<1>9. used' = used \cup Run(first, n) /\ kernelMap' = kernelMap \cup Run(first, n)
    BY <1>1 DEF Take, Mapped
<1>10. kernelOwned' = kernelOwned \cup {}
    BY DEF AllocateStep
<1> HIDE DEF n
<1>11. Grants(client, Run(first, n), Run(first, n), {}, {})
    BY <1>2, <1>5, <1>6, <1>7, <1>8, <1>9, <1>10 DEF Grants
<1> QED BY <1>3, <1>11, GrantKeepsRoles DEF RoleInv

LEMMA TableKeepsRoles ==
    ASSUME RoleInv, ~failed, AllocateTable
    PROVE  OneRole' /\ KillNeverPanics'
<1> DEFINE i == TableOf(Head(todo).page)
<1>1. PICK t \in Frames :
         FirstFree(t) /\ Take({t}, 1) /\ tables' = [tables EXCEPT ![client][i] = t]
    BY DEF AllocateTable
<1>2. {t} \cap used = {}
    BY <1>1 DEF FirstFree, Available
<1>3. /\ client \in Processes /\ owned \in [Processes -> [Frames -> Nat]]
      /\ tables \in [Processes -> [Tables -> Frames]]
    BY DEF RoleInv, TypeInv, TypeOK
<1>4. owned' = owned /\ kernelOwned' = kernelOwned \cup {}
    BY DEF AllocateTable
<1>5. \A p \in Processes : OwnedFrames(p)' = OwnedFrames(p)
    BY <1>4 DEF OwnedFrames, Frames
<1>6. ASSUME NEW p \in Processes, NEW f \in TableFrames(p)'
      PROVE  f \in TableFrames(p) \/ (p = client /\ f = t)
    <2>1. PICK j \in Tables : f = tables'[p][j] /\ f # None
        BY <1>6 DEF TableFrames, Tables, Pages
    <2> HIDE DEF i
    <2>2. tables'[p][j] = tables[p][j] \/ (p = client /\ tables'[p][j] = t)
        BY <1>1, <1>3
    <2> QED BY <2>1, <2>2 DEF TableFrames
<1>7. used' = used \cup {t} /\ kernelMap' = kernelMap \cup {t}
    BY <1>1 DEF Take, Mapped
<1>8. \A p \in Processes : \A f \in Frames : owned'[p][f] <= 1
    BY <1>4 DEF RoleInv, OneRole
<1>9. Grants(client, {t}, {}, {t}, {})
    BY <1>2, <1>3, <1>4, <1>5, <1>6, <1>7, <1>8 DEF Grants
<1> QED BY <1>3, <1>9, GrantKeepsRoles DEF RoleInv

LEMMA HeapKeepsRoles ==
    ASSUME RoleInv, ~failed, NEW n \in 1 .. MaxRequest, GrowHeap(n), NEW c \in Processes
    PROVE  OneRole' /\ KillNeverPanics'
<1>1. PICK first \in Frames :
         /\ FirstRun(first, n) /\ Take(Run(first, n), n)
         /\ kernelOwned' = kernelOwned \cup Run(first, n)
    BY DEF GrowHeap
<1>2. Run(first, n) \cap used = {}
    BY <1>1 DEF FirstRun, FitsAt
<1>3. owned' = owned /\ tables' = tables /\ owned \in [Processes -> [Frames -> Nat]]
    BY DEF GrowHeap, processVars, RoleInv, TypeInv, TypeOK
<1>4. \A p \in Processes : OwnedFrames(p)' = OwnedFrames(p) /\ TableFrames(p)' = TableFrames(p)
    BY <1>3 DEF OwnedFrames, TableFrames, Frames, Tables, Pages
<1>5. \A p \in Processes : \A f \in Frames : owned'[p][f] <= 1
    BY <1>3 DEF RoleInv, OneRole
<1>6. used' = used \cup Run(first, n) /\ kernelMap' = kernelMap \cup Run(first, n)
    BY <1>1 DEF Take, Mapped
<1>7. Grants(c, Run(first, n), {}, {}, Run(first, n))
    BY <1>1, <1>2, <1>3, <1>4, <1>5, <1>6 DEF Grants
<1> QED BY <1>7, GrantKeepsRoles DEF RoleInv

LEMMA RoleStep ==
    RoleInv /\ [Next]_vars => OneRole' /\ KillNeverPanics'
<1> SUFFICES ASSUME RoleInv, [Next]_vars PROVE OneRole' /\ KillNeverPanics'
    OBVIOUS
<1>0. CASE failed'
    BY <1>0 DEF OneRole, KillNeverPanics
<1>1. ASSUME UNCHANGED <<used, kernelMap, kernelOwned, owned, tables, failed>>
      PROVE  OneRole' /\ KillNeverPanics'
    BY <1>1, RolesUnchanged DEF RoleInv
<1>2. CASE ~failed /\ AllocateStep
    BY <1>2, AllocateKeepsRoles
<1>3. CASE ~failed /\ AllocateTable
    BY <1>3, TableKeepsRoles
<1>4. CASE ~failed /\ \E n \in 1 .. MaxRequest : GrowHeap(n)
    <2>1. client \in Processes
        BY DEF RoleInv, TypeInv, TypeOK
    <2> QED BY <1>4, <2>1, HeapKeepsRoles
<1>5. CASE ~failed /\ \E p \in Processes : Kill(p)
    BY <1>5, KillKeepsRoles DEF RoleInv
<1>6. CASE \/ DirectoryFails \/ SkipNull \/ MapPage \/ TableFails
           \/ \E p \in Processes : CreateProcess(p) \/ KillPanics(p)
           \/ \E p \in Processes, n \in 1 .. MaxRequest :
                 AllocatePages(p, n) \/ AllocatePagesAt(p, n)
    BY <1>1, <1>6 DEF DirectoryFails, SkipNull, MapPage, TableFails, CreateProcess,
                      KillPanics, AllocatePages, AllocatePagesAt, Panic, processVars
<1>7. CASE UNCHANGED vars
    BY <1>1, <1>7 DEF vars, processVars
<1>8. CASE AllocateFails
    BY <1>0, <1>8 DEF AllocateFails
<1>9. ~failed' => ~failed \/ UNCHANGED vars
    BY DEF Next, AllocateStep, AllocateFails, DirectoryFails, SkipNull, MapPage,
           AllocateTable, TableFails, CreateProcess, AllocatePages, AllocatePagesAt,
           Kill, KillPanics, GrowHeap, Panic, vars
<1> QED BY <1>0, <1>2, <1>3, <1>4, <1>5, <1>6, <1>7, <1>8, <1>9 DEF Next

\* As long as no request failed, no frame is handed out twice, and kill()
\* finds every page registered once and mapped in the kernel.
THEOREM RoleTheorem == Spec => [](OneRole /\ KillNeverPanics)
<1>1. Init => RoleInv
    BY TypeInit, RoleInit DEF RoleInv
<1>2. RoleInv /\ [Next]_vars => RoleInv'
    BY TypeStep, RoleStep DEF RoleInv
<1>3. RoleInv => OneRole /\ KillNeverPanics
    BY DEF RoleInv
<1> QED BY <1>1, <1>2, <1>3, PTL DEF Spec

-----------------------------------------------------------------------------
(* Isolation.                                                              *)

LEMMA MemoryInit == Init => MemoryInv
<1> SUFFICES ASSUME Init PROVE MemoryInv
    OBVIOUS
<1>1. TypeInv /\ OneRole /\ KillNeverPanics
    BY TypeInit, RoleInit
<1>2. ClientIsLive /\ NewIsEmpty /\ Isolation
    BY DEF Init, ClientIsLive, NewIsEmpty, Isolation
<1>3. todo \in Seq(GoodItems)
    BY EmptySeq DEF Init
<1> QED BY <1>1, <1>2, <1>3 DEF MemoryInv

\* A process that is not live has nothing to do; a page directory that is
\* not in use is empty.
LEMMA ClientStep == MemoryInv /\ [Next]_vars => ClientIsLive' /\ NewIsEmpty'
<1> SUFFICES ASSUME MemoryInv, [Next]_vars PROVE ClientIsLive' /\ NewIsEmpty'
    OBVIOUS
<1> USE DEF ClientIsLive, NewIsEmpty
<1>0. /\ ClientIsLive /\ NewIsEmpty /\ client \in Processes
      /\ state \in [Processes -> {"new", "live", "dead"}]
      /\ map \in [Processes -> [Pages -> Frames]]
    BY DEF MemoryInv, TypeInv, TypeOK
<1>1. CASE AllocateStep \/ AllocateFails \/ SkipNull \/ AllocateTable
    BY <1>0, <1>1 DEF AllocateStep, AllocateFails, SkipNull, AllocateTable, Working,
                      processVars, Pages
<1>2. CASE MapPage
    BY <1>0, <1>2 DEF MapPage, Working, Pages
<1>3. ASSUME NEW p \in Processes, CreateProcess(p) PROVE ClientIsLive' /\ NewIsEmpty'
    BY <1>0, <1>3 DEF CreateProcess, Begins, Pages
<1>4. ASSUME NEW p \in Processes, NEW n \in 1 .. MaxRequest,
             AllocatePages(p, n) \/ AllocatePagesAt(p, n)
      PROVE  ClientIsLive' /\ NewIsEmpty'
    BY <1>0, <1>4 DEF AllocatePages, AllocatePagesAt, Begins, processVars, Pages
<1>5. ASSUME NEW p \in Processes, Kill(p) PROVE ClientIsLive' /\ NewIsEmpty'
    BY <1>0, <1>5 DEF Kill, Pages
<1>6. CASE \/ DirectoryFails \/ TableFails \/ UNCHANGED vars
           \/ \E p \in Processes : KillPanics(p)
           \/ \E n \in 1 .. MaxRequest : GrowHeap(n)
    BY <1>0, <1>6 DEF DirectoryFails, TableFails, KillPanics, Panic, GrowHeap, vars,
                      processVars, Pages
<1> QED BY <1>1, <1>2, <1>3, <1>4, <1>5, <1>6 DEF Next

\* A step under which no process but one that dies loses a frame.
Keeps == \A p \in Processes : state'[p] = "live" => Held(p) \subseteq Held(p)'

LEMMA KeepsStep == MemoryInv /\ [Next]_vars => Keeps
<1> SUFFICES ASSUME MemoryInv, [Next]_vars PROVE Keeps
    OBVIOUS
<1>0. /\ client \in Processes /\ owned \in [Processes -> [Frames -> Nat]]
      /\ tables \in [Processes -> [Tables -> Frames]]
      /\ state \in [Processes -> {"new", "live", "dead"}]
    BY DEF MemoryInv, TypeInv, TypeOK
<1>1. ASSUME \A p \in Processes : state'[p] = "live" => OwnedFrames(p) \subseteq OwnedFrames(p)',
             \A p \in Processes : state'[p] = "live" => TableFrames(p) \subseteq TableFrames(p)'
      PROVE  Keeps
    BY <1>1 DEF Keeps, Held
<1>2. ASSUME owned' = owned PROVE \A p \in Processes : OwnedFrames(p) = OwnedFrames(p)'
    BY <1>2 DEF OwnedFrames, Frames
<1>3. ASSUME tables' = tables PROVE \A p \in Processes : TableFrames(p) = TableFrames(p)'
    BY <1>3 DEF TableFrames, Tables, Pages
<1>4. ASSUME NEW first \in Frames, NEW item, owned' = [owned EXCEPT ![client] = Registered(first, item.n)]
      PROVE  \A p \in Processes : OwnedFrames(p) \subseteq OwnedFrames(p)'
    <2>1. ASSUME NEW p \in Processes, NEW f \in OwnedFrames(p) PROVE f \in OwnedFrames(p)'
        <3>1. owned[p][f] \in Nat /\ owned[p][f] > 0 /\ f \in Frames
            BY <1>0, <2>1 DEF OwnedFrames
        <3>2. owned'[p][f] = owned[p][f] \/ owned'[p][f] = owned[p][f] + 0
                \/ owned'[p][f] = owned[p][f] + 1
            BY <1>0, <1>4, <3>1 DEF Registered
        <3>3. owned'[p][f] > 0
            BY <3>1, <3>2
        <3> QED BY <3>1, <3>3 DEF OwnedFrames, Frames
    <2> QED BY <2>1
<1>5. CASE AllocateStep
    BY <1>1, <1>3, <1>4, <1>5 DEF AllocateStep, Register
<1>6. CASE AllocateFails
    <2>1. None \in Frames
        BY MemoryAssumption DEF None, Frames
    <2> QED BY <1>1, <1>3, <1>4, <1>6, <2>1 DEF AllocateFails, Register
<1>7. CASE AllocateTable
    <2> DEFINE i == TableOf(Head(todo).page)
    <2>1. /\ owned' = owned /\ tables[client][i] = None
          /\ \E t \in Frames : tables' = [tables EXCEPT ![client][i] = t]
        BY <1>7 DEF AllocateTable, HasTable
    <2> HIDE DEF i
    <2>2. ASSUME NEW p \in Processes, NEW f \in TableFrames(p) PROVE f \in TableFrames(p)'
        <3>1. PICK j \in Tables : f = tables[p][j] /\ f # None
            BY <2>2 DEF TableFrames
        <3>2. tables'[p][j] = tables[p][j]
            BY <1>0, <2>1, <3>1
        <3> QED BY <3>1, <3>2 DEF TableFrames, Tables, Pages
    <2> QED BY <1>1, <1>2, <2>1, <2>2
<1>8. ASSUME NEW p \in Processes, Kill(p) PROVE Keeps
    <2>1. tables' = tables /\ state'[p] = "dead"
        BY <1>0, <1>8 DEF Kill
    <2>2. \A q \in Processes \ {p} : owned'[q] = owned[q]
        BY <1>0, <1>8 DEF Kill
    <2>3. \A q \in Processes \ {p} : OwnedFrames(q) = OwnedFrames(q)'
        BY <2>2 DEF OwnedFrames, Frames
    <2> QED BY <1>1, <1>3, <2>1, <2>3
<1>9. CASE owned' = owned /\ tables' = tables
    BY <1>1, <1>2, <1>3, <1>9
<1>10. CASE \/ DirectoryFails \/ TableFails \/ SkipNull \/ MapPage \/ UNCHANGED vars
            \/ \E p \in Processes : CreateProcess(p) \/ KillPanics(p)
            \/ \E n \in 1 .. MaxRequest : GrowHeap(n)
            \/ \E p \in Processes, n \in 1 .. MaxRequest :
                  AllocatePages(p, n) \/ AllocatePagesAt(p, n)
    BY <1>9, <1>10 DEF DirectoryFails, TableFails, SkipNull, MapPage, CreateProcess,
           KillPanics, Panic, GrowHeap, AllocatePages, AllocatePagesAt, vars, processVars
<1> QED BY <1>5, <1>6, <1>7, <1>8, <1>10 DEF Next

\* The runs on the stack stay in reach of the process they are mapped for.
LEMMA TodoStep == MemoryInv /\ [Next]_vars => todo' \in Seq(GoodItems)'
<1> SUFFICES ASSUME MemoryInv, [Next]_vars PROVE todo' \in Seq(GoodItems')
    OBVIOUS
<1>0. /\ todo' \in Seq(SafeItems) /\ todo \in Seq(GoodItems) /\ Keeps
      /\ client \in Processes /\ owned \in [Processes -> [Frames -> Nat]]
      /\ tables \in [Processes -> [Tables -> Frames]]
      /\ todo # <<>> => state[client] = "live"
    <2>1. TypeInv'
        BY TypeStep DEF MemoryInv
    <2>2. SafeItems' = SafeItems
        BY DEF SafeItems, Items
    <2> QED BY <2>1, <2>2, KeepsStep DEF MemoryInv, TypeInv, TypeOK, ClientIsLive
<1>1. CASE failed'
    <2>1. SafeItems \subseteq GoodItems'
        BY <1>1 DEF GoodItems, SafeItems, Items
    <2> QED BY <1>0, <2>1, SeqMonotonic
<1>2. ASSUME client' = client, failed' = failed, state' = state, todo # <<>>
      PROVE  GoodItems \subseteq GoodItems' /\ todo \in Seq(GoodItems')
             /\ Tail(todo) \in Seq(GoodItems') /\ Head(todo) \in GoodItems'
    <2>1. Reach(client) \subseteq Reach(client)'
        BY <1>0, <1>2 DEF Keeps, Reach
    <2>2. GoodItems \subseteq GoodItems'
        BY <1>2, <2>1 DEF GoodItems, SafeItems, Items, Run
    <2> QED BY <1>0, <1>2, <2>2, SeqMonotonic, TopOfStack
<1>3. ASSUME NEW i \in SafeItems, i.op = "alloc" PROVE i \in GoodItems'
    BY <1>3 DEF GoodItems, SafeItems, Items
<1>4. ASSUME NEW i \in SafeItems, Run(i.frame, i.n) \subseteq Reach(client)' PROVE i \in GoodItems'
    BY <1>4 DEF GoodItems, SafeItems, Items, Run
<1>5. CASE AllocateStep
    <2> DEFINE n == Head(todo).n
               page(f) == IF Head(todo).page = None THEN f ELSE Head(todo).page
    <2>1. PICK first \in Frames : FirstRun(first, n) /\ Register(first, Head(todo))
        BY <1>5 DEF AllocateStep
    <2>2. todo # <<>> /\ Head(todo).op = "alloc" /\ client' = client /\ failed' = failed /\ state' = state
        BY <1>5 DEF AllocateStep, Working
    <2>3. Tail(todo) \in Seq(GoodItems') /\ Head(todo) \in SafeItems
        BY <1>2, <2>2 DEF GoodItems, SafeItems, Items
    <2>4. /\ n \in Nat \ {0} /\ n <= FrameCount /\ Head(todo).page \in Nat
          /\ Head(todo).page + n <= PageCount
        BY <2>2, <2>3 DEF SafeItems, Items
    <2>5. first \in Nat /\ first + n <= FrameCount /\ FrameCount <= PageCount
          /\ FrameCount \in Nat /\ PageCount \in Nat
        BY <2>1, MemoryAssumption DEF FirstRun, FitsAt, Frames
    <2>6. page(first) \in Nat /\ page(first) + n <= PageCount
        BY <2>4, <2>5
    <2>7. Map(first, page(first), n) \in SafeItems
        <3> HIDE DEF n, page
        <3> QED BY <2>4, <2>5, <2>6, MapIsSafe
    <2>8. Run(first, n) \subseteq Reach(client)'
        <3>1. ASSUME NEW f \in Run(first, n) PROVE f \in OwnedFrames(client)'
            <4>1. f \in Frames /\ owned[client][f] \in Nat
                BY <1>0, <2>4, <2>5, <3>1, RunInFrames
            <4>2. owned'[client][f] = owned[client][f] + 1
                BY <1>0, <2>1, <3>1, <4>1 DEF Register, Registered
            <4> QED BY <2>2, <4>1, <4>2 DEF OwnedFrames, Frames
        <3> QED BY <2>2, <3>1 DEF Reach, Held
    <2>9. Map(first, page(first), n) \in GoodItems'
        <3> HIDE DEF n, page
        <3>1. Map(first, page(first), n).frame = first /\ Map(first, page(first), n).n = n
            BY DEF Map
        <3> QED BY <1>4, <2>7, <2>8, <3>1
    <2>10. todo' = <<Map(first, page(first), n)>> \o Tail(todo)
        BY <2>1 DEF Register
    <2> HIDE DEF n, page
    <2> QED BY <2>3, <2>9, <2>10, PushIn
<1>6. CASE AllocateFails
    BY <1>1, <1>6 DEF AllocateFails
<1>7. CASE SkipNull \/ MapPage
    <2>1. todo # <<>> /\ Head(todo).op = "map" /\ client' = client /\ failed' = failed
          /\ state' = state /\ todo' = Popped
        BY <1>7 DEF SkipNull, MapPage, Working, processVars
    <2>2. Head(todo) \in GoodItems'
        BY <1>2, <2>1
    <2>3. ASSUME Head(todo).n > 1 PROVE Rest(Head(todo)) \in GoodItems'
        <3> DEFINE h == Head(todo)
        <3>1. h \in SafeItems /\ h.frame \in Nat /\ h.n \in Nat
            BY <2>2 DEF GoodItems, SafeItems, Items
        <3>2. Rest(h) \in SafeItems
            <4> HIDE DEF h
            <4> QED BY <2>1, <2>3, <3>1, RestIsSafe DEF h
        <3>3. Run(h.frame + 1, h.n - 1) \subseteq Run(h.frame, h.n)
            <4> HIDE DEF h
            <4> QED BY <3>1 DEF Run
        <3>4. ~failed' => Run(h.frame, h.n) \subseteq Reach(client)'
            BY <2>1, <2>2 DEF GoodItems, Run
        <3>5. Rest(h).frame = h.frame + 1 /\ Rest(h).n = h.n - 1
            BY DEF Rest, Map
        <3> HIDE DEF h
        <3>6. ~failed' => Rest(h) \in GoodItems'
            BY <1>4, <3>2, <3>3, <3>4, <3>5
        <3>7. failed' => Rest(h) \in GoodItems'
            BY <3>2 DEF GoodItems, SafeItems, Items
        <3> QED BY <3>6, <3>7 DEF h
    <2>4. todo \in Seq(GoodItems') /\ Head(todo).n \in Nat
        BY <1>2, <2>1, <2>2 DEF GoodItems, SafeItems, Items
    <2> QED BY <2>1, <2>3, <2>4, PoppedIn
<1>8. CASE ~failed' /\ AllocateTable
    <2> DEFINE i == TableOf(Head(todo).page)
    <2>1. PICK t \in Frames : /\ FirstFree(t) /\ todo' = <<Map(t, t, 1)>> \o todo
                              /\ tables' = [tables EXCEPT ![client][i] = t]
        BY <1>8 DEF AllocateTable
    <2>2. todo # <<>> /\ Head(todo).op = "map" /\ client' = client /\ failed' = failed
          /\ state' = state /\ Head(todo).frame # None /\ Head(todo).page # None
        BY <1>8 DEF AllocateTable, Working, NullPage
    <2>3. todo \in Seq(GoodItems') /\ Head(todo) \in SafeItems
        BY <1>2, <2>2 DEF GoodItems, SafeItems, Items
    <2>4. i \in Tables
        <3>1. Head(todo).page \in Pages
            BY <2>3, MemoryAssumption DEF SafeItems, Items, Pages
        <3> QED BY <3>1 DEF Tables
    <2>5. t # None
        <3>1. None \in used
            BY <1>8, <2>2, MemoryAssumption DEF MemoryInv, OneRole, Boot, None
        <3> QED BY <2>1, <3>1 DEF FirstFree, Available
    <2> HIDE DEF i
    <2>6. t \in TableFrames(client)'
        BY <1>0, <2>1, <2>2, <2>4, <2>5 DEF TableFrames, Tables, Pages
    <2>7. Map(t, t, 1) \in SafeItems
        <3>1. t \in Nat /\ t + 1 <= FrameCount /\ t + 1 <= PageCount /\ 1 \in Nat \ {0}
            BY MemoryAssumption DEF Frames
        <3> QED BY <3>1, MapIsSafe
    <2>8. Run(t, 1) \subseteq Reach(client)'
        BY <2>6 DEF Run, Reach, Held, Frames
    <2>9. Map(t, t, 1) \in GoodItems'
        <3>1. Map(t, t, 1).frame = t /\ Map(t, t, 1).n = 1
            BY DEF Map
        <3> QED BY <1>4, <2>7, <2>8, <3>1
    <2> QED BY <2>1, <2>3, <2>9, PushIn
<1>9. ASSUME NEW p \in Processes, CreateProcess(p) PROVE todo' \in Seq(GoodItems')
    <2>1. Map(None, None, KernelPages) \in SafeItems /\ Run(None, KernelPages) \subseteq Reach(client)'
        BY MemoryAssumption, MapIsSafe DEF None, Run, Reach
    <2>2. Map(None, None, KernelPages) \in GoodItems'
        <3>1. Map(None, None, KernelPages).frame = None /\ Map(None, None, KernelPages).n = KernelPages
            BY DEF Map
        <3> QED BY <1>4, <2>1, <3>1
    <2>3. \A i \in DOMAIN StartSizes : Alloc(StartSizes[i], None) \in GoodItems'
        <3>1. ASSUME NEW i \in DOMAIN StartSizes PROVE Alloc(StartSizes[i], None) \in GoodItems'
            <4>1. StartSizes[i] \in 1 .. MaxRequest
                BY ElementOfSeq, MemoryAssumption
            <4>2. Alloc(StartSizes[i], None) \in SafeItems
                BY <4>1, MemoryAssumption, AllocIsSafe DEF None
            <4> QED BY <1>3, <4>2 DEF Alloc
        <3> QED BY <3>1
    <2>4. /\ [i \in DOMAIN StartSizes |-> Alloc(StartSizes[i], None)] \in Seq(GoodItems')
          /\ <<Map(None, None, KernelPages)>> \in Seq(GoodItems')
        <3>1. DOMAIN StartSizes = 1 .. Len(StartSizes) /\ Len(StartSizes) \in Nat
            BY LenProperties, MemoryAssumption
        <3> QED BY <2>2, <2>3, <3>1, IsASeq
    <2> QED BY <1>9, <2>4, ConcatProperties DEF CreateProcess, Begins
<1>10. ASSUME NEW p \in Processes, NEW n \in 1 .. MaxRequest,
              AllocatePages(p, n) \/ AllocatePagesAt(p, n)
       PROVE  todo' \in Seq(GoodItems')
    <2>1. PICK page \in Nat : todo' = <<Alloc(n, page)>>
        BY <1>10 DEF AllocatePages, AllocatePagesAt, Begins, None, MemoryInv, TypeInv, TypeOK
    <2>2. Alloc(n, page) \in SafeItems
        BY <1>0, <2>1, ElementOfSeq
    <2>3. Alloc(n, page) \in GoodItems'
        BY <1>3, <2>2 DEF Alloc
    <2> QED BY <2>1, <2>3
<1>11. CASE \E n \in 1 .. MaxRequest : GrowHeap(n)
    BY <1>11, EmptySeq DEF GrowHeap
<1>12. CASE \E p \in Processes : Kill(p)
    BY <1>12, EmptySeq DEF Kill
<1>13. CASE \/ DirectoryFails \/ TableFails \/ UNCHANGED vars \/ \E p \in Processes : KillPanics(p)
    <2>1. todo' = todo /\ client' = client /\ failed' = failed /\ state' = state
        BY <1>13 DEF DirectoryFails, TableFails, KillPanics, Panic, vars, processVars
    <2>2. CASE todo = <<>>
        BY <2>1, <2>2, EmptySeq
    <2>3. CASE todo # <<>>
        BY <1>2, <2>1, <2>3
    <2> QED BY <2>2, <2>3
<1> QED BY <1>1, <1>5, <1>6, <1>7, <1>8, <1>9, <1>10, <1>11, <1>12, <1>13 DEF Next

\* What a directory maps stays in the hands of its process.
LEMMA IsolationStep == MemoryInv /\ [Next]_vars => Isolation'
<1> SUFFICES ASSUME MemoryInv, [Next]_vars, ~failed',
                    NEW p \in Processes, state'[p] = "live", NEW page \in Pages
             PROVE  map'[p][page] \in Reach(p)'
    BY DEF Isolation, Reach, Pages
<1>0. /\ client \in Processes /\ map \in [Processes -> [Pages -> Frames]]
      /\ state \in [Processes -> {"new", "live", "dead"}]
      /\ todo \in Seq(GoodItems) /\ ClientIsLive /\ NewIsEmpty /\ Isolation
      /\ Held(p) \subseteq Held(p)'
    BY KeepsStep DEF MemoryInv, TypeInv, TypeOK, Keeps
<1>1. ~failed
    BY DEF Next, AllocateStep, AllocateFails, DirectoryFails, SkipNull, MapPage,
           AllocateTable, TableFails, CreateProcess, AllocatePages, AllocatePagesAt,
           Kill, KillPanics, GrowHeap, Panic, vars
<1>2. ASSUME state[p] = "live", map'[p][page] = map[p][page] PROVE map'[p][page] \in Reach(p)'
    BY <1>0, <1>1, <1>2 DEF Isolation, Reach
<1>3. CASE MapPage
    <2>1. /\ todo # <<>> /\ Head(todo).op = "map" /\ state' = state
          /\ map' = [map EXCEPT ![client][Head(todo).page] = Head(todo).frame]
        BY <1>3 DEF MapPage, Working
    <2>2. CASE p = client /\ page = Head(todo).page
        <3>1. Head(todo) \in GoodItems
            BY <1>0, <2>1, TopOfStack
        <3>2. Head(todo).frame \in Reach(client)
            BY <1>1, <2>1, <3>1 DEF GoodItems, SafeItems, Items, Run
        <3> QED BY <1>0, <2>1, <2>2, <3>2 DEF Reach
    <2>3. CASE ~(p = client /\ page = Head(todo).page)
        BY <1>0, <1>2, <2>1, <2>3
    <2> QED BY <2>2, <2>3
<1>4. ASSUME NEW q \in Processes, CreateProcess(q) PROVE map'[p][page] \in Reach(p)'
    <2>1. map' = map /\ state[q] = "new" /\ state' = [state EXCEPT ![q] = "live"]
        BY <1>4 DEF CreateProcess
    <2>2. CASE p = q
        <3>1. map'[p][page] = None
            BY <1>0, <2>1, <2>2 DEF NewIsEmpty
        <3>2. None \in 0 .. KernelPages - 1
            BY MemoryAssumption DEF None
        <3> QED BY <3>1, <3>2 DEF Reach
    <2>3. CASE p # q
        BY <1>0, <1>2, <2>1, <2>3
    <2> QED BY <2>2, <2>3
<1>5. ASSUME NEW q \in Processes, Kill(q) PROVE map'[p][page] \in Reach(p)'
    BY <1>0, <1>2, <1>5 DEF Kill
<1>6. CASE map' = map /\ state' = state
    BY <1>2, <1>6
<1>7. CASE \/ AllocateStep \/ AllocateFails \/ DirectoryFails \/ TableFails \/ SkipNull
           \/ AllocateTable \/ UNCHANGED vars
           \/ \E q \in Processes : KillPanics(q)
           \/ \E n \in 1 .. MaxRequest : GrowHeap(n)
           \/ \E q \in Processes, n \in 1 .. MaxRequest :
                 AllocatePages(q, n) \/ AllocatePagesAt(q, n)
    BY <1>6, <1>7 DEF AllocateStep, AllocateFails, DirectoryFails, TableFails, SkipNull,
           AllocateTable, KillPanics, Panic, GrowHeap, AllocatePages, AllocatePagesAt,
           vars, processVars
<1> QED BY <1>3, <1>4, <1>5, <1>7 DEF Next

\* As long as no request failed, a live process maps its own frames and the
\* kernel's shared space only.
THEOREM IsolationTheorem == Spec => []Isolation
<1>1. MemoryInv /\ [Next]_vars => MemoryInv'
    BY TypeStep, RoleStep, ClientStep, TodoStep, IsolationStep DEF MemoryInv, RoleInv
<1>2. MemoryInv => Isolation
    BY DEF MemoryInv
<1> QED BY MemoryInit, <1>1, <1>2, PTL DEF Spec

-----------------------------------------------------------------------------
(* What a process was given, it reaches.                                   *)

\* Programs are linked above the memory of the machine: the pages that are
\* mapped one to one are none of theirs.
LinkedAbove == \A page \in LoadPages : page >= FrameCount

High(i) == i.page >= FrameCount
OneHigh(s) == \A i, j \in DOMAIN s : High(s[i]) /\ High(s[j]) => i = j
Waits(s, f) == \E i \in DOMAIN s : s[i].op = "map" /\ f \in Run(s[i].frame, s[i].n)

\* A frame below goes to the page of its own number, one for the program to a page
\* that nothing is mapped to yet.
Placed(i) ==
    /\ i.op = "alloc" => i.page \in {None, maxBrk[client]}
    /\ i.op = "map" /\ ~High(i) => i.page = i.frame
    /\ i.op = "map" /\ High(i) =>
          /\ i.page + i.n <= maxBrk[client]
          /\ \A page \in Run(i.page, i.n) : map[client][page] = None

NewOwnsNothing == \A p \in Processes : state[p] = "new" => OwnedFrames(p) = {}
PlaceInv ==
    /\ \A p \in Processes :
          /\ state[p] = "live" => maxBrk[p] >= FrameCount
          /\ \A page \in Pages : map[p][page] # None =>
                page < maxBrk[p] /\ (page < FrameCount => map[p][page] = page)
    /\ \A i \in DOMAIN todo : Placed(todo[i])
    /\ OneHigh(todo)
Reached ==
    \A p \in Processes : state[p] = "live" =>
        \A f \in OwnedFrames(p) :
            \/ \E page \in Pages : map[p][page] = f
            \/ p = client /\ Waits(todo, f)

AccessInv == MemoryInv /\ NewOwnsNothing /\ (~failed => PlaceInv /\ Reached)

\* An item on top of the stack.
LEMMA PushedItem ==
    ASSUME NEW S, NEW s \in Seq(S), NEW x \in S
    PROVE  /\ \A i \in DOMAIN (<<x>> \o s) :
                 \/ i = 1 /\ (<<x>> \o s)[i] = x
                 \/ i # 1 /\ i - 1 \in DOMAIN s /\ (<<x>> \o s)[i] = s[i - 1]
           /\ OneHigh(s) /\ (High(x) => \A i \in DOMAIN s : ~High(s[i])) => OneHigh(<<x>> \o s)
           /\ \A f : Waits(s, f) => Waits(<<x>> \o s, f)
           /\ x.op = "map" => \A f \in Run(x.frame, x.n) : Waits(<<x>> \o s, f)
<1> DEFINE t == <<x>> \o s
<1>1. /\ DOMAIN s = 1 .. Len(s) /\ Len(s) \in Nat
      /\ DOMAIN t = 1 .. Len(s) + 1 /\ t[1] = x
      /\ \A i \in DOMAIN s : t[i + 1] = s[i]
    <2>1. <<x>> \in Seq(S) /\ Len(<<x>>) = 1 /\ <<x>>[1] = x
        OBVIOUS
    <2>2. /\ t \in Seq(S) /\ Len(t) = 1 + Len(s) /\ Len(s) \in Nat /\ DOMAIN s = 1 .. Len(s)
          /\ \A i \in 1 .. Len(t) : t[i] = IF i <= 1 THEN <<x>>[i] ELSE s[i - 1]
        BY <2>1, ConcatProperties, LenProperties
    <2>3. DOMAIN t = 1 .. Len(t)
        BY <2>2, LenProperties
    <2> HIDE DEF t
    <2> QED BY <2>1, <2>2, <2>3
<1> HIDE DEF t
<1>2. \A i \in DOMAIN t :
         \/ i = 1 /\ t[i] = x
         \/ i # 1 /\ i - 1 \in DOMAIN s /\ t[i] = s[i - 1]
    <2> SUFFICES ASSUME NEW i \in DOMAIN t
                 PROVE  \/ i = 1 /\ t[i] = x
                        \/ i # 1 /\ i - 1 \in DOMAIN s /\ t[i] = s[i - 1]
        OBVIOUS
    <2>1. CASE i = 1
        BY <1>1, <2>1
    <2>2. CASE i # 1
        <3>1. i - 1 \in 1 .. Len(s) /\ (i - 1) + 1 = i
            BY <1>1, <2>2
        <3> QED BY <1>1, <2>2, <3>1
    <2> QED BY <2>1, <2>2
<1>3. ASSUME OneHigh(s), High(x) => \A i \in DOMAIN s : ~High(s[i]) PROVE OneHigh(t)
    <2> SUFFICES ASSUME NEW i \in DOMAIN t, NEW j \in DOMAIN t, High(t[i]), High(t[j])
                 PROVE  i = j
        BY DEF OneHigh
    <2>1. i \in Int /\ j \in Int
        BY <1>1
    <2>2. CASE i # 1 /\ j # 1
        <3>1. i - 1 = j - 1
            BY <1>2, <1>3, <2>2 DEF OneHigh
        <3> QED BY <2>1, <3>1
    <2>3. CASE i = 1 \/ j = 1
        BY <1>2, <1>3, <2>3
    <2> QED BY <2>2, <2>3
<1>4. ASSUME NEW f, Waits(s, f) PROVE Waits(t, f)
    <2>1. PICK i \in DOMAIN s : s[i].op = "map" /\ f \in Run(s[i].frame, s[i].n)
        BY <1>4 DEF Waits
    <2>2. i + 1 \in DOMAIN t /\ t[i + 1] = s[i]
        BY <1>1
    <2> QED BY <2>1, <2>2 DEF Waits
<1>5. ASSUME x.op = "map", NEW f \in Run(x.frame, x.n) PROVE Waits(t, f)
    <2>1. 1 \in DOMAIN t /\ t[1] = x
        BY <1>1
    <2> QED BY <1>5, <2>1 DEF Waits
<1> QED BY <1>2, <1>3, <1>4, <1>5 DEF t

\* What is left when the item on top is gone.
LEMMA PoppedItem ==
    ASSUME NEW S, NEW s \in Seq(S), s # <<>>
    PROVE  /\ \A i \in DOMAIN Tail(s) : i + 1 \in DOMAIN s /\ Tail(s)[i] = s[i + 1]
           /\ 1 \in DOMAIN s /\ s[1] = Head(s)
           /\ OneHigh(s) => /\ OneHigh(Tail(s))
                            /\ High(Head(s)) => \A i \in DOMAIN Tail(s) : ~High(Tail(s)[i])
           /\ \A f : Waits(s, f) =>
                 \/ Waits(Tail(s), f)
                 \/ Head(s).op = "map" /\ f \in Run(Head(s).frame, Head(s).n)
<1>1. /\ DOMAIN s = 1 .. Len(s) /\ Len(s) \in Nat \ {0}
      /\ DOMAIN Tail(s) = 1 .. Len(s) - 1
      /\ \A i \in DOMAIN Tail(s) : Tail(s)[i] = s[i + 1]
      /\ s[1] = Head(s)
    <2>1. Tail(s) \in Seq(S) /\ Len(Tail(s)) = Len(s) - 1 /\ Len(s) \in Nat /\ Len(s) # 0
        BY HeadTailProperties, EmptySeq, LenProperties
    <2>2. DOMAIN s = 1 .. Len(s) /\ DOMAIN Tail(s) = 1 .. Len(Tail(s))
        BY <2>1, LenProperties
    <2>3. \A i \in 1 .. Len(Tail(s)) : Tail(s)[i] = s[i + 1]
        BY HeadTailProperties
    <2>4. s[1] = Head(s)
        OBVIOUS
    <2> QED BY <2>1, <2>2, <2>3, <2>4
<1>2. \A i \in DOMAIN Tail(s) : i + 1 \in DOMAIN s /\ Tail(s)[i] = s[i + 1] /\ i + 1 # 1 /\ i \in Int
    BY <1>1
<1>3. 1 \in DOMAIN s
    BY <1>1
<1>4. ASSUME OneHigh(s) PROVE OneHigh(Tail(s))
    <2> SUFFICES ASSUME NEW i \in DOMAIN Tail(s), NEW j \in DOMAIN Tail(s),
                        High(Tail(s)[i]), High(Tail(s)[j])
                 PROVE  i = j
        BY DEF OneHigh
    <2>1. i + 1 = j + 1
        BY <1>2, <1>4 DEF OneHigh
    <2> QED BY <1>2, <2>1
<1>5. ASSUME OneHigh(s), High(Head(s)), NEW i \in DOMAIN Tail(s) PROVE ~High(Tail(s)[i])
    BY <1>1, <1>2, <1>3, <1>5 DEF OneHigh
<1>6. ASSUME NEW f, Waits(s, f), ~(Head(s).op = "map" /\ f \in Run(Head(s).frame, Head(s).n))
      PROVE  Waits(Tail(s), f)
    <2>1. PICK i \in DOMAIN s : s[i].op = "map" /\ f \in Run(s[i].frame, s[i].n)
        BY <1>6 DEF Waits
    <2>2. i # 1
        BY <1>1, <1>6, <2>1
    <2>3. i - 1 \in DOMAIN Tail(s) /\ (i - 1) + 1 = i
        BY <1>1, <2>2
    <2>4. Tail(s)[i - 1] = s[i]
        BY <1>1, <2>3
    <2> QED BY <2>1, <2>3, <2>4 DEF Waits
<1> QED BY <1>1, <1>2, <1>3, <1>4, <1>5, <1>6

\* The parts of the invariant that every step uses.
LEMMA AccessFacts ==
    ASSUME AccessInv
    PROVE  /\ client \in Processes /\ map \in [Processes -> [Pages -> Frames]]
           /\ maxBrk \in [Processes -> 0 .. PageCount]
           /\ owned \in [Processes -> [Frames -> Nat]]
           /\ state \in [Processes -> {"new", "live", "dead"}]
           /\ todo \in Seq(SafeItems) /\ ClientIsLive /\ NewIsEmpty
           /\ ~failed => \A p \in Processes : None \notin OwnedFrames(p)
           /\ FrameCount \in Nat \ {0} /\ PageCount \in Nat /\ FrameCount <= PageCount
           /\ Pages = 0 .. PageCount - 1 /\ Frames = 0 .. FrameCount - 1
<1>1. None \in Boot
    BY MemoryAssumption DEF None, Boot
<1>2. ~failed => \A p \in Processes : None \notin OwnedFrames(p)
    BY <1>1 DEF AccessInv, MemoryInv, OneRole, Held
<1>3. TypeOK /\ todo \in Seq(SafeItems) /\ ClientIsLive /\ NewIsEmpty
    BY DEF AccessInv, MemoryInv, TypeInv
<1>4. /\ client \in Processes /\ map \in [Processes -> [Pages -> Frames]]
      /\ maxBrk \in [Processes -> 0 .. PageCount]
      /\ owned \in [Processes -> [Frames -> Nat]]
      /\ state \in [Processes -> {"new", "live", "dead"}]
    BY <1>3 DEF TypeOK
<1>5. /\ FrameCount \in Nat \ {0} /\ PageCount \in Nat /\ FrameCount <= PageCount
      /\ Pages = 0 .. PageCount - 1 /\ Frames = 0 .. FrameCount - 1
    BY MemoryAssumption DEF Pages, Frames
<1> QED BY <1>2, <1>3, <1>4, <1>5

\* What is on top of the stack.
LEMMA AccessTop ==
    ASSUME AccessInv, todo # <<>>
    PROVE  /\ Head(todo) \in SafeItems /\ Tail(todo) \in Seq(SafeItems)
           /\ Head(todo).n \in Nat \ {0} /\ Head(todo).frame \in Nat /\ Head(todo).page \in Nat
           /\ Head(todo).page + Head(todo).n <= PageCount
           /\ Head(todo).op = "map" => Head(todo).frame + Head(todo).n <= FrameCount
<1>1. Head(todo) \in SafeItems /\ Tail(todo) \in Seq(SafeItems)
    BY AccessFacts, TopOfStack
<1> QED BY <1>1 DEF SafeItems, Items

LEMMA AccessInit == Init => AccessInv
<1> SUFFICES ASSUME Init PROVE AccessInv
    OBVIOUS
<1>1. MemoryInv /\ NewOwnsNothing
    BY MemoryInit DEF Init, NewOwnsNothing, OwnedFrames
<1>2. PlaceInv /\ Reached
    BY DEF Init, PlaceInv, Reached, OneHigh
<1> QED BY <1>1, <1>2 DEF AccessInv

\* What a process that does not live yet owns does not change.
LEMMA NewOwnsStep == AccessInv /\ [Next]_vars => NewOwnsNothing'
<1> SUFFICES ASSUME AccessInv, [Next]_vars, NEW p \in Processes, state'[p] = "new"
             PROVE  OwnedFrames(p)' = {}
    BY DEF NewOwnsNothing
<1>1. state[p] = "new" /\ OwnedFrames(p) = {}
    <2>1. state[p] = "new"
        BY AccessFacts DEF Next, AllocateStep, AllocateFails, DirectoryFails, SkipNull, MapPage,
               AllocateTable, TableFails, CreateProcess, AllocatePages, AllocatePagesAt,
               Kill, KillPanics, GrowHeap, Panic, vars, processVars
    <2> QED BY <2>1 DEF AccessInv, NewOwnsNothing
<1>2. owned'[p] = owned[p]
    <2>1. CASE AllocateStep \/ AllocateFails
        <3>1. todo # <<>> /\ \E x : owned' = [owned EXCEPT ![client] = x]
            BY <2>1 DEF AllocateStep, AllocateFails, Working, Register
        <3>2. p # client
            BY <1>1, <3>1, AccessFacts DEF ClientIsLive
        <3> QED BY <3>1, <3>2, AccessFacts
    <2>2. ASSUME NEW q \in Processes, Kill(q) PROVE owned'[p] = owned[p]
        BY <1>1, <2>2, AccessFacts DEF Kill
    <2>3. CASE owned' = owned
        BY <2>3
    <2>4. CASE \/ DirectoryFails \/ TableFails \/ SkipNull \/ MapPage \/ UNCHANGED vars
               \/ AllocateTable
               \/ \E q \in Processes : CreateProcess(q) \/ KillPanics(q)
               \/ \E n \in 1 .. MaxRequest : GrowHeap(n)
               \/ \E q \in Processes, n \in 1 .. MaxRequest :
                     AllocatePages(q, n) \/ AllocatePagesAt(q, n)
        BY <2>3, <2>4 DEF DirectoryFails, TableFails, SkipNull, MapPage, CreateProcess,
               KillPanics, Panic, GrowHeap, AllocatePages, AllocatePagesAt, vars, processVars,
               AllocateTable
    <2> QED BY <2>1, <2>2, <2>4 DEF Next
<1> QED BY <1>1, <1>2 DEF OwnedFrames, Frames

\* A new run of frames is registered, and waits on the stack to be mapped.
LEMMA AccessAllocate ==
    ASSUME AccessInv, ~failed, AllocateStep
    PROVE  PlaceInv' /\ Reached'
<1> DEFINE h == Head(todo)
<1>1. PICK first \in Frames : FirstRun(first, h.n) /\ Register(first, h)
    BY DEF AllocateStep
<1> DEFINE page == IF h.page = None THEN first ELSE h.page
<1>2. /\ todo # <<>> /\ h.op = "alloc" /\ state' = state /\ map' = map /\ client' = client
      /\ maxBrk' = [maxBrk EXCEPT ![client] = Grown(@, h)]
      /\ todo' = <<Map(first, page, h.n)>> \o Tail(todo)
      /\ owned' = [owned EXCEPT ![client] = Registered(first, h.n)]
    BY <1>1 DEF AllocateStep, Working, Register
<1>3. PlaceInv /\ Reached
    BY DEF AccessInv
<1>4. /\ h \in SafeItems /\ Tail(todo) \in Seq(SafeItems) /\ h.n \in Nat \ {0} /\ h.page \in Nat
      /\ h.page + h.n <= PageCount
    BY <1>2, AccessTop
<1>5. first \in Nat /\ first + h.n <= FrameCount
    BY <1>1, AccessFacts DEF FirstRun, FitsAt
<1>6. Map(first, page, h.n) \in SafeItems /\ page \in Nat
    <2> HIDE DEF h
    <2>1. page \in Nat /\ page + h.n <= PageCount
        BY <1>4, <1>5, AccessFacts
    <2> HIDE DEF page
    <2> QED BY <2>1, <1>4, <1>5, MapIsSafe
<1>x. PICK x \in SafeItems : x = Map(first, page, h.n)
    BY <1>6
<1>7. h.page \in {None, maxBrk[client]}
    <2>1. 1 \in DOMAIN todo /\ todo[1] = h
        BY <1>2, AccessFacts, PoppedItem
    <2> QED BY <1>2, <1>3, <2>1 DEF PlaceInv, Placed
<1>8. maxBrk[client] \in Nat /\ maxBrk[client] >= FrameCount
    BY <1>2, <1>3, AccessFacts DEF PlaceInv, ClientIsLive
<1> HIDE DEF h
<1>9. \/ h.page = None /\ page = first /\ ~High(x) /\ ~High(h) /\ maxBrk'[client] = maxBrk[client]
      \/ /\ h.page = maxBrk[client] /\ page = h.page /\ High(x) /\ High(h)
         /\ maxBrk'[client] = h.page + h.n
    <2>1. CASE h.page = None
        BY <1>x, <1>2, <1>4, <1>5, <2>1, AccessFacts DEF Grown, High, Map, None
    <2>2. CASE h.page # None
        BY <1>x, <1>2, <1>7, <1>8, <2>2, AccessFacts DEF Grown, High, Map, None
    <2> QED BY <2>1, <2>2
<1>10. /\ \A p \in Processes : maxBrk'[p] >= maxBrk[p] /\ maxBrk'[p] \in Nat /\ maxBrk[p] \in Nat
       /\ \A p \in Processes \ {client} : maxBrk'[p] = maxBrk[p]
    BY <1>2, <1>4, <1>8, <1>9, AccessFacts
<1> HIDE DEF page
<1>11. ASSUME NEW p \in Processes
       PROVE  /\ state'[p] = "live" => maxBrk'[p] >= FrameCount
              /\ \A q \in Pages : map'[p][q] # None =>
                    q < maxBrk'[p] /\ (q < FrameCount => map'[p][q] = q)
    BY <1>2, <1>3, <1>10, AccessFacts DEF PlaceInv
<1>12. x.op = "map" /\ x.frame = first /\ x.page = page /\ x.n = h.n
    BY <1>x DEF Map
<1>13. Placed(x)'
    <2>1. CASE ~High(x)
        BY <1>9, <1>12, <2>1 DEF Placed, High
    <2>2. CASE High(x)
        <3>1. h.page = maxBrk[client] /\ page = h.page /\ maxBrk'[client] = h.page + h.n
            BY <1>9, <2>2
        <3>2. ASSUME NEW q \in Run(page, h.n) PROVE map[client][q] = None
            <4>1. q \in Pages /\ q >= maxBrk[client]
                BY <1>4, <1>6, <3>1, <3>2, AccessFacts DEF Run
            <4> QED BY <1>3, <1>8, <4>1, AccessFacts DEF PlaceInv
        <3>3. x.page + x.n <= maxBrk'[client']
            BY <1>2, <1>4, <1>12, <3>1
        <3>4. \A q \in Run(x.page, x.n) : map'[client'][q] = None
            BY <1>2, <1>12, <3>2
        <3> QED BY <1>12, <2>2, <3>3, <3>4 DEF Placed, High, Run
    <2> QED BY <2>1, <2>2
<1>14. ASSUME NEW i \in DOMAIN Tail(todo), NEW y, y = Tail(todo)[i] PROVE Placed(y)'
    <2>1. i + 1 \in DOMAIN todo /\ y = todo[i + 1]
        BY <1>2, <1>14, AccessFacts, PoppedItem
    <2>2. Placed(y) /\ y \in SafeItems
        BY <1>3, <1>4, <1>14, <2>1, ElementOfSeq DEF PlaceInv
    <2>3. High(h) => ~High(y)
        BY <1>2, <1>3, <1>14, AccessFacts, PoppedItem DEF h, PlaceInv
    <2>4. y.op = "alloc" => y.page \in {None, maxBrk'[client]}
        <3>1. CASE High(h)
            BY <1>8, <2>2, <2>3, <3>1, AccessFacts DEF Placed, High
        <3>2. CASE ~High(h)
            BY <1>9, <2>2, <3>2 DEF Placed
        <3> QED BY <3>1, <3>2
    <2>5. y.op = "map" /\ High(y) => y.page + y.n <= maxBrk'[client]
        BY <1>9, <2>2, <2>3 DEF Placed
    <2> QED BY <1>2, <2>2, <2>4, <2>5 DEF Placed, High, Run
<1>15. ASSUME NEW i \in DOMAIN todo' PROVE Placed(todo[i])'
    <2>1. PICK y : y = todo'[i]
        OBVIOUS
    <2>2. y = x \/ (i - 1 \in DOMAIN Tail(todo) /\ y = Tail(todo)[i - 1])
        BY <1>x, <1>2, <1>4, <2>1, PushedItem
    <2>3. Placed(y)'
        BY <1>13, <1>14, <2>2
    <2> QED BY <2>1, <2>3 DEF Placed, High, Run
<1>16. OneHigh(todo)'
    <2>1. OneHigh(Tail(todo)) /\ (High(h) => \A i \in DOMAIN Tail(todo) : ~High(Tail(todo)[i]))
        BY <1>2, <1>3, AccessFacts, PoppedItem DEF h, PlaceInv
    <2>2. OneHigh(<<x>> \o Tail(todo))
        BY <1>4, <1>9, <2>1, PushedItem
    <2> QED BY <1>x, <1>2, <2>2 DEF OneHigh, High
<1>17. \A f : Waits(todo, f) \/ f \in Run(first, h.n) => Waits(todo', f)
    <2>1. \A f : Waits(todo, f) => Waits(Tail(todo), f)
        BY <1>2, AccessFacts, PoppedItem DEF h
    <2>2. \A f : Waits(Tail(todo), f) \/ f \in Run(x.frame, x.n) => Waits(<<x>> \o Tail(todo), f)
        BY <1>4, <1>12, PushedItem
    <2> QED BY <1>x, <1>2, <1>12, <2>1, <2>2
<1>18. Reached'
    <2> SUFFICES ASSUME NEW p \in Processes, state[p] = "live", NEW f \in OwnedFrames(p)',
                        \A q \in Pages : map[p][q] # f
                 PROVE  p = client /\ Waits(todo', f)
        BY <1>2 DEF Reached, Waits, Run, Pages
    <2>1. f \in Frames /\ owned'[p][f] > 0
        BY DEF OwnedFrames, Frames
    <2>2. CASE p = client /\ f \in Run(first, h.n)
        BY <1>17, <2>2
    <2>3. CASE ~(p = client /\ f \in Run(first, h.n))
        <3>1. owned'[p][f] = owned[p][f] \/ owned'[p][f] = owned[p][f] + 0
            BY <1>2, <2>1, <2>3, AccessFacts DEF Registered
        <3>2. f \in OwnedFrames(p)
            <4>1. owned[p][f] \in Nat
                BY <2>1, AccessFacts
            <4> QED BY <2>1, <3>1, <4>1 DEF OwnedFrames
        <3> QED BY <1>3, <1>17, <3>2 DEF Reached
    <2> QED BY <2>2, <2>3
<1> QED BY <1>11, <1>15, <1>16, <1>18 DEF PlaceInv, Pages

\* The first page of the run on top of the stack is mapped, or is page 0.
LEMMA AccessPop ==
    ASSUME AccessInv, ~failed, MapPage \/ SkipNull
    PROVE  PlaceInv' /\ Reached'
<1> DEFINE h == Head(todo)
<1>1. /\ todo # <<>> /\ h.op = "map" /\ state' = state /\ client' = client /\ todo' = Popped
      /\ owned' = owned /\ maxBrk' = maxBrk
    BY DEF MapPage, SkipNull, Working, processVars
<1>2. PlaceInv /\ Reached
    BY DEF AccessInv
<1>3. /\ h \in SafeItems /\ Tail(todo) \in Seq(SafeItems)
      /\ h.n \in Nat \ {0} /\ h.frame \in Nat /\ h.page \in Nat
      /\ h.page + h.n <= PageCount /\ h.frame + h.n <= FrameCount
    BY <1>1, AccessTop
<1>4. Placed(h)
    <2>1. 1 \in DOMAIN todo /\ todo[1] = h
        BY <1>1, AccessFacts, PoppedItem
    <2> QED BY <1>2, <2>1 DEF PlaceInv
<1>5. /\ OneHigh(Tail(todo))
      /\ High(h) => \A i \in DOMAIN Tail(todo) : ~High(Tail(todo)[i])
      /\ \A f : Waits(todo, f) => Waits(Tail(todo), f) \/ f \in Run(h.frame, h.n)
    BY <1>1, <1>2, AccessFacts, PoppedItem DEF PlaceInv
<1>6. \/ map' = map /\ h.frame = None
      \/ map' = [map EXCEPT ![client][h.page] = h.frame] /\ h.frame # None
    <2>1. CASE SkipNull
        <3>1. map' = map /\ (h.frame = None \/ h.page = None)
            BY <2>1 DEF SkipNull, NullPage, processVars
        <3>2. h.page = None => h.frame = None
            BY <1>1, <1>4, AccessFacts DEF Placed, High, None
        <3> QED BY <3>1, <3>2
    <2>2. CASE MapPage
        BY <2>2 DEF MapPage, NullPage
    <2> QED BY <2>1, <2>2
<1>7. /\ h.page \in Pages /\ h.frame \in Frames
      /\ High(h) => /\ h.page < maxBrk[client] /\ map[client][h.page] = None
                    /\ h.page + h.n <= maxBrk[client]
      /\ ~High(h) => h.page = h.frame
      /\ maxBrk[client] \in Nat /\ maxBrk[client] >= FrameCount
    <2>1. maxBrk[client] \in Nat /\ maxBrk[client] >= FrameCount
        BY <1>1, <1>2, AccessFacts DEF PlaceInv, ClientIsLive
    <2>2. h.page \in Run(h.page, h.n)
        <3> HIDE DEF h
        <3> QED BY <1>3 DEF Run
    <2>3. h.page \in Pages /\ h.frame \in Frames
        <3> HIDE DEF h
        <3> QED BY <1>3, AccessFacts
    <2>4. ASSUME High(h) PROVE h.page < maxBrk[client] /\ map[client][h.page] = None
                               /\ h.page + h.n <= maxBrk[client]
        <3>1. h.page + h.n <= maxBrk[client] /\ map[client][h.page] = None
            BY <1>1, <1>4, <2>2, <2>4 DEF Placed
        <3> HIDE DEF h
        <3> QED BY <1>3, <2>1, <3>1
    <2> QED BY <1>1, <1>4, <2>1, <2>3, <2>4 DEF Placed
<1> HIDE DEF h
<1>8. \A p \in Processes : \A q \in Pages :
         map'[p][q] = IF p = client /\ q = h.page /\ h.frame # None THEN h.frame ELSE map[p][q]
    <2>1. CASE map' = map /\ h.frame = None
        BY <2>1
    <2>2. CASE map' = [map EXCEPT ![client][h.page] = h.frame] /\ h.frame # None
        <3>1. map' = [map EXCEPT ![client] = [map[client] EXCEPT ![h.page] = h.frame]]
            BY <2>2
        <3>2. map'[client] = [map[client] EXCEPT ![h.page] = h.frame]
            BY <3>1, AccessFacts
        <3>3. \A p \in Processes \ {client} : map'[p] = map[p]
            BY <3>1, AccessFacts
        <3>4. map[client] \in [Pages -> Frames]
            BY AccessFacts
        <3>5. \A q \in Pages : map'[client][q] = IF q = h.page THEN h.frame ELSE map[client][q]
            BY <3>2, <3>4
        <3> QED BY <2>2, <3>3, <3>5
    <2> QED BY <1>6, <2>1, <2>2
<1>9. ASSUME NEW p \in Processes
      PROVE  /\ state'[p] = "live" => maxBrk'[p] >= FrameCount
             /\ \A q \in Pages : map'[p][q] # None =>
                    q < maxBrk'[p] /\ (q < FrameCount => map'[p][q] = q)
    <2>1. state'[p] = "live" => maxBrk'[p] >= FrameCount
        BY <1>1, <1>2 DEF PlaceInv
    <2>2. ASSUME NEW q \in Pages, map'[p][q] # None
          PROVE  q < maxBrk'[p] /\ (q < FrameCount => map'[p][q] = q)
        <3>1. CASE p = client /\ q = h.page /\ h.frame # None
            <4>1. map'[p][q] = h.frame
                BY <1>8, <3>1
            <4>2. h.page \in Nat /\ FrameCount \in Nat
                BY <1>3, AccessFacts
            <4> QED BY <1>1, <1>7, <3>1, <4>1, <4>2 DEF High
        <3>2. CASE ~(p = client /\ q = h.page /\ h.frame # None)
            BY <1>1, <1>2, <1>8, <2>2, <3>2 DEF PlaceInv
        <3> QED BY <3>1, <3>2
    <2> QED BY <2>1, <2>2
<1>10. ASSUME NEW y \in SafeItems, Placed(y), High(h) => ~High(y) PROVE Placed(y)'
    <2>1. CASE High(h)
        BY <1>1, <1>10, <2>1 DEF Placed, High, Run
    <2>2. ASSUME ~High(h), y.op = "map", High(y), NEW q \in Run(y.page, y.n)
          PROVE  map'[client][q] = None
        <3>1. y.page \in Nat /\ y.n \in Nat /\ y.page + y.n <= PageCount
            BY DEF SafeItems, Items
        <3>2. q \in Pages /\ q >= FrameCount
            BY <2>2, <3>1, AccessFacts DEF Run, High
        <3>3. q # h.page
            BY <1>3, <2>2, <3>2, AccessFacts DEF High
        <3>4. map[client][q] = None
            BY <1>10, <2>2 DEF Placed
        <3> QED BY <1>8, <3>2, <3>3, <3>4, AccessFacts
    <2>3. CASE ~High(h)
        <3>1. y.op = "map" /\ High(y) => \A q \in Run(y.page, y.n) : map'[client'][q] = None
            BY <1>1, <2>2, <2>3
        <3> QED BY <1>1, <1>10, <3>1 DEF Placed, High, Run
    <2> QED BY <2>1, <2>3
<1>11. ASSUME NEW i \in DOMAIN Tail(todo), NEW y, y = Tail(todo)[i] PROVE Placed(y)'
    <2>1. i + 1 \in DOMAIN todo /\ y = todo[i + 1]
        BY <1>1, <1>11, AccessFacts, PoppedItem
    <2>2. Placed(y) /\ y \in SafeItems
        BY <1>2, <1>3, <1>11, <2>1, ElementOfSeq DEF PlaceInv
    <2> QED BY <1>5, <1>10, <1>11, <2>2
\* The page that was mapped waits no longer, every other one still does.
<1>12. ASSUME \A f : Waits(Tail(todo), f) => Waits(todo', f),
              \A f \in Run(h.frame, h.n) : f = h.frame \/ Waits(todo', f)
       PROVE  Reached'
    <2> SUFFICES ASSUME NEW p \in Processes, state[p] = "live", NEW f \in OwnedFrames(p),
                        \A q \in Pages : map'[p][q] # f
                 PROVE  p = client /\ Waits(todo', f)
        BY <1>1 DEF Reached, OwnedFrames, Waits, Run, Pages, Frames
    <2>1. f # None
        BY AccessFacts
    <2>2. CASE p = client /\ f = h.frame
        BY <1>7, <1>8, <2>1, <2>2
    <2>3. ASSUME NEW q \in Pages, map[p][q] = f PROVE p = client /\ f = h.frame
        <3>1. p = client /\ q = h.page /\ h.frame # None
            BY <1>8, <2>3
        <3>2. ~High(h)
            BY <1>7, <2>1, <2>3, <3>1
        <3>3. q < FrameCount => map[p][q] = q
            BY <1>2, <2>1, <2>3 DEF PlaceInv
        <3>4. q < FrameCount
            BY <1>3, <3>1, <3>2, AccessFacts DEF High
        <3> QED BY <1>7, <2>3, <3>1, <3>2, <3>3, <3>4
    <2>4. CASE p = client /\ Waits(todo, f) /\ f # h.frame
        BY <1>5, <1>12, <2>4
    <2> QED BY <1>2, <2>2, <2>3, <2>4 DEF Reached
<1>13. CASE h.n <= 1
    <2>1. todo' = Tail(todo)
        BY <1>1, <1>13 DEF Popped, h
    <2>2. ASSUME NEW i \in DOMAIN todo' PROVE Placed(todo[i])'
        <3>1. PICK y : y = todo'[i]
            OBVIOUS
        <3>2. Placed(y)'
            BY <1>11, <2>1, <3>1
        <3> QED BY <3>1, <3>2 DEF Placed, High, Run
    <2>3. OneHigh(todo)'
        BY <1>5, <2>1 DEF OneHigh, High
    <2>4. \A f \in Run(h.frame, h.n) : f = h.frame
        BY <1>3, <1>13 DEF Run
    <2>5. Reached'
        BY <1>12, <2>1, <2>4
    <2> QED BY <1>9, <2>2, <2>3, <2>5 DEF PlaceInv, Pages
<1>14. CASE h.n > 1
    <2>1. Rest(h) \in SafeItems
        BY <1>1, <1>3, <1>14, RestIsSafe DEF h
    <2>2. PICK x \in SafeItems : x = Rest(h)
        BY <2>1
    <2>3. x.op = "map" /\ x.frame = h.frame + 1 /\ x.page = h.page + 1 /\ x.n = h.n - 1
        BY <2>2 DEF Rest, Map
    <2>4. todo' = <<x>> \o Tail(todo)
        BY <1>1, <1>3, <1>14, <2>2 DEF Popped, h
    <2>5. High(x) <=> High(h)
        <3>1. h.page \in Nat /\ h.frame \in Nat /\ h.n \in Nat /\ h.frame + h.n <= FrameCount
              /\ FrameCount \in Nat
            BY <1>3, AccessFacts
        <3>2. CASE High(h)
            BY <2>3, <3>1, <3>2 DEF High
        <3>3. CASE ~High(h)
            <4>1. h.page = h.frame
                BY <1>4, <1>1, <3>3 DEF Placed
            <4> QED BY <1>14, <2>3, <3>1, <3>3, <4>1 DEF High
        <3> QED BY <3>2, <3>3
    <2>6. Placed(x)'
        <3>1. ASSUME High(h) PROVE \A q \in Run(x.page, x.n) : map'[client][q] = None
            <4>1. ASSUME NEW q \in Run(x.page, x.n) PROVE map'[client][q] = None
                <5>0. h.page \in Nat /\ h.n \in Nat /\ h.page + h.n <= PageCount /\ PageCount \in Nat
                    BY <1>3, AccessFacts
                <5>1. q \in Run(h.page, h.n) /\ q # h.page /\ q \in Pages
                    BY <1>14, <2>3, <4>1, <5>0, MemoryAssumption DEF Run, Pages
                <5>2. map[client][q] = None
                    BY <1>1, <1>4, <3>1, <5>1 DEF Placed, h
                <5> QED BY <1>8, <5>1, <5>2, AccessFacts
            <4> QED BY <4>1
        <3>2. High(h) => x.page + x.n <= maxBrk'[client]
            BY <1>1, <1>3, <1>7, <2>3
        <3>3. ~High(h) => x.page = x.frame
            BY <1>7, <2>3
        <3> QED BY <1>1, <2>3, <2>5, <3>1, <3>2, <3>3 DEF Placed, High, Run
    <2>7. ASSUME NEW i \in DOMAIN todo' PROVE Placed(todo[i])'
        <3>1. PICK y : y = todo'[i]
            OBVIOUS
        <3>2. y = x \/ (i - 1 \in DOMAIN Tail(todo) /\ y = Tail(todo)[i - 1])
            BY <1>3, <2>4, <3>1, PushedItem
        <3>3. Placed(y)'
            BY <1>11, <2>6, <3>2
        <3> QED BY <3>1, <3>3 DEF Placed, High, Run
    <2>8. OneHigh(<<x>> \o Tail(todo))
        BY <1>3, <1>5, <2>5, PushedItem
    <2>9. OneHigh(todo)'
        BY <2>4, <2>8 DEF OneHigh, High
    <2>10. \A f : Waits(Tail(todo), f) \/ f \in Run(x.frame, x.n) => Waits(todo', f)
        BY <1>3, <2>3, <2>4, PushedItem
    <2>11. \A f \in Run(h.frame, h.n) : f = h.frame \/ f \in Run(x.frame, x.n)
        <3>1. \A a, n \in Nat : \A f \in a .. a + n - 1 :
                 f = a \/ f \in a + 1 .. (a + 1) + (n - 1) - 1
            OBVIOUS
        <3> QED BY <1>3, <2>3, <3>1 DEF Run
    <2>12. Reached'
        BY <1>12, <2>10, <2>11
    <2> QED BY <1>9, <2>7, <2>9, <2>12 DEF PlaceInv, Pages
<1> QED BY <1>3, <1>13, <1>14

\* The table a page needs is mapped to its own address first.
LEMMA AccessTable ==
    ASSUME AccessInv, ~failed, AllocateTable
    PROVE  PlaceInv' /\ Reached'
<1>1. PICK f \in Frames : todo' = <<Map(f, f, 1)>> \o todo
    BY DEF AllocateTable
<1>2. /\ owned' = owned /\ state' = state /\ maxBrk' = maxBrk /\ map' = map /\ client' = client
    BY DEF AllocateTable
<1>3. PlaceInv /\ Reached /\ todo \in Seq(SafeItems)
    BY AccessFacts DEF AccessInv
<1>4. Map(f, f, 1) \in SafeItems
    <2>1. f \in Nat /\ f + 1 <= FrameCount /\ f + 1 <= PageCount /\ 1 \in Nat \ {0}
        BY AccessFacts
    <2> QED BY <2>1, MapIsSafe
<1>5. PICK x \in SafeItems : x = Map(f, f, 1)
    BY <1>4
<1>6. x.op = "map" /\ x.page = f /\ x.frame = f
    BY <1>5 DEF Map
<1>7. ~High(x) /\ Placed(x)'
    BY <1>6, AccessFacts DEF High, Placed
<1>8. ASSUME NEW i \in DOMAIN todo' PROVE Placed(todo[i])'
    <2>1. PICK y : y = todo'[i]
        OBVIOUS
    <2>2. y = x \/ (i - 1 \in DOMAIN todo /\ y = todo[i - 1])
        BY <1>1, <1>3, <1>5, <2>1, PushedItem
    <2>3. Placed(y)'
        <3>1. y # x => Placed(y)
            BY <1>3, <2>2 DEF PlaceInv
        <3> QED BY <1>2, <1>7, <3>1 DEF Placed, High, Run
    <2> QED BY <2>1, <2>3 DEF Placed, High, Run
<1>9. OneHigh(<<x>> \o todo) /\ \A g : Waits(todo, g) => Waits(<<x>> \o todo, g)
    BY <1>3, <1>7, PushedItem DEF PlaceInv
<1>10. OneHigh(todo)'
    BY <1>1, <1>5, <1>9 DEF OneHigh, High
<1>11. Reached'
    <2>1. \A g : Waits(todo, g) => Waits(todo', g)
        BY <1>1, <1>5, <1>9
    <2> QED BY <1>2, <1>3, <2>1 DEF Reached, OwnedFrames, Frames, Pages, Waits, Run
<1> QED BY <1>2, <1>3, <1>8, <1>10, <1>11 DEF PlaceInv, Pages

\* A call begins when the stack is empty: then every process that lives reaches
\* all it owns, whoever the call is for.
LEMMA AccessBegins ==
    ASSUME AccessInv, ~failed, todo = <<>>, owned' = owned, map' = map,
           NEW c \in Processes, client' = c,
           \A p \in Processes : state'[p] = "live" =>
              /\ maxBrk'[p] >= FrameCount
              /\ state[p] = "live" \/ OwnedFrames(p) = {},
           \A p \in Processes :
              maxBrk'[p] = maxBrk[p] \/ \A page \in Pages : map[p][page] = None,
           \A i \in DOMAIN todo' : Placed(todo[i])',
           OneHigh(todo)'
    PROVE  PlaceInv' /\ Reached'
<1>1. PlaceInv /\ Reached
    BY DEF AccessInv
<1>2. Reached'
    <2>1. ASSUME NEW p \in Processes, state[p] = "live", NEW f \in OwnedFrames(p)
          PROVE  \E page \in Pages : map[p][page] = f
        BY <1>1, <2>1 DEF Reached, Waits
    <2> QED BY <2>1 DEF Reached, OwnedFrames, Frames, Pages
<1>3. \A p \in Processes : \A page \in Pages :
         map'[p][page] # None => page < maxBrk'[p] /\ (page < FrameCount => map'[p][page] = page)
    BY <1>1 DEF PlaceInv
<1> QED BY <1>2, <1>3 DEF PlaceInv, Pages

LEMMA AccessCreate ==
    ASSUME LinkedAbove, AccessInv, ~failed, NEW p \in Processes, CreateProcess(p)
    PROVE  PlaceInv' /\ Reached'
<1> DEFINE s == [i \in DOMAIN StartSizes |-> Alloc(StartSizes[i], None)]
           x == Map(None, None, KernelPages)
<1>1. /\ state[p] = "new" /\ todo = <<>> /\ client' = p /\ todo' = s \o <<x>>
      /\ state' = [state EXCEPT ![p] = "live"] /\ owned' = owned /\ map' = map
    BY DEF CreateProcess, Begins
<1>2. PICK page \in LoadPages : maxBrk' = [maxBrk EXCEPT ![p] = page]
    BY DEF CreateProcess
<1>3. page \in Nat /\ page >= FrameCount /\ \A q \in Pages : map[p][q] = None
    <2>1. page \in Nat /\ page >= FrameCount
        BY <1>2, MemoryAssumption DEF LinkedAbove, Pages
    <2> QED BY <1>1, <2>1, AccessFacts DEF NewIsEmpty
<1>4. OwnedFrames(p) = {}
    BY <1>1 DEF AccessInv, NewOwnsNothing
<1>5. \A q \in Processes : state[q] = "live" => maxBrk[q] >= FrameCount
    BY DEF AccessInv, PlaceInv
\* Nothing is mapped for the program yet.
<1>6. ASSUME NEW i \in DOMAIN todo'
      PROVE  \/ todo'[i] = x
             \/ \E n : todo'[i] = Alloc(n, None)
    <2>1. DOMAIN StartSizes = 1 .. Len(StartSizes) /\ Len(StartSizes) \in Nat
        BY MemoryAssumption, LenProperties
    <2>2. s \in Seq(Range(s)) /\ Len(s) = Len(StartSizes)
        <3>1. \A j \in 1 .. Len(StartSizes) : s[j] \in Range(s)
            BY <2>1 DEF Range
        <3>2. s \in Seq(Range(s))
            BY <2>1, <3>1, IsASeq
        <3>3. DOMAIN s = 1 .. Len(s) /\ DOMAIN s = 1 .. Len(StartSizes) /\ Len(s) \in Nat
            BY <2>1, <3>2, LenProperties
        <3> HIDE DEF s
        <3>4. \A m, n \in Nat : 1 .. m = 1 .. n => m = n
            <4> SUFFICES ASSUME NEW m \in Nat, NEW n \in Nat, 1 .. m = 1 .. n PROVE m = n
                OBVIOUS
            <4>1. (m > 0 => m \in 1 .. n) /\ (n > 0 => n \in 1 .. m)
                OBVIOUS
            <4> QED BY <4>1
        <3>5. Len(s) = Len(StartSizes)
            <4>1. 1 .. Len(s) = 1 .. Len(StartSizes)
                BY <3>3
            <4>2. Len(s) \in Nat /\ Len(StartSizes) \in Nat
                BY <2>1, <3>3
            <4> QED BY <3>4, <4>1, <4>2
        <3> QED BY <3>2, <3>5
    <2> DEFINE T == Range(s) \cup {x}
    <2>3. s \in Seq(T) /\ <<x>> \in Seq(T)
        BY <2>2, SeqMonotonic
    <2> HIDE DEF s, x, T
    <2>4. /\ Len(s \o <<x>>) = Len(s) + 1 /\ s \o <<x>> \in Seq(T)
          /\ \A j \in 1 .. Len(s \o <<x>>) :
                (s \o <<x>>)[j] = IF j <= Len(s) THEN s[j] ELSE <<x>>[j - Len(s)]
        <3>1. Len(<<x>>) = 1
            OBVIOUS
        <3> QED BY <2>3, <3>1, ConcatProperties
    <2>5. DOMAIN (s \o <<x>>) = 1 .. Len(s) + 1 /\ Len(s) \in Nat
        BY <2>1, <2>2, <2>4, LenProperties
    <2>6. CASE i <= Len(s)
        <3>1. i \in DOMAIN StartSizes /\ todo'[i] = s[i]
            BY <1>1, <2>1, <2>2, <2>4, <2>5, <2>6
        <3> QED BY <3>1 DEF s
    <2>7. CASE ~(i <= Len(s))
        <3>1. i - Len(s) = 1
            BY <1>1, <2>5, <2>7
        <3>2. todo'[i] = <<x>>[1]
            BY <1>1, <2>4, <2>5, <2>7, <3>1
        <3> QED BY <3>2
    <2> QED BY <2>6, <2>7
<1>7. ASSUME NEW i \in DOMAIN todo' PROVE Placed(todo[i])' /\ ~High(todo'[i])
    BY <1>6, AccessFacts DEF Placed, High, Map, Alloc, None
<1>8. OneHigh(todo)'
    BY <1>7 DEF OneHigh, High
<1>9. /\ \A q \in Processes : state'[q] = "live" =>
            /\ maxBrk'[q] >= FrameCount
            /\ state[q] = "live" \/ OwnedFrames(q) = {}
      /\ \A q \in Processes :
            maxBrk'[q] = maxBrk[q] \/ \A z \in Pages : map[q][z] = None
    BY <1>1, <1>2, <1>3, <1>4, <1>5, AccessFacts
<1> HIDE DEF s, x
<1> QED BY <1>1, <1>7, <1>8, <1>9, AccessBegins

LEMMA AccessRequest ==
    ASSUME AccessInv, ~failed, NEW p \in Processes, NEW n \in 1 .. MaxRequest,
           AllocatePages(p, n) \/ AllocatePagesAt(p, n)
    PROVE  PlaceInv' /\ Reached'
<1>1. PICK page \in {None, maxBrk[p]} : todo' = <<Alloc(n, page)>>
    BY DEF AllocatePages, AllocatePagesAt, Begins
<1>2. /\ todo = <<>> /\ client' = p /\ owned' = owned /\ map' = map /\ state' = state
      /\ maxBrk' = maxBrk
    BY DEF AllocatePages, AllocatePagesAt, Begins, processVars
<1>3. /\ DOMAIN todo' = {1} /\ todo'[1] = Alloc(n, page)
    BY <1>1
<1>4. \A i \in DOMAIN todo' : Placed(todo[i])'
    BY <1>1, <1>2, <1>3 DEF Placed, Alloc
<1>5. OneHigh(todo)'
    BY <1>3 DEF OneHigh
<1>6. \A q \in Processes : state[q] = "live" => maxBrk[q] >= FrameCount
    BY DEF AccessInv, PlaceInv
<1> QED BY <1>2, <1>4, <1>5, <1>6, AccessBegins

LEMMA AccessKill ==
    ASSUME AccessInv, ~failed, NEW p \in Processes, Kill(p)
    PROVE  PlaceInv' /\ Reached'
<1>1. /\ todo = <<>> /\ todo' = <<>> /\ client' = client /\ maxBrk' = maxBrk /\ map' = map
      /\ state' = [state EXCEPT ![p] = "dead"]
      /\ owned' = [owned EXCEPT ![p] = [f \in Frames |-> 0]]
    BY DEF Kill
<1>2. PlaceInv /\ Reached
    BY DEF AccessInv
<1>3. \A q \in Processes : state'[q] = "live" => state[q] = "live" /\ owned'[q] = owned[q]
    BY <1>1, AccessFacts
<1>4. PlaceInv'
    BY <1>1, <1>2, <1>3 DEF PlaceInv, OneHigh, Pages
<1>5. Reached'
    BY <1>1, <1>2, <1>3 DEF Reached, OwnedFrames, Frames, Pages, Waits
<1> QED BY <1>4, <1>5

LEMMA AccessStep ==
    ASSUME LinkedAbove, AccessInv, [Next]_vars
    PROVE  AccessInv'
<1>1. MemoryInv' /\ NewOwnsNothing'
    BY TypeStep, RoleStep, ClientStep, TodoStep, IsolationStep, NewOwnsStep
       DEF AccessInv, MemoryInv, RoleInv
<1> SUFFICES ASSUME ~failed' PROVE PlaceInv' /\ Reached'
    BY <1>1 DEF AccessInv
<1>2. ~failed
    BY DEF Next, AllocateStep, AllocateFails, DirectoryFails, SkipNull, MapPage,
           AllocateTable, TableFails, CreateProcess, AllocatePages, AllocatePagesAt,
           Kill, KillPanics, GrowHeap, Panic, vars
<1>3. CASE AllocateStep
    BY <1>2, <1>3, AccessAllocate
<1>4. CASE SkipNull \/ MapPage
    BY <1>2, <1>4, AccessPop
<1>5. CASE AllocateTable
    BY <1>2, <1>5, AccessTable
<1>6. ASSUME NEW p \in Processes, CreateProcess(p) PROVE PlaceInv' /\ Reached'
    BY <1>2, <1>6, AccessCreate
<1>7. ASSUME NEW p \in Processes, NEW n \in 1 .. MaxRequest,
             AllocatePages(p, n) \/ AllocatePagesAt(p, n)
      PROVE  PlaceInv' /\ Reached'
    BY <1>2, <1>7, AccessRequest
<1>8. ASSUME NEW p \in Processes, Kill(p) PROVE PlaceInv' /\ Reached'
    BY <1>2, <1>8, AccessKill
<1>9. CASE UNCHANGED <<state, owned, maxBrk, map, client, todo>>
    <2>1. PlaceInv /\ Reached
        BY <1>2 DEF AccessInv
    <2> QED BY <1>9, <2>1 DEF PlaceInv, Reached, Placed, High, OneHigh, Waits, Run,
               OwnedFrames, Pages, Frames
<1>10. CASE \/ DirectoryFails \/ TableFails \/ UNCHANGED vars
            \/ \E p \in Processes : KillPanics(p)
            \/ \E n \in 1 .. MaxRequest : GrowHeap(n)
    BY <1>9, <1>10 DEF DirectoryFails, TableFails, KillPanics, Panic, GrowHeap, vars,
           processVars
<1>11. CASE AllocateFails
    BY <1>11 DEF AllocateFails
<1> QED BY <1>3, <1>4, <1>5, <1>6, <1>7, <1>8, <1>10, <1>11 DEF Next

\* Between two calls a process reaches every page it was given, as long as no request
\* failed: no page is mapped twice, whatever tables were needed in between
\* (Process::allocatePagesAt, PageDirectory::mapPages, handleBrk).
THEOREM AccessTheorem ==
    ASSUME LinkedAbove
    PROVE  Spec => []OwnedAccessible
<1>1. AccessInv /\ [Next]_vars => AccessInv'
    BY AccessStep
<1>2. AccessInv => OwnedAccessible
    BY EmptySeq DEF AccessInv, Reached, Waits, OwnedAccessible
<1> QED BY AccessInit, <1>1, <1>2, PTL DEF Spec
=============================================================================
