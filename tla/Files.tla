--------------------------------- MODULE Files ---------------------------------
(***************************************************************************)
(* Open files: the inodes that FAT32Directory and FAT32Archive keep of     *)
(* what is on the disk (PalmyraOS/source/core/files/Fat32FileSystem.cpp    *)
(* and VirtualFileSystemBase.cpp), the descriptors of the processes        *)
(* (core/tasks/DescriptorTable.cpp, FileDescriptor.cpp) and the system     *)
(* calls on both (core/tasks/SystemCalls.cpp).                             *)
(*                                                                         *)
(* The disk works as Fat32.tla says: here a call of FAT32Partition is one  *)
(* step.  open, write, lseek and close run with interrupts disabled and    *)
(* are one step; mkdir, rmdir, unlink, read and getdents enable them, and  *)
(* other processes run between their steps.  The file system's root holds  *)
(* files and one directory, Sub.  What happens after a freed inode is      *)
(* still pointed to, or an iterator ran past its end, is undefined: the    *)
(* model goes no further.                                                  *)
(***************************************************************************)
EXTENDS Integers, Sequences, SequencesExt, FiniteSetsExt

CONSTANTS
    Processes,
    TopNames, SubNames,  \* of files in the root and in Sub
    Sub,                 \* the name of the directory
    SlotsPer,            \* bound of the model: entries in a directory
    MaxOpens,            \* bound of the model: descriptors a process ever opens
    MaxSize,             \* bound of the model: bytes in a file
    Blocks               \* of the heap, for inodes

VARIABLES
    disk,    \* directory |-> slot |-> entry or Free
    inode,   \* block |-> the inode in it; a block that was freed is not in the domain
    opened,  \* process |-> its FileDescriptors in the order of their numbers
    call,    \* process |-> the system call it is in
    orphaned, \* history: an inode in use was dropped from the tree without being freed
    crossed   \* history: a directory was used while another call had changed it on the disk only

vars == <<disk, inode, opened, call, orphaned, crossed>>

Top == "top"
RootInode == 0

ASSUME FilesAssumption ==
    /\ Sub \notin TopNames /\ Sub # Top /\ SlotsPer \in Nat /\ MaxOpens \in Nat /\ MaxSize \in Nat
    /\ Blocks \subseteq Nat /\ IsFiniteSet(Blocks) /\ RootInode \in Blocks

Free == [kind |-> "free", name |-> "", first |-> 0, size |-> 0]
Released == [at |-> 0 - 1, offset |-> 0]
Idle == [op |-> "idle", dir |-> 0, name |-> "", fd |-> 0, found |-> {}, step |-> 0]
NoKids == [n \in {} |-> 0]

-----------------------------------------------------------------------------
(* The disk.                                                               *)

Used(d) == {s \in DOMAIN disk[d] : disk[d][s].kind # "free"}
SlotOf(d, name) == {s \in Used(d) : disk[d][s].name = name}
FreeSlots(d) == DOMAIN disk[d] \ Used(d)
NewEntry(name, kind) == [kind |-> kind, name |-> name, first |-> 0, size |-> 0]

\* A chain that no entry has: chains are numbered.
NewChain == Min((1 .. 2 * SlotsPer + 1) \ {disk[d][s].first : d \in DOMAIN disk, s \in 1 .. SlotsPer})

-----------------------------------------------------------------------------
(* Inodes.                                                                 *)

Inode(d, s, e) ==
    [kind |-> e.kind, dir |-> d, slot |-> s, name |-> e.name, first |-> e.first, size |-> e.size, kids |-> NoKids]

\* The directory of the disk that a directory's inode lists.
Listing(a) == IF a = RootInode THEN Top ELSE Sub

In(table) == (UNION {Range(table[p]) : p \in Processes}) \ {Released}
FileDescriptors == In(opened)
Held == {d.at : d \in FileDescriptors} \cup {call[p].dir : p \in {q \in Processes : call[q] # Idle}}
Dangling == ~(Held \subseteq DOMAIN inode)
Spare(mem) == Blocks \ (DOMAIN mem \cup Held)

\* clearDentries: the children are freed, but not the children of those.
Cleared(mem, a) ==
    [b \in DOMAIN mem \ Range(mem[a].kids) |-> IF b = a THEN [mem[a] EXCEPT !.kids = NoKids] ELSE mem[b]]

\* Each entry that was read gets an inode of its own, and its name in the map.
Added(mem, a, d, found) ==
    LET own == CHOOSE f \in [found -> Spare(mem)] : IsInjective(f)
        names == {e.entry.name : e \in found}
        of(name) == own[CHOOSE e \in found : e.entry.name = name]
    IN  [b \in DOMAIN mem \cup Range(own) |->
            IF b \notin DOMAIN mem
            THEN LET e == CHOOSE x \in found : own[x] = b IN Inode(d, e.slot, e.entry)
            ELSE IF b = a
            THEN [mem[a] EXCEPT !.kids = [x \in DOMAIN @ \cup names |-> IF x \in names THEN of(x) ELSE @[x]]]
            ELSE mem[b]]

\* getDirectoryEntries
Found(d) == {[slot |-> s, entry |-> disk[d][s]] : s \in Used(d)}

\* getDentry lists a directory that has no dentries.
Loaded(mem, a) ==
    IF mem[a].kids = NoKids THEN Added(mem, a, Listing(a), Found(Listing(a))) ELSE mem
Child(mem, a, name) == IF name \in DOMAIN mem[a].kids THEN {mem[a].kids[name]} ELSE {}

\* traversePath: the inodes after it, and the one that was found.
Walked(path) ==
    LET m1 == Loaded(inode, RootInode)
        first == Child(m1, RootInode, path[1])
    IN  IF Len(path) = 1 \/ first = {} THEN [mem |-> m1, found |-> IF Len(path) = 1 THEN first ELSE {}]
        ELSE LET a == CHOOSE x \in first : TRUE
                 m2 == Loaded(m1, a)
             IN  [mem |-> m2, found |-> Child(m2, a, path[2])]
Home(path) ==
    IF Len(path) = 1 THEN [mem |-> Loaded(inode, RootInode), found |-> {RootInode}]
    ELSE Walked(<<path[1]>>)

\* Inodes that nothing leads to any more are leaked; the model forgets them.
\* One that is leaked while it can still be used is an orphan.
Reachable(mem) ==
    LET more(S) == S \cup UNION {Range(mem[a].kids) : a \in S}
    IN  more(more({RootInode}))
Remember(mem, held) ==
    /\ inode' = [a \in DOMAIN mem \cap (Reachable(mem) \cup held \cup
                                       UNION {Range(mem[b].kids) : b \in DOMAIN mem \cap held}) |-> mem[a]]
    /\ orphaned' = (orphaned \/ ~((held \cap DOMAIN mem) \subseteq Reachable(mem)))

Keep(mem) == Remember(mem, Held)

Paths == {<<n>> : n \in TopNames \cup {Sub}} \cup {<<Sub, n>> : n \in SubNames}
Ready(p) == call[p] = Idle
At(p, op, step) == call[p].op = op /\ call[p].step = step
OpenOf(p) == {i \in DOMAIN opened[p] : opened[p][i] # Released}
Goes(p, c) == call' = [call EXCEPT ![p] = c]

-----------------------------------------------------------------------------
(* open and close.                                                         *)

Descriptor(p, a, mem) ==
    /\ opened' = [opened EXCEPT ![p] = Append(@, [at |-> a, offset |-> 0])]
    /\ Remember(mem, Held \cup {a})

\* An existing file, truncated or not; nothing looks at the flags later.
OpenExisting(p, path) ==
    LET w == Walked(path) IN
    \E a \in w.found :
        /\ Descriptor(p, a, w.mem)
        /\ UNCHANGED <<disk, call>>
\* FAT32Archive::truncate resets its copy of the entry as well.
Truncated_ChainKept(n) == [n EXCEPT !.size = 0]
Truncated(n) == [n EXCEPT !.first = 0, !.size = 0]
OpenTruncate(p, path) ==
    LET w == Walked(path) IN
    \E a \in w.found :
        LET n == w.mem[a] IN
        /\ n.kind = "file"
        /\ Descriptor(p, a, [w.mem EXCEPT ![a] = Truncated(n)])
        /\ disk' = [disk EXCEPT ![n.dir][n.slot] = [kind |-> "file", name |-> n.name, first |-> 0, size |-> 0]]
        /\ UNCHANGED call

\* O_CREAT where nothing is found: FAT32Directory::createFile.
OpenCreate(p, path) ==
    LET h == Home(path)  name == Last(path) IN
    /\ name # Sub
    /\ Walked(path).found = {}
    /\ \E a \in h.found :
        LET d == Listing(a)
            s == Min(FreeSlots(d))
            mem == Loaded(h.mem, a)
            made == Added(mem, a, d, {[slot |-> s, entry |-> NewEntry(name, "file")]})
        IN  /\ mem[a].kind = "dir"
            /\ SlotOf(d, name) = {} /\ FreeSlots(d) # {}
            /\ disk' = [disk EXCEPT ![d][s] = NewEntry(name, "file")]
            /\ Descriptor(p, made[a].kids[name], made)
    /\ UNCHANGED call

OpenFile(p, path) ==
    /\ Ready(p) /\ Len(opened[p]) < MaxOpens
    /\ OpenExisting(p, path) \/ OpenTruncate(p, path) \/ OpenCreate(p, path)

Close(p, i) ==
    LET after == [opened EXCEPT ![p][i] = Released] IN
    /\ Ready(p)
    /\ opened' = after
    /\ Remember(inode, {d.at : d \in In(after)} \cup {call[q].dir : q \in {r \in Processes : call[r] # Idle}})
    /\ UNCHANGED <<disk, call>>

-----------------------------------------------------------------------------
(* write, lseek and read of a file, through the inode's own copy of its    *)
(* entry: flushEntry writes all of it to its slot.                         *)

WrittenSize(n, end) == IF end > n.size THEN end ELSE n.size
Write(p, i) ==
    LET d == opened[p][i]  n == inode[d.at]
        chain == IF n.first = 0 THEN NewChain ELSE n.first
    IN  /\ Ready(p)
        /\ n.kind = "file" /\ d.offset < MaxSize
        /\ \E ok \in BOOLEAN :  \* FALSE: no cluster was left for the bytes
              LET size == IF ok THEN WrittenSize(n, d.offset + 1) ELSE n.size
                  first == IF ok THEN chain ELSE n.first
              IN  /\ inode' = [inode EXCEPT ![d.at].first = first, ![d.at].size = size]
                  /\ disk' = [disk EXCEPT ![n.dir][n.slot] =
                                 IF ok /\ (n.first # chain \/ n.size # size)
                                 THEN [kind |-> "file", name |-> n.name, first |-> first, size |-> size] ELSE @]
                  /\ opened' = [opened EXCEPT ![p][i].offset = IF ok THEN @ + 1 ELSE @]
        /\ UNCHANGED <<call, orphaned>>

Seek(p, i) ==
    /\ Ready(p)
    /\ \E to \in {0, inode[opened[p][i].at].size} : opened' = [opened EXCEPT ![p][i].offset = to]
    /\ UNCHANGED <<disk, inode, call, orphaned>>

\* The process may be interrupted while the disk is read; the offset moves
\* on behind.
BeginRead(p, i) ==
    /\ Ready(p)
    /\ inode[opened[p][i].at].kind = "file"
    /\ Goes(p, [Idle EXCEPT !.op = "read", !.dir = opened[p][i].at, !.fd = i])
    /\ UNCHANGED <<disk, inode, opened, orphaned>>
EndRead(p) ==
    LET c == call[p]  n == inode[c.dir] IN
    /\ c.op = "read"
    /\ opened' = [opened EXCEPT ![p][c.fd].offset = IF @ < n.size THEN @ + 1 ELSE @]
    /\ Goes(p, Idle)
    /\ UNCHANGED <<disk, inode, orphaned>>

-----------------------------------------------------------------------------
(* mkdir, unlink and rmdir: the path is looked up, interrupts are enabled, *)
(* the disk is changed, and then the dentry.                               *)

Begin(p, op, path, kind) ==
    LET w == Walked(path)  h == Home(path)
        mem == IF op = "mkdir" THEN h.mem ELSE w.mem
    IN  /\ Ready(p)
        /\ op # "mkdir" => \E a \in w.found : w.mem[a].kind = kind
        /\ \E a \in h.found :
              /\ Goes(p, [Idle EXCEPT !.op = op, !.dir = a, !.name = Last(path)])
              /\ Remember(mem, Held \cup {a})
        /\ UNCHANGED <<disk, opened>>
BeginMkdir(p) == Begin(p, "mkdir", <<Sub>>, "dir")
BeginUnlink(p, path) == Begin(p, "unlink", path, "file")
BeginRmdir(p) == Begin(p, "rmdir", <<Sub>>, "dir")

Fails(p) == Goes(p, Idle) /\ UNCHANGED disk
OnDisk(p) ==
    LET c == call[p]  d == Listing(c.dir)  s == SlotOf(d, c.name)
        emptied == [s2 \in 1 .. SlotsPer |-> Free]
    IN  /\ c.op \in {"mkdir", "unlink", "rmdir"} /\ c.step = 0
        /\ \/ /\ c.op = "mkdir" /\ s = {} /\ FreeSlots(d) # {}
              /\ disk' = [disk EXCEPT ![d][Min(FreeSlots(d))] = NewEntry(c.name, "dir"), ![Sub] = emptied]
              /\ Goes(p, [c EXCEPT !.step = 1, !.fd = Min(FreeSlots(d))])
           \/ /\ c.op = "unlink" /\ \E x \in s : disk[d][x].kind = "file" /\ disk' = [disk EXCEPT ![d][x] = Free]
              /\ Goes(p, [c EXCEPT !.step = 1])
           \/ /\ c.op = "rmdir" /\ Used(Sub) = {}
              /\ \E x \in s : disk[d][x].kind = "dir" /\ disk' = [disk EXCEPT ![d][x] = Free]
              /\ Goes(p, [c EXCEPT !.step = 1])
           \/ /\ c.op = "mkdir" /\ (s # {} \/ FreeSlots(d) = {}) /\ Fails(p)
           \/ /\ c.op # "mkdir" /\ s = {} /\ Fails(p)
           \/ /\ c.op = "rmdir" /\ Used(Sub) # {} /\ Fails(p)
        /\ UNCHANGED <<inode, opened, orphaned>>

\* removeDentry takes the name out of the map and frees its inode.
Removed_Kept(mem, a, name) == mem
Removed(mem, a, name) ==
    IF name \notin DOMAIN mem[a].kids THEN mem
    ELSE [b \in DOMAIN mem \ {mem[a].kids[name]} |->
             IF b = a THEN [mem[a] EXCEPT !.kids = [x \in DOMAIN @ \ {name} |-> @[x]]] ELSE mem[b]]
InMap(p) ==
    LET c == call[p] IN
    /\ c.op \in {"mkdir", "unlink", "rmdir"} /\ c.step = 1
    /\ Goes(p, Idle)
    /\ Keep(IF c.op = "mkdir"
            THEN Added(inode, c.dir, Top, {[slot |-> c.fd, entry |-> NewEntry(c.name, "dir")]})
            ELSE Removed(inode, c.dir, c.name))
    /\ UNCHANGED <<disk, opened>>

-----------------------------------------------------------------------------
(* getdents: the dentries are cleared, read from the disk, and counted     *)
(* from the offset on.                                                     *)

BeginList(p, i) ==
    LET a == opened[p][i].at IN
    /\ Ready(p)
    /\ inode[a].kind = "dir"
    /\ Goes(p, [Idle EXCEPT !.op = "list", !.dir = a, !.fd = i])
    /\ Keep(Cleared(inode, a))
    /\ UNCHANGED <<disk, opened>>
ReadList(p) ==
    /\ At(p, "list", 0)
    /\ Goes(p, [call[p] EXCEPT !.found = Found(Listing(call[p].dir)), !.step = 1])
    /\ UNCHANGED <<disk, inode, opened, orphaned>>
EndList(p) ==
    LET c == call[p]
        mem == Added(inode, c.dir, Listing(c.dir), c.found)
        n == Cardinality(DOMAIN mem[c.dir].kids)
    IN  /\ At(p, "list", 1)
        /\ opened[p][c.fd].offset <= n  \* else the iterator runs past its end
        /\ Keep(mem)
        /\ opened' = [opened EXCEPT ![p][c.fd].offset = n]
        /\ Goes(p, Idle)
        /\ UNCHANGED disk

-----------------------------------------------------------------------------

PastTheEnd ==
    ~Dangling /\ \E p \in Processes :
        /\ At(p, "list", 1)
        /\ opened[p][call[p].fd].offset >
              Cardinality(DOMAIN inode[call[p].dir].kids \cup {e.entry.name : e \in call[p].found})
Undefined == Dangling \/ PastTheEnd

\* Bound of the model: a call may need an inode for every entry of two directories.
Full == Cardinality(Spare(inode)) < 2 * SlotsPer + 1

Init ==
    /\ disk = [d \in {Top, Sub} |-> [s \in 1 .. SlotsPer |-> Free]]
    /\ inode = [b \in {RootInode} |-> Inode(Top, 0, NewEntry("", "dir"))]
    /\ opened = [p \in Processes |-> <<>>]
    /\ call = [p \in Processes |-> Idle]
    /\ orphaned = FALSE /\ crossed = FALSE

\* What a step looks at, and where a call has changed one of disk and inodes.
Way(path) == IF Len(path) = 1 THEN {Top} ELSE {Top, Sub}
Scope(c) == {Listing(c.dir)} \cup (IF c.op \in {"mkdir", "rmdir"} THEN {Sub} ELSE {})
Halfway(p) == IF call[p].step = 1 THEN Scope(call[p]) ELSE {}

Step(p, dirs) ==
    \/ \E path \in Paths : dirs = Way(path) /\ (OpenFile(p, path) \/ BeginUnlink(p, path))
    \/ \E i \in OpenOf(p) : dirs = {} /\ (Close(p, i) \/ Seek(p, i) \/ BeginRead(p, i))
    \/ \E i \in OpenOf(p) : dirs = {inode[opened[p][i].at].dir} /\ Write(p, i)
    \/ \E i \in OpenOf(p) : dirs = {Listing(opened[p][i].at)} /\ BeginList(p, i)
    \/ dirs = {Top} /\ BeginMkdir(p)
    \/ dirs = {Top, Sub} /\ BeginRmdir(p)
    \/ dirs = {} /\ EndRead(p)
    \/ dirs = Scope(call[p]) /\ (OnDisk(p) \/ InMap(p) \/ ReadList(p) \/ EndList(p))

Next ==
    \/ /\ ~Undefined /\ ~Full
       /\ \E p \in Processes, dirs \in SUBSET {Top, Sub} :
             /\ Step(p, dirs)
             /\ crossed' = (crossed \/ \E q \in Processes \ {p} : dirs \cap Halfway(q) # {})
    \/ (Undefined \/ Full) /\ UNCHANGED vars

Spec == Init /\ [][Next]_vars

-----------------------------------------------------------------------------
(* Properties.                                                             *)

Busy(d) == \E p \in Processes : call[p] # Idle /\ call[p].op # "read" /\ Listing(call[p].dir) = d

\* What the inode of a file says is what the disk says.
Agrees(a) ==
    LET n == inode[a]  e == disk[n.dir][n.slot] IN
    n.kind = "file" => e = [kind |-> "file", name |-> n.name, first |-> n.first, size |-> n.size]

\* Between the calls on a directory its dentries, once it has any, name what
\* is on the disk, and their copies of the entries are those of the disk:
\* as long as no directory was listed again while it or its files were in
\* use, which leaves two inodes of one file.
CacheAgrees ==
    ~Dangling /\ ~orphaned /\ ~crossed =>
        \A a \in {b \in DOMAIN inode : inode[b].kind = "dir" /\ ~Busy(Listing(b)) /\ inode[b].kids # NoKids} :
            /\ DOMAIN inode[a].kids = {disk[Listing(a)][s].name : s \in Used(Listing(a))}
            /\ \A name \in DOMAIN inode[a].kids : Agrees(inode[a].kids[name])

\* A file that is open is the file that was opened: every descriptor writes
\* through the only inode of its file, so no write is lost.
OpenFilesAgree ==
    ~Dangling /\ ~orphaned /\ ~crossed => \A d \in FileDescriptors : ~Busy(inode[d.at].dir) => Agrees(d.at)

\* FileDescriptor.h:13: "Represents an open file with an associated VFS
\* inode": the inode of an open descriptor has not been freed.
OpenInodesLive == {d.at : d \in FileDescriptors} \subseteq DOMAIN inode
=============================================================================
