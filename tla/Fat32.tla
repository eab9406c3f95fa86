--------------------------------- MODULE Fat32 ---------------------------------
(***************************************************************************)
(* FAT32Partition: PalmyraOS/source/core/files/partitions/Fat32.cpp.       *)
(*                                                                         *)
(* The disk is the allocation table and the clusters.  A cluster is a      *)
(* sector of CellsPerCluster cells; a cell is a byte of a file or a        *)
(* 32-byte slot of a directory, and a zero byte is also the slot that ends *)
(* a directory.  A call is a sequence of steps, each with one write to the *)
(* disk and the reads just before it; what a call has read earlier and     *)
(* still uses is in its record.  Between two steps another caller may run, *)
(* since unlink, mkdir and rmdir have the interrupts enabled, or the       *)
(* machine may stop.                                                       *)
(***************************************************************************)
EXTENDS Integers, Sequences, SequencesExt, FiniteSets

CONSTANTS
    Callers,          \* processes that are inside the file system at a time
    LastCluster,      \* countClusters_ - 1
    CellsPerCluster,  \* clusterSizeBytes_
    FirstLimit,       \* 2 ^ 16: a DirectoryEntry keeps a cluster in a uint16_t
    RootNames, InnerNames, \* of entries in the root, and in its directories
    Slots,            \* slots an entry needs: 1, and more with a long name
    Directories,      \* the names used for directories, all in the root
    Offsets, Sizes,   \* of the writes that are asked for
    Values,           \* the bytes that are written
    CrashOps,         \* calls during which the machine may stop
    TornDirectories,  \* may it stop between the writes to a directory of several clusters?
    MaxCrashes        \* bound of the model: how often it does

Names == RootNames \cup InnerNames

ASSUME GeometryAssumption ==
    /\ LastCluster \in Nat /\ CellsPerCluster \in Nat
    /\ CellsPerCluster >= 3 /\ LastCluster >= 2 /\ FirstLimit \in Nat
    /\ Offsets \subseteq Nat /\ Sizes \subseteq Nat \ {0}
    /\ Directories \subseteq RootNames
    /\ Slots \in [Names -> 1 .. CellsPerCluster]

VARIABLES
    fat,      \* the entry of every cluster: 0 is free
    data,     \* the cells of every cluster
    call,     \* what each caller is at
    tree,     \* history: the files as they were when no call was at work
    torn,     \* history: the files whose last write did not succeed
    crashes   \* history: how often the machine has stopped

vars == <<fat, data, call, tree, torn, crashes>>

Root == 2
Eoc == 0 - 1
Torn == <<0 - 1>>  \* no byte: stands for any bytes
Clusters == Root .. LastCluster

Zero == [kind |-> "zero"]
Deleted == [kind |-> "deleted"]
Byte(v) == IF v = 0 THEN Zero ELSE [kind |-> "byte", value |-> v]
Value(cell) == IF cell = Zero THEN 0 ELSE cell.value
Lfn(name, n) == [kind |-> "lfn", name |-> name, order |-> n]
Dot(name, c) == [kind |-> "dot", name |-> name, first |-> c]
Slot(kind, name, first, size) ==
    [kind |-> kind, name |-> name, first |-> first % FirstLimit, size |-> size]

Zeros(n) == [i \in 1 .. n |-> Zero]
Least(S) == CHOOSE x \in S : \A y \in S : x <= y
Less(a, b) == IF a < b THEN a ELSE b

-----------------------------------------------------------------------------
(* Reading.                                                                *)

\* readClusterChain: up to the end marker, a free cluster or a loop.
Chain(first) ==
    LET next(s) == fat[s[Len(s)]]
        walk[i \in 0 .. LastCluster] ==
            IF i = 0 THEN IF first = 0 THEN <<>> ELSE <<first>>
            ELSE LET s == walk[i - 1] IN
                 IF s = <<>> \/ next(s) \in {0, Eoc} \/ next(s) \in ToSet(s)
                 THEN s ELSE Append(s, next(s))
    IN  walk[LastCluster]

\* readFile of a whole chain.
Cells(chain) ==
    [i \in 1 .. Len(chain) * CellsPerCluster |->
        data[chain[(i - 1) \div CellsPerCluster + 1]][((i - 1) % CellsPerCluster) + 1]]

Part(cells, i) == SubSeq(cells, (i - 1) * CellsPerCluster + 1, i * CellsPerCluster)
ClustersFor(n) == (n + CellsPerCluster - 1) \div CellsPerCluster

\* getDirectoryEntries: the slots up to the first zero one, each with the
\* place it is at (its DirectoryEntry).
Ended(cells, i) == \E j \in 1 .. i : cells[j] = Zero
Live(cells) ==
    {i \in DOMAIN cells : cells[i].kind \in {"file", "dir"} /\ ~Ended(cells, i)}
Entry(dir, off, s) ==
    [dir |-> dir, off |-> off, kind |-> s.kind, name |-> s.name,
     first |-> s.first, size |-> s.size]
Entries(dir) ==
    LET cells == Cells(Chain(dir))
    IN  {Entry(dir, i - 1, cells[i]) : i \in Live(cells)}

Named(dir, name) == {e \in Entries(dir) : e.name = name}

Bytes(e) ==
    LET cells == Cells(Chain(e.first))
    IN  [i \in 1 .. Less(e.size, Len(cells)) |-> Value(cells[i])]

\* readFile of a part: whole clusters are passed over, as many are read as
\* the size alone needs, and the offset in the first one is left out.
Skipped_RoundsUp(off) == (off + CellsPerCluster - 1) \div CellsPerCluster
Skipped(off) == off \div CellsPerCluster
ReadPart(first, off, n) ==
    LET chain == Chain(first)
        taken == SubSeq(chain, Skipped(off) + 1, Less(Len(chain), Skipped(off) + ClustersFor(n)))
        cells == Cells(taken)
        from == off % CellsPerCluster
    IN  SubSeq(cells, from + 1, Less(Len(cells), from + n))

Usable(e) == e.kind = "dir" /\ e.first # 0

-----------------------------------------------------------------------------
(* The tree as its users see it.                                           *)

Tree(damaged) ==
    LET top == Entries(Root)
        inner == UNION {{<<d, e>> : e \in Entries(d.first)} : d \in {e \in top : Usable(e)}}
        Content(path, e) ==
            [kind |-> e.kind,
             bytes |-> IF path \in damaged THEN Torn ELSE IF e.kind = "dir" THEN <<>> ELSE Bytes(e)]
    IN  [p \in {<<e.name>> : e \in top} \cup {<<x[1].name, x[2].name>> : x \in inner} |->
            IF Len(p) = 1 THEN Content(p, CHOOSE e \in top : e.name = p[1])
            ELSE Content(p, (CHOOSE x \in inner : x[1].name = p[1] /\ x[2].name = p[2])[2])]

Idle == [op |-> "idle"]
Quiet == \A p \in Callers : call[p] = Idle

\* Where a call starts: a directory and its path.
Homes == {[path |-> <<>>, first |-> Root]} \cup
         {[path |-> <<e.name>>, first |-> e.first] : e \in {x \in Entries(Root) : Usable(x)}}

Asks(p, op, at, home, name) ==
    [op |-> op, at |-> at, dir |-> home.first, path |-> Append(home.path, name), name |-> name,
     ent |-> Entry(0, 0, Slot("file", name, 0, 0)), chain |-> <<>>, image |-> <<>>,
     new |-> 0, last |-> 0, next |-> "", left |-> 0, value |-> 0, off |-> 0, size |-> 0, k |-> 1]

-----------------------------------------------------------------------------
(* The writes, and how a call goes on or ends.                             *)

SetNextCluster(c, n) == fat' = [fat EXCEPT ![c] = n] /\ UNCHANGED data
WriteCluster(c, cells) == data' = [data EXCEPT ![c] = cells] /\ UNCHANGED fat
NoWrite == UNCHANGED <<fat, data>>

At(p, at) == call[p] # Idle /\ call[p].at = at
Go(p, c) == call' = [call EXCEPT ![p] = c] /\ UNCHANGED <<tree, torn, crashes>>
Succeeds(p) == Go(p, [call[p] EXCEPT !.at = "done"])
Fails(p) == Go(p, [call[p] EXCEPT !.at = "failed"])

\* flushEntry: the slot is written from the DirectoryEntry of the call.
FlushEntry(p, c, at) ==
    LET e == c.ent
        chain == Chain(e.dir)
        i == e.off \div CellsPerCluster + 1
    IN  IF i > Len(chain) THEN Fails(p) /\ NoWrite
        ELSE /\ WriteCluster(chain[i],
                   [data[chain[i]] EXCEPT ![(e.off % CellsPerCluster) + 1] =
                       Slot(e.kind, e.name, e.first, e.size)])
             /\ Go(p, [c EXCEPT !.at = at])

\* allocateCluster: the first free cluster is found, then marked.
Free_EndToo == {c \in Clusters : fat[c] \in {0, Eoc}}
Free == {c \in Clusters : fat[c] = 0}
Allocate(c, next) == [c EXCEPT !.at = "find", !.next = next]
FindCluster(p) ==
    /\ At(p, "find")
    /\ IF Free = {} THEN Fails(p)
       ELSE Go(p, [call[p] EXCEPT !.new = Least(Free), !.at = "mark"])
    /\ NoWrite
MarkCluster(p) ==
    /\ At(p, "mark")
    /\ SetNextCluster(call[p].new, Eoc)
    /\ Go(p, [call[p] EXCEPT !.at = call[p].next])

\* freeClusterChain: from call.last on.
FreeCluster(p) ==
    LET c == call[p]  n == fat[c.last] IN
    /\ At(p, "free")
    /\ SetNextCluster(c.last, 0)
    /\ Go(p, IF n \in {0, Eoc} THEN [c EXCEPT !.at = c.next] ELSE [c EXCEPT !.last = n])

\* Cluster 2 is never freed.
Freeing_OffByOne(c, first, next) ==
    IF first > 3 THEN [c EXCEPT !.at = "free", !.last = first, !.next = next]
    ELSE [c EXCEPT !.at = next]
Freeing(c, first, next) ==
    IF first > 2 THEN [c EXCEPT !.at = "free", !.last = first, !.next = next]
    ELSE [c EXCEPT !.at = next]

-----------------------------------------------------------------------------
(* createFile and createDirectory.                                         *)

\* The first place with room for n slots; behind the end there is room.
Room(cells, i, n) ==
    \A j \in i + 1 .. i + n : j \in DOMAIN cells => cells[j] \in {Zero, Deleted}
Place(cells, n) == Least({i \in 0 .. Len(cells) : Room(cells, i, n)})

\* The slots of the name are put there, and the slot after them becomes the
\* end of the directory if it was free.
Inserted(cells, i, slots) ==
    LET end == i + Len(slots)
        kept(j) == IF j > Len(cells) \/ (j = end + 1 /\ cells[j] = Deleted) THEN Zero ELSE cells[j]
    IN  [j \in 1 .. (IF end > Len(cells) THEN end ELSE Len(cells)) |->
            IF j \in i + 1 .. end THEN slots[j - i] ELSE kept(j)]

NewSlots(name, kind) ==
    [j \in 1 .. Slots[name] - 1 |-> Lfn(name, Slots[name] - j)] \o <<Slot(kind, name, 0, 0)>>

CreateFile(p, op, kind, home, name) ==
    LET cells == Cells(Chain(home.first))
        at == Place(cells, Slots[name])
        c == Asks(p, op, "extend", home, name)
        s == Slot(kind, name, 0, 0)
    IN  /\ call[p] = Idle
        /\ Named(home.first, name) = {}
        /\ Go(p, [c EXCEPT !.ent = Entry(home.first, at + Slots[name] - 1, s),
                           !.chain = Chain(home.first),
                           !.image = Inserted(cells, at, NewSlots(name, kind))])
        /\ NoWrite

Create(p, home, name) == CreateFile(p, "create", "file", home, name)
MakeDirectory(p, name) ==
    /\ name \in Directories
    /\ CreateFile(p, "mkdir", "dir", [path |-> <<>>, first |-> Root], name)

\* The directory's chain grows until it holds the image ...
ExtendDirectory(p) ==
    LET c == call[p] IN
    /\ At(p, "extend")
    /\ IF Len(c.chain) < ClustersFor(Len(c.image))
       THEN Go(p, Allocate(c, "linkdir")) /\ NoWrite
       ELSE /\ SetNextCluster(c.chain[Len(c.chain)], Eoc)
            /\ Go(p, [c EXCEPT !.at = "store"])
LinkDirectory(p) ==
    LET c == call[p] IN
    /\ At(p, "linkdir")
    /\ SetNextCluster(c.chain[Len(c.chain)], c.new)
    /\ Go(p, [c EXCEPT !.chain = Append(@, c.new), !.at = "extend"])

\* ... and is written to it, padded with zeros.
Padded(cells) == cells \o Zeros(ClustersFor(Len(cells)) * CellsPerCluster - Len(cells))
StoreDirectory(p) ==
    LET c == call[p] IN
    /\ At(p, "store")
    /\ WriteCluster(c.chain[c.k], Part(Padded(c.image), c.k))
    /\ IF c.k < Less(Len(c.chain), ClustersFor(Len(c.image)))
       THEN Go(p, [c EXCEPT !.k = @ + 1])
       ELSE IF c.op = "mkdir" THEN Go(p, Allocate(c, "dots"))
       ELSE Succeeds(p)

\* createDirectory gives the new entry a cluster of its own.
WriteDots(p) ==
    LET c == call[p] IN
    /\ At(p, "dots")
    /\ WriteCluster(c.new, <<Dot(".", c.new), Dot("..", c.dir)>> \o Zeros(CellsPerCluster - 2))
    /\ Go(p, [c EXCEPT !.at = "eoc"])
EndDots(p) ==
    LET c == call[p] IN
    /\ At(p, "eoc")
    /\ SetNextCluster(c.new, Eoc)
    /\ Go(p, [c EXCEPT !.at = "flushdir", !.ent.first = c.new % FirstLimit])
FlushDirectory(p) == At(p, "flushdir") /\ FlushEntry(p, call[p], "done")

-----------------------------------------------------------------------------
(* writeAtOffset, append and write.                                        *)

Opened(p, op, home, name, e) == [Asks(p, op, "done", home, name) EXCEPT !.ent = e]

WriteAtOffset(p, home, name, off, n, v) ==
    \E e \in Named(home.first, name) :
        LET c == [Opened(p, "write", home, name, e) EXCEPT !.off = off, !.size = n]
        IN  /\ call[p] = Idle
            /\ e.kind = "file"
            /\ Go(p, IF off > e.size
                     THEN [c EXCEPT !.at = "append", !.left = off - e.size, !.value = v]
                     ELSE [c EXCEPT !.at = "grow", !.value = v, !.chain = Chain(e.first)])
            /\ NoWrite

\* write, of no bytes: FAT32Archive::truncate is its only caller.
Truncate(p, home, name) ==
    \E e \in Named(home.first, name) :
        LET c == [Opened(p, "truncate", home, name, e) EXCEPT !.ent.first = 0, !.ent.size = 0]
        IN  /\ call[p] = Idle
            /\ e.kind = "file"
            /\ Go(p, Freeing(c, e.first, "append"))
            /\ NoWrite

\* append, of zeros: first what the last cluster has room for ...
Overlaid_AtStart(cells, from, n, v) ==
    [j \in DOMAIN cells |-> IF j \in 1 .. n THEN Byte(v) ELSE cells[j]]
Overlaid(cells, from, n, v) ==
    [j \in DOMAIN cells |-> IF j \in from + 1 .. from + n THEN Byte(v) ELSE cells[j]]
AppendStart(p) ==
    LET c == call[p]
        chain == Chain(c.ent.first)
        used == c.ent.size % CellsPerCluster
        n == Less(CellsPerCluster - used, c.left)
        started == [c EXCEPT !.at = "more", !.last = IF chain = <<>> THEN 0 ELSE Last(chain)]
    IN  /\ At(p, "append")
        /\ IF c.ent.size > 0 /\ used # 0 /\ chain # <<>>
           THEN /\ WriteCluster(Last(chain), Overlaid(data[Last(chain)], used, n, 0))
                /\ Go(p, [started EXCEPT !.left = @ - n])
           ELSE NoWrite /\ Go(p, started)

\* ... then new clusters, each linked before it is written ...
AppendMore(p) ==
    LET c == call[p] IN
    /\ At(p, "more")
    /\ IF c.left > 0 THEN NoWrite /\ Go(p, Allocate(c, "linkmore"))
       ELSE FlushEntry(p, [c EXCEPT !.ent.size = c.off, !.chain = Chain(c.ent.first)],
                       IF c.op = "write" THEN "grow" ELSE "flush")
LinkMore(p) ==
    LET c == call[p] IN
    /\ At(p, "linkmore")
    /\ IF c.last = 0
       THEN FlushEntry(p, [c EXCEPT !.ent.first = c.new % FirstLimit], "fill")
       ELSE SetNextCluster(c.last, c.new) /\ Go(p, [c EXCEPT !.at = "fill"])
FillMore(p) ==
    LET c == call[p] IN
    /\ At(p, "fill")
    /\ WriteCluster(c.new, Zeros(CellsPerCluster))
    /\ Go(p, [c EXCEPT !.at = "more", !.last = c.new, !.left = @ - Less(CellsPerCluster, @)])

\* ... and write flushes the entry once more.
FlushTruncated(p) == At(p, "flush") /\ FlushEntry(p, call[p], "done")

\* writeAtOffset: clusters up to the last one it needs ...
GrowFile(p) ==
    LET c == call[p] IN
    /\ At(p, "grow")
    /\ Go(p, IF Len(c.chain) < ClustersFor(c.off + c.size) THEN Allocate(c, "link")
             ELSE [c EXCEPT !.at = "put", !.k = c.off \div CellsPerCluster + 1])
    /\ NoWrite
LinkFile(p) ==
    LET c == [call[p] EXCEPT !.chain = Append(@, call[p].new)] IN
    /\ At(p, "link")
    /\ IF call[p].chain = <<>>
       THEN FlushEntry(p, [c EXCEPT !.ent.first = c.new % FirstLimit], "grow")
       ELSE SetNextCluster(Last(call[p].chain), c.new) /\ Go(p, [c EXCEPT !.at = "grow"])

\* ... the bytes, cluster by cluster, and at last the size.
PutCluster(p) ==
    LET c == call[p]
        cluster == c.chain[c.k]
        start == (c.k - 1) * CellsPerCluster
        from == IF c.off > start THEN c.off - start ELSE 0
        n == Less(CellsPerCluster, c.off + c.size - start) - from
    IN  /\ At(p, "put")
        /\ WriteCluster(cluster, Overlaid(data[cluster], from, n, c.value))
        /\ Go(p, IF c.k < ClustersFor(c.off + c.size) THEN [c EXCEPT !.k = @ + 1]
                 ELSE [c EXCEPT !.at = IF c.off + c.size > c.ent.size THEN "size" ELSE "done"])
FlushSize(p) ==
    At(p, "size") /\ FlushEntry(p, [call[p] EXCEPT !.ent.size = call[p].off + call[p].size], "done")

-----------------------------------------------------------------------------
(* deleteFile and deleteDirectory: the chain is freed, then the slots are  *)
(* marked.                                                                 *)

Unlink(p, home, name) ==
    \E e \in Named(home.first, name) :
        /\ call[p] = Idle
        /\ e.kind = "file"
        /\ Go(p, Freeing(Opened(p, "unlink", home, name, e), e.first, "slots"))
        /\ NoWrite

\* Empty: nothing but the two dots, and slots that are free.
IsEmpty(cells) ==
    /\ Len(cells) >= 3
    /\ cells[1].kind = "dot" /\ cells[2].kind = "dot"
    /\ \A i \in 3 .. Len(cells) : cells[i] = Deleted \/ Ended(cells, i)
RemoveDirectory(p, name) ==
    \E e \in Named(Root, name) :
        /\ call[p] = Idle
        /\ Usable(e) /\ IsEmpty(Cells(Chain(e.first)))
        /\ Go(p, Freeing(Opened(p, "rmdir", [path |-> <<>>, first |-> Root], name, e),
                         e.first, "slots"))
        /\ NoWrite

\* The slot at offset off, and those of its long name in front of it.
Unnamed(cells, off) ==
    LET own == {j \in 1 .. off : \A k \in j .. off :
                   /\ cells[k].kind = "lfn"
                   /\ k > j => cells[k].order < Slots[cells[k].name] - 1}
    IN  [j \in DOMAIN cells |-> IF j \in own \cup {off + 1} THEN Deleted ELSE cells[j]]
MarkSlots(p) ==
    LET c == call[p]  chain == Chain(c.dir) IN
    /\ At(p, "slots")
    /\ Go(p, [c EXCEPT !.image = Unnamed(Cells(chain), c.ent.off),
                       !.chain = chain, !.at = "store"])
    /\ NoWrite

Damaged(p) == IF call[p].op \in {"write", "truncate"} THEN {call[p].path} ELSE {}
Return(p) ==
    LET damaged == CASE At(p, "failed") -> torn \cup Damaged(p)
                     [] At(p, "done") /\ call[p].op \in {"truncate", "unlink"} -> torn \ {call[p].path}
                     [] OTHER -> torn
    IN  /\ At(p, "done") \/ At(p, "failed")
        /\ call' = [call EXCEPT ![p] = Idle]
        /\ torn' = damaged /\ tree' = Tree(damaged)
        /\ NoWrite /\ UNCHANGED crashes

\* The machine stops and starts again: the disk is as it was.
HalfStored(c) == \/ c.at \in {"extend", "store"} /\ c.new # 0
                 \/ c.at = "store" /\ c.k > 1
Crash ==
    /\ crashes < MaxCrashes
    /\ \E p \in Callers : call[p] # Idle
    /\ \A p \in Callers :
          call[p] # Idle => call[p].op \in CrashOps /\ (HalfStored(call[p]) => TornDirectories)
    /\ crashes' = crashes + 1
    /\ call' = [p \in Callers |-> Idle]
    /\ LET damaged == torn \cup UNION {Damaged(p) : p \in {q \in Callers : call[q] # Idle}}
       IN  torn' = damaged /\ tree' = Tree(damaged)
    /\ NoWrite

-----------------------------------------------------------------------------

Init ==
    /\ fat = [c \in Clusters |-> IF c = Root THEN Eoc ELSE 0]
    /\ data = [c \in Clusters |-> Zeros(CellsPerCluster)]
    /\ call = [p \in Callers |-> Idle]
    /\ tree = <<>> /\ torn = {} /\ crashes = 0

Begins(p) ==
    \/ \E name \in Directories : MakeDirectory(p, name) \/ RemoveDirectory(p, name)
    \/ \E home \in Homes : \E name \in (IF home.path = <<>> THEN RootNames \ Directories ELSE InnerNames) :
          \/ Create(p, home, name)
          \/ \E off \in Offsets, n \in Sizes, v \in Values : WriteAtOffset(p, home, name, off, n, v)
          \/ Truncate(p, home, name)
          \/ Unlink(p, home, name)

Continues(p) ==
    \/ FindCluster(p) \/ MarkCluster(p) \/ FreeCluster(p)
    \/ ExtendDirectory(p) \/ LinkDirectory(p) \/ StoreDirectory(p)
    \/ WriteDots(p) \/ EndDots(p) \/ FlushDirectory(p)
    \/ AppendStart(p) \/ AppendMore(p) \/ LinkMore(p) \/ FillMore(p) \/ FlushTruncated(p)
    \/ GrowFile(p) \/ LinkFile(p) \/ PutCluster(p) \/ FlushSize(p)
    \/ MarkSlots(p) \/ Return(p)

Next == Crash \/ \E p \in Callers : Begins(p) \/ Continues(p)

Spec == Init /\ [][Next]_vars

-----------------------------------------------------------------------------
(* Properties.                                                             *)

Tops == Entries(Root)
AllEntries == Tops \cup UNION {Entries(d.first) : d \in {e \in Tops : Usable(e)}}
\* Between two calls, and after a crash in one that only adds to the disk,
\* no cluster belongs to two files, no chain runs into a free cluster or a
\* loop, and no file is longer than its chain.
ChainsSound ==
    Quiet =>
        LET kept == {e \in AllEntries : e.first # 0}
            own(e) == ToSet(Chain(e.first))
        IN  /\ \A e \in kept :
                  /\ fat[Last(Chain(e.first))] = Eoc
                  /\ e.size <= Len(Chain(e.first)) * CellsPerCluster
                  /\ own(e) \cap ToSet(Chain(Root)) = {}
                  /\ \A f \in kept \ {e} : own(e) \cap own(f) = {}
            /\ \A e \in AllEntries \ kept : e.size = 0

\* Every cluster comes back: without a crash, what is allocated between two
\* calls belongs to the root or to an entry, also after a call that failed
\* because the disk was full.
NoLeak ==
    Quiet /\ crashes = 0 =>
        {c \in Clusters : fat[c] # 0} = ToSet(Chain(Root)) \cup UNION {ToSet(Chain(e.first)) : e \in AllEntries}

\* A file read in parts is the file read at once: inside it a part is never
\* empty, and holds the bytes from its offset on.
ReadsAgree ==
    Quiet =>
        \A e \in {x \in AllEntries : x.kind = "file"} :
            \A off \in 0 .. e.size - 1, n \in 1 .. CellsPerCluster + 1 :
                LET part == ReadPart(e.first, off, n)
                IN  /\ part # <<>>
                    /\ IsPrefix(SubSeq(part, 1, Less(Len(part), e.size - off)),
                                SubSeq(Cells(Chain(e.first)), off + 1, e.size))

\* The calls, one at a time, implement the abstract store: each changes its
\* own file when it returns, whole, and nothing else.
Store == INSTANCE FileStore WITH files <- tree
IsStore == Store!Spec

\* Fat32.cpp:1671 on the slot after a new entry: "Only mark as end if it was
\* previously free (0x00 or 0xE5) and we're replacing it; if it's a valid
\* entry, leave it alone": no entry is lost behind an early end.
NothingHidden ==
    Quiet =>
        LET cells == Cells(Chain(Root))
        IN  \A i \in DOMAIN cells : cells[i].kind \in {"file", "dir"} => ~Ended(cells, i)
=============================================================================
