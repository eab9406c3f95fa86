------------------------------ MODULE Files_proofs ------------------------------
(***************************************************************************)
(* The inodes of FAT32Directory and FAT32Archive against the disk, for     *)
(* every number of processes, names, slots, descriptors and blocks.        *)
(*                                                                         *)
(* The invariant: the disk has no name twice; the inodes are a tree, the   *)
(* root, its children and those of Sub; and a directory's dentries are the *)
(* entries on the disk, but for the names that some call has changed there *)
(* and not yet in the map (Pending), and for the entries that are missing  *)
(* while getdents reads the directory again (Listed).  mkdir looks for its *)
(* parent and relies on what it found there (Making): the dentries are not *)
(* read again before it adds one of its own.  CallOk is what each call     *)
(* still has to know: that a name it took off the disk is not used again,  *)
(* that the entry it made is still there, that what it read is still so.   *)
(*                                                                         *)
(* None of this holds once an inode was freed that is still pointed to     *)
(* (Dangling), or left out of the tree while it is in use (orphaned), or   *)
(* once two calls were half way in one directory (crossed).                *)
(***************************************************************************)
EXTENDS Files, TLAPS, FiniteSetTheorems, WellFoundedInduction

-----------------------------------------------------------------------------
(* The invariant.                                                          *)

Dirs == {Top, Sub}
SlotSet == 1 .. SlotsPer
Mutators == {"mkdir", "unlink", "rmdir"}

\* An inode, the entry it has copied, and a map of dentries.
IsInode(n) ==
    n = [kind |-> n.kind, dir |-> n.dir, slot |-> n.slot, name |-> n.name, first |-> n.first,
         size |-> n.size, kids |-> n.kids]
EntryOf(n) == [kind |-> n.kind, name |-> n.name, first |-> n.first, size |-> n.size]
IsMap(k) == k = [x \in DOMAIN k |-> k[x]]

\* A disk: the directory Sub in Top, files elsewhere, and no name twice.
Fits(d, e) == e.kind = IF d = Top /\ e.name = Sub THEN "dir" ELSE "file"
IsEntry(e) == e = [kind |-> e.kind, name |-> e.name, first |-> e.first, size |-> e.size]
IsUsed(e) == e.kind # "free"
DiskOk(dk) ==
    /\ dk = [d \in Dirs |-> [s \in SlotSet |-> dk[d][s]]]
    /\ \A d \in Dirs : \A s \in SlotSet : IsUsed(dk[d][s]) =>
          /\ IsEntry(dk[d][s]) /\ Fits(d, dk[d][s])
          /\ \A t \in SlotSet : IsUsed(dk[d][t]) /\ dk[d][t].name = dk[d][s].name => t = s

\* A tree of inodes: the root, what it lists, and what Sub lists.
IsDir(mem, a) == a = RootInode \/ (Sub \in DOMAIN mem[RootInode].kids /\ a = mem[RootInode].kids[Sub])
IsChild(mem, a, name) ==
    LET b == mem[a].kids[name] IN
    /\ b \in DOMAIN mem /\ b # RootInode /\ IsInode(mem[b])
    /\ mem[b].name = name /\ mem[b].dir = Listing(a) /\ mem[b].slot \in SlotSet
    /\ Fits(Listing(a), mem[b]) /\ IsMap(mem[b].kids)
    /\ mem[b].kind = "file" => mem[b].kids = NoKids
Family(mem, a) == \A name \in DOMAIN mem[a].kids : IsChild(mem, a, name)
Tree(mem) ==
    /\ mem = [b \in DOMAIN mem |-> mem[b]] /\ DOMAIN mem \subseteq Blocks
    /\ RootInode \in DOMAIN mem /\ IsInode(mem[RootInode]) /\ mem[RootInode].kind = "dir"
    /\ IsMap(mem[RootInode].kids)
    /\ \A a \in DOMAIN mem : IsDir(mem, a) => Family(mem, a)

\* What calls are doing to a directory: its entries they have changed on the
\* disk only, and whether its dentries are being read again.
Pending(calls, d) ==
    {calls[p].name : p \in {q \in Processes :
        calls[q].op \in Mutators /\ calls[q].step = 1 /\ Listing(calls[q].dir) = d}}
Listed(calls, d) == \E p \in Processes : calls[p].op = "list" /\ Listing(calls[p].dir) = d
Making(calls, d) == \E p \in Processes : calls[p].op = "mkdir" /\ Listing(calls[p].dir) = d

\* The dentries of a directory are on the disk as they say, and none is
\* missing if it was listed.
Known(mem, dk, a, pending) ==
    \A name \in DOMAIN mem[a].kids \ pending :
        dk[Listing(a)][mem[mem[a].kids[name]].slot] = EntryOf(mem[mem[a].kids[name]])
Covers(mem, dk, a, pending) ==
    \A s \in SlotSet : IsUsed(dk[Listing(a)][s]) =>
        dk[Listing(a)][s].name \in DOMAIN mem[a].kids \cup pending
Sees(mem, dk, calls, a) ==
    /\ Known(mem, dk, a, Pending(calls, Listing(a)))
    /\ ~Listed(calls, Listing(a)) /\ (mem[a].kids # NoKids \/ Making(calls, Listing(a))) =>
          Covers(mem, dk, a, Pending(calls, Listing(a)))
Good(mem, dk, calls) == Tree(mem) /\ \A a \in DOMAIN mem : IsDir(mem, a) => Sees(mem, dk, calls, a)

InTree(mem, b) ==
    b = RootInode \/ \E a \in DOMAIN mem : IsDir(mem, a) /\ \E name \in DOMAIN mem[a].kids : b = mem[a].kids[name]

\* What a call has read, and what it has changed.
FoundIn(dk, d) == {[slot |-> s, entry |-> dk[d][s]] : s \in {t \in SlotSet : IsUsed(dk[d][t])}}
CallOk(mem, dk, c) ==
    /\ c = [op |-> c.op, dir |-> c.dir, name |-> c.name, fd |-> c.fd, found |-> c.found, step |-> c.step]
    /\ c = Idle \/ c.op \in Mutators \cup {"list", "read"}
    /\ c.step \in {0, 1}
    /\ c.op \in Mutators \cup {"list"} => IsDir(mem, c.dir)
    /\ c.op \in {"mkdir", "rmdir"} => c.dir = RootInode /\ c.name = Sub
    /\ c.op = "unlink" => ~(c.dir = RootInode /\ c.name = Sub)
    /\ c.op = "read" => c.step = 0
    /\ c.op = "mkdir" /\ c.step = 1 => c.fd \in SlotSet /\ dk[Top][c.fd] = NewEntry(Sub, "dir")
    /\ c.op \in {"unlink", "rmdir"} /\ c.step = 1 =>
          \A s \in SlotSet : IsUsed(dk[Listing(c.dir)][s]) => dk[Listing(c.dir)][s].name # c.name
    /\ c.op = "list" /\ c.step = 1 => c.found = FoundIn(dk, Listing(c.dir))

FilesBody ==
    /\ DiskOk(disk)
    /\ Good(inode, disk, call)
    /\ \A b \in DOMAIN inode : InTree(inode, b)
    /\ call = [p \in Processes |-> call[p]]
    /\ \A p \in Processes : CallOk(inode, disk, call[p])

FilesInv == ~Dangling /\ ~orphaned /\ ~crossed => FilesBody

-----------------------------------------------------------------------------
(* The numbers of the model, and its sets.                                 *)

\* The least number of a set, which Min chooses.
LEMMA LeastNumber ==
    ASSUME NEW T, T \subseteq Nat, T # {}
    PROVE  \E x \in T : \A y \in T : x <= y
<1> DEFINE R == StrictSubsetOrdering(Nat)
           I == {1 .. n : n \in T}
<1>1. IsWellFoundedOn(R, FiniteSubsetsOf(Nat))
    BY FS_StrictSubsetOrderingWellFounded
<1>2. I \subseteq FiniteSubsetsOf(Nat) /\ I # {}
    <2>1. \A n \in T : IsFiniteSet(1 .. n) /\ 1 .. n \subseteq Nat
        BY FS_Interval
    <2> QED BY <2>1 DEF FiniteSubsetsOf
<1>3. PICK X \in I : \A Y \in I : ~(<<Y, X>> \in R)
    <2> HIDE DEF I, R
    <2> QED BY <1>1, <1>2, WFMin
<1>4. PICK x \in T : X = 1 .. x
    OBVIOUS
<1>5. ASSUME NEW y \in T, y < x PROVE FALSE
    <2>1. 1 .. y \subseteq 1 .. x /\ x \in 1 .. x /\ x \notin 1 .. y
        BY <1>5
    <2>2. <<1 .. y, X>> \in R
        BY <2>1, <1>4 DEF StrictSubsetOrdering
    <2> QED BY <1>3, <2>2
<1> QED BY <1>5

\* So Min gives a member.
LEMMA MinIsIn ==
    ASSUME NEW T, T \subseteq Nat, T # {}
    PROVE  Min(T) \in T
BY LeastNumber DEF Min

\* The constants, and the directory of the disk that an inode lists.
LEMMA Constants ==
    /\ Sub # Top /\ Sub \notin TopNames /\ SlotsPer \in Nat /\ RootInode \in Blocks /\ Blocks \subseteq Nat
    /\ IsFiniteSet(Blocks) /\ RootInode = 0 /\ SlotSet \subseteq Nat
    /\ Listing(RootInode) = Top /\ \A a : Listing(a) \in Dirs /\ (a # RootInode => Listing(a) = Sub)
BY FilesAssumption DEF RootInode, SlotSet, Listing, Dirs

\* Blocks without an inode that nobody points to.
LEMMA SpareIs ==
    ASSUME NEW mem
    PROVE  /\ IsFiniteSet(Spare(mem)) /\ Cardinality(Spare(mem)) \in Nat
           /\ Spare(mem) \subseteq Blocks
           /\ \A b \in Spare(mem) : b \notin DOMAIN mem /\ b \notin Held
<1>1. Spare(mem) \subseteq Blocks /\ \A b \in Spare(mem) : b \notin DOMAIN mem /\ b \notin Held
    BY Zenon DEF Spare
<1>2. IsFiniteSet(Spare(mem))
    BY <1>1, Constants, FS_Subset
<1> QED BY <1>1, <1>2, FS_CardinalityType

\* A set that has no more members than slots.
Fewer(found, n) == \E i \in [found -> 1 .. n] : IsInjective(i)

\* Then each can have a block of its own.
LEMMA OwnBlocks ==
    ASSUME NEW found, NEW n \in Nat, Fewer(found, n), NEW S, IsFiniteSet(S), Cardinality(S) >= n
    PROVE  \E own \in [found -> S] : IsInjective(own)
<1>1. PICK i \in [found -> 1 .. n] : IsInjective(i)
    BY DEF Fewer
<1>2. Cardinality(S) \in Nat /\ ExistsBijection(1 .. Cardinality(S), S)
    BY FS_CardinalityType
<1>3. PICK g \in [1 .. Cardinality(S) -> S] : IsInjective(g)
    BY <1>2 DEF ExistsBijection, Bijection, Injection
<1>4. \A e \in found : i[e] \in 1 .. n /\ i[e] \in 1 .. Cardinality(S)
    BY <1>1, <1>2
<1> DEFINE own == [e \in found |-> g[i[e]]]
<1>5. own \in [found -> S]
    BY <1>3, <1>4
<1>6. IsInjective(own)
    <2> SUFFICES ASSUME NEW e \in found, NEW f \in found, own[e] = own[f]
                 PROVE  e = f
        BY DEF IsInjective
    <2>1. i[e] = i[f]
        BY <1>3, <1>4 DEF IsInjective
    <2> QED BY <2>1, <1>1 DEF IsInjective
<1> HIDE DEF own
<1> QED BY <1>5, <1>6

\* And they are no more than that.
LEMMA FewBlocks ==
    ASSUME NEW found, NEW n \in Nat, Fewer(found, n), NEW S, NEW own \in [found -> S], IsInjective(own)
    PROVE  IsFiniteSet(Range(own)) /\ Cardinality(Range(own)) <= n /\ Cardinality(Range(own)) \in Nat
<1>1. PICK i \in [found -> 1 .. n] : IsInjective(i)
    BY DEF Fewer
<1>2. IsFiniteSet(1 .. n) /\ Cardinality(1 .. n) = n
    BY FS_Interval
<1>3. i \in Injection(found, 1 .. n)
    BY <1>1 DEF Injection
<1>4. IsFiniteSet(found) /\ Cardinality(found) <= n
    BY <1>2, <1>3, FS_Injection
<1>5. own \in Surjection(found, Range(own))
    BY DEF Surjection, Range
<1>6. IsFiniteSet(Range(own)) /\ Cardinality(Range(own)) <= Cardinality(found)
    BY <1>4, <1>5, FS_Surjection
<1>7. Cardinality(Range(own)) \in Nat /\ Cardinality(found) \in Nat
    BY <1>4, <1>6, FS_CardinalityType
<1> QED BY <1>4, <1>6, <1>7

-----------------------------------------------------------------------------
(* Added: the inodes of entries that were read or made.                    *)

\* Entries of a directory, no slot and no name twice.
Entries(found, d) ==
    \A e \in found :
        /\ e.slot \in SlotSet /\ IsEntry(e.entry) /\ Fits(d, e.entry)
        /\ \A f \in found : e.slot = f.slot \/ e.entry.name = f.entry.name => e = f
NamesOf(found) == {e.entry.name : e \in found}

\* What Added returns, if it gives the entries the blocks own.
Adds(mem, new, a, d, found, own) ==
    /\ own \in [found -> Spare(mem)] /\ IsInjective(own)
    /\ new = [b \in DOMAIN mem \cup Range(own) |-> new[b]]
    /\ \A e \in found : new[own[e]] = Inode(d, e.slot, e.entry)
    /\ \A b \in DOMAIN mem \ {a} : new[b] = mem[b]
    /\ new[a] = [mem[a] EXCEPT !.kids = new[a].kids]
    /\ new[a].kids = [x \in DOMAIN mem[a].kids \cup NamesOf(found) |-> new[a].kids[x]]
    /\ \A e \in found : new[a].kids[e.entry.name] = own[e]
    /\ \A x \in DOMAIN mem[a].kids \ NamesOf(found) : new[a].kids[x] = mem[a].kids[x]

\* With a block for each entry, Added gives a tree of that shape.
LEMMA AddedIs ==
    ASSUME NEW mem, NEW a \in DOMAIN mem, IsInode(mem[a]), NEW d, NEW found, Entries(found, d),
           NEW n \in Nat, Fewer(found, n), Cardinality(Spare(mem)) >= n
    PROVE  \E own : /\ Adds(mem, Added(mem, a, d, found), a, d, found, own)
                    /\ Cardinality(Spare(Added(mem, a, d, found))) >= Cardinality(Spare(mem)) - n
<1> DEFINE own == CHOOSE f \in [found -> Spare(mem)] : IsInjective(f)
           of(name) == own[CHOOSE e \in found : e.entry.name = name]
           K == [x \in DOMAIN mem[a].kids \cup NamesOf(found) |->
                    IF x \in NamesOf(found) THEN of(x) ELSE mem[a].kids[x]]
           new == [b \in DOMAIN mem \cup Range(own) |->
                    IF b \notin DOMAIN mem
                    THEN Inode(d, (CHOOSE x \in found : own[x] = b).slot, (CHOOSE x \in found : own[x] = b).entry)
                    ELSE IF b = a THEN [mem[a] EXCEPT !.kids = K] ELSE mem[b]]
<1>1. own \in [found -> Spare(mem)] /\ IsInjective(own)
    BY OwnBlocks, SpareIs
<1>2. Added(mem, a, d, found) = new
    BY DEF Added, NamesOf
<1>3. \A e \in found : own[e] \in Spare(mem) /\ own[e] \notin DOMAIN mem /\ own[e] \in Range(own)
    BY <1>1, SpareIs DEF Range
<1>4. \A e \in found : (CHOOSE x \in found : own[x] = own[e]) = e
    BY <1>1 DEF IsInjective
<1>5. \A e \in found : of(e.entry.name) = own[e]
    BY DEF Entries
<1> HIDE DEF own, of
<1>6. K = [x \in DOMAIN mem[a].kids \cup NamesOf(found) |-> K[x]]
    OBVIOUS
<1>7. \A e \in found : K[e.entry.name] = own[e]
    BY <1>5 DEF NamesOf
<1>8. \A x \in DOMAIN mem[a].kids \ NamesOf(found) : K[x] = mem[a].kids[x]
    OBVIOUS
<1> HIDE DEF K
<1>9. \A e \in found : new[own[e]] = Inode(d, e.slot, e.entry)
    BY <1>3, <1>4
<1>10. \A b \in DOMAIN mem \ {a} : new[b] = mem[b]
    OBVIOUS
<1>11. new[a] = [mem[a] EXCEPT !.kids = K]
    OBVIOUS
<1>12. new[a].kids = K
    BY <1>11 DEF IsInode
<1>13. new = [b \in DOMAIN mem \cup Range(own) |-> new[b]] /\ DOMAIN new = DOMAIN mem \cup Range(own)
    OBVIOUS
<1> HIDE DEF new
<1>14. Adds(mem, new, a, d, found, own)
    BY <1>1, <1>6, <1>7, <1>8, <1>9, <1>10, <1>11, <1>12, <1>13 DEF Adds
<1>15. Cardinality(Spare(new)) >= Cardinality(Spare(mem)) - n
    <2>1. Spare(new) = Spare(mem) \ Range(own)
        BY <1>13 DEF Spare
    <2>2. /\ IsFiniteSet(Range(own)) /\ Cardinality(Range(own)) <= n /\ Cardinality(Range(own)) \in Nat
        BY <1>1, FewBlocks
    <2>3. Range(own) \subseteq Spare(mem)
        BY <1>1 DEF Range
    <2>4. Spare(mem) \cap Range(own) = Range(own)
        BY <2>3
    <2>5. Cardinality(Spare(new)) = Cardinality(Spare(mem)) - Cardinality(Range(own))
        BY <2>1, <2>4, SpareIs, FS_Difference
    <2> QED BY <2>2, <2>5, SpareIs
<1> QED BY <1>2, <1>14, <1>15

\* Inodes that stay are of the kind they were.
Kept(mem, new) == \A b \in DOMAIN mem \cap DOMAIN new : new[b].kind = mem[b].kind

\* An inode that nothing was added to is the child it was.
LEMMA ChildStays ==
    ASSUME NEW mem, NEW new, NEW c, NEW name, IsChild(mem, c, name), NEW b, b = mem[c].kids[name],
           b \in DOMAIN new, new[c].kids[name] = b, new[b] = [mem[b] EXCEPT !.kids = new[b].kids],
           IsMap(new[b].kids), mem[b].kind = "file" => new[b].kids = NoKids
    PROVE  IsChild(new, c, name) /\ EntryOf(new[b]) = EntryOf(mem[b])
<1>1. /\ b \in DOMAIN mem /\ b # RootInode /\ IsInode(mem[b])
      /\ mem[b].name = name /\ mem[b].dir = Listing(c) /\ mem[b].slot \in SlotSet
      /\ Fits(Listing(c), mem[b])
    BY DEF IsChild
<1>2. b \in DOMAIN new /\ new[c].kids[name] = b /\ new[b] = [mem[b] EXCEPT !.kids = new[b].kids]
    OBVIOUS
<1>3. IsMap(new[b].kids) /\ (mem[b].kind = "file" => new[b].kids = NoKids)
    OBVIOUS
<1>4. /\ IsInode(new[b]) /\ new[b].name = mem[b].name /\ new[b].dir = mem[b].dir /\ new[b].slot = mem[b].slot
      /\ new[b].kind = mem[b].kind /\ new[b].first = mem[b].first /\ new[b].size = mem[b].size
    BY <1>1, <1>2 DEF IsInode
<1>5. Fits(Listing(c), new[b])
    BY <1>1, <1>4 DEF Fits
<1>6. EntryOf(new[b]) = EntryOf(mem[b])
    BY <1>4 DEF EntryOf
<1>7. IsChild(new, c, name)
    BY <1>1, <1>2, <1>3, <1>4, <1>5 DEF IsChild
<1> QED BY <1>6, <1>7

\* The directories of a tree.
LEMMA DirIs ==
    ASSUME NEW mem, Tree(mem)
    PROVE  /\ RootInode \in DOMAIN mem /\ IsDir(mem, RootInode)
           /\ \A a : IsDir(mem, a) =>
                 /\ a \in DOMAIN mem /\ IsInode(mem[a]) /\ mem[a].kind = "dir" /\ IsMap(mem[a].kids) /\ Family(mem, a)
                 /\ a # RootInode => mem[a].dir = Top /\ mem[a].name = Sub
<1>1. RootInode \in DOMAIN mem /\ IsDir(mem, RootInode) /\ Family(mem, RootInode)
    BY DEF Tree, IsDir
<1>2. ASSUME NEW a, IsDir(mem, a), a # RootInode
      PROVE  /\ a \in DOMAIN mem /\ IsInode(mem[a]) /\ mem[a].kind = "dir" /\ IsMap(mem[a].kids) /\ Family(mem, a)
             /\ mem[a].dir = Top /\ mem[a].name = Sub
    <2>1. Sub \in DOMAIN mem[RootInode].kids /\ a = mem[RootInode].kids[Sub]
        BY <1>2 DEF IsDir
    <2>2. IsChild(mem, RootInode, Sub)
        BY <1>1, <2>1 DEF Family
    <2>3. /\ a \in DOMAIN mem /\ IsInode(mem[a]) /\ mem[a].name = Sub /\ mem[a].dir = Top /\ Fits(Top, mem[a])
          /\ IsMap(mem[a].kids)
        BY <2>1, <2>2, Constants DEF IsChild
    <2>4. mem[a].kind = "dir"
        BY <2>3 DEF Fits
    <2>5. Family(mem, a)
        BY <1>2, <2>3 DEF Tree
    <2> QED BY <2>3, <2>4, <2>5
<1>3. /\ IsInode(mem[RootInode]) /\ mem[RootInode].kind = "dir" /\ IsMap(mem[RootInode].kids)
    BY DEF Tree
<1> QED BY <1>1, <1>2, <1>3

\* A directory that nothing was added to, or to which something was.
LEMMA AddedTree ==
    ASSUME NEW mem, Tree(mem), NEW a, IsDir(mem, a), NEW found, Entries(found, Listing(a)),
           NEW new, NEW own, Adds(mem, new, a, Listing(a), found, own)
    PROVE  /\ Tree(new) /\ DOMAIN mem \subseteq DOMAIN new /\ Kept(mem, new)
           /\ \A c : IsDir(new, c) => IsDir(mem, c) \/ (c # RootInode /\ new[c].kids = NoKids)
           /\ \A c : IsDir(new, c) /\ IsDir(mem, c) /\ c # a => new[c].kids = mem[c].kids
           /\ \A c : IsDir(new, c) /\ IsDir(mem, c) =>
                 \A x \in DOMAIN mem[c].kids : c # a \/ x \notin NamesOf(found) =>
                    EntryOf(new[new[c].kids[x]]) = EntryOf(mem[mem[c].kids[x]])
                    /\ new[new[c].kids[x]].slot = mem[mem[c].kids[x]].slot
           /\ DOMAIN new[a].kids = DOMAIN mem[a].kids \cup NamesOf(found)
           /\ \A e \in found :
                 EntryOf(new[new[a].kids[e.entry.name]]) = e.entry /\ new[new[a].kids[e.entry.name]].slot = e.slot
           /\ IsDir(new, a)
<1>1. /\ a \in DOMAIN mem /\ IsInode(mem[a]) /\ mem[a].kind = "dir" /\ IsMap(mem[a].kids) /\ RootInode \in DOMAIN mem
      /\ a # RootInode => mem[a].dir = Top /\ mem[a].name = Sub
    BY DirIs
<1>2. /\ own \in [found -> Spare(mem)] /\ IsInjective(own)
      /\ new = [b \in DOMAIN mem \cup Range(own) |-> new[b]]
      /\ \A e \in found : new[own[e]] = Inode(Listing(a), e.slot, e.entry)
      /\ \A b \in DOMAIN mem \ {a} : new[b] = mem[b]
      /\ new[a] = [mem[a] EXCEPT !.kids = new[a].kids]
      /\ new[a].kids = [x \in DOMAIN mem[a].kids \cup NamesOf(found) |-> new[a].kids[x]]
      /\ \A e \in found : new[a].kids[e.entry.name] = own[e]
      /\ \A x \in DOMAIN mem[a].kids \ NamesOf(found) : new[a].kids[x] = mem[a].kids[x]
    BY DEF Adds
<1>3. \A e \in found : own[e] \in Blocks /\ own[e] \notin DOMAIN mem /\ own[e] \in Range(own)
    BY <1>2, SpareIs DEF Range
<1>4. DOMAIN new = DOMAIN mem \cup Range(own) /\ DOMAIN new \subseteq Blocks
    <2>1. DOMAIN new = DOMAIN mem \cup Range(own)
        BY <1>2
    <2>2. Range(own) \subseteq Blocks
        BY <1>2, <1>3 DEF Range
    <2> QED BY <2>1, <2>2 DEF Tree
<1>5. /\ IsMap(new[a].kids) /\ DOMAIN new[a].kids = DOMAIN mem[a].kids \cup NamesOf(found)
    BY <1>2 DEF IsMap
<1>6. /\ IsInode(new[a]) /\ new[a].kind = "dir" /\ EntryOf(new[a]) = EntryOf(mem[a])
      /\ new[a].slot = mem[a].slot /\ new[a].dir = mem[a].dir /\ new[a].name = mem[a].name
    BY <1>1, <1>2 DEF IsInode, EntryOf
<1>7. Kept(mem, new)
    BY <1>1, <1>2, <1>6 DEF Kept
<1>8. new[RootInode].kids = mem[RootInode].kids \/ a = RootInode
    BY <1>1, <1>2
<1>9. ASSUME NEW c, IsDir(new, c)
      PROVE  IsDir(mem, c) \/ (c # RootInode /\ \E e \in found : c = own[e])
    <2>1. CASE c = RootInode
        BY <2>1 DEF IsDir
    <2>2. CASE c # RootInode
        <3>1. Sub \in DOMAIN new[RootInode].kids /\ c = new[RootInode].kids[Sub]
            BY <1>9, <2>2 DEF IsDir
        <3>2. CASE new[RootInode].kids = mem[RootInode].kids
            BY <3>1, <3>2 DEF IsDir
        <3>3. CASE a = RootInode /\ Sub \in NamesOf(found)
            <4>1. PICK e \in found : e.entry.name = Sub
                BY <3>3 DEF NamesOf
            <4> QED BY <1>2, <2>2, <3>1, <3>3, <4>1
        <3>4. CASE a = RootInode /\ Sub \notin NamesOf(found)
            <4>1. Sub \in DOMAIN mem[RootInode].kids /\ c = mem[RootInode].kids[Sub]
                BY <1>2, <1>5, <3>1, <3>4
            <4> QED BY <4>1 DEF IsDir
        <3> QED BY <1>8, <3>2, <3>3, <3>4
    <2> QED BY <2>1, <2>2
<1>10. \A e \in found : new[own[e]].kids = NoKids
    <2> SUFFICES ASSUME NEW e \in found PROVE new[own[e]].kids = NoKids
        OBVIOUS
    <2>1. new[own[e]] = Inode(Listing(a), e.slot, e.entry)
        BY <1>2
    <2>2. Inode(Listing(a), e.slot, e.entry).kids = NoKids
        BY DEF Inode
    <2> QED BY <2>1, <2>2
<1>11. IsDir(new, a)
    <2>1. CASE a = RootInode
        BY <2>1 DEF IsDir
    <2>2. CASE a # RootInode
        <3>1. new[RootInode].kids = mem[RootInode].kids
            BY <2>2, <1>8
        <3> QED BY <3>1 DEF IsDir
    <2> QED BY <2>1, <2>2
\* The children that were there.
<1>12. ASSUME NEW c, IsDir(mem, c), IsDir(new, c), NEW x \in DOMAIN mem[c].kids, c # a \/ x \notin NamesOf(found)
       PROVE  /\ IsChild(new, c, x) /\ EntryOf(new[new[c].kids[x]]) = EntryOf(mem[mem[c].kids[x]])
              /\ new[new[c].kids[x]].slot = mem[mem[c].kids[x]].slot
    <2> DEFINE b == mem[c].kids[x]
    <2>1. IsChild(mem, c, x)
        BY <1>12, DirIs DEF Family
    <2>2. new[c].kids[x] = b
        <3>1. CASE c = a
            BY <1>2, <1>12, <3>1
        <3>2. CASE c # a
            BY <1>2, <1>12, <3>2, DirIs
        <3> QED BY <3>1, <3>2
    <2>3. b \in DOMAIN mem /\ b \in DOMAIN new /\ IsInode(mem[b]) /\ IsMap(mem[b].kids)
          /\ (mem[b].kind = "file" => mem[b].kids = NoKids)
        BY <2>1, <1>4 DEF IsChild
    <2> HIDE DEF b
    <2>4. /\ new[b] = [mem[b] EXCEPT !.kids = new[b].kids] /\ IsMap(new[b].kids)
          /\ (mem[b].kind = "file" => new[b].kids = NoKids)
        <3>1. CASE b = a
            BY <1>1, <1>2, <1>5, <3>1
        <3>2. CASE b # a
            <4>1. new[b] = mem[b]
                BY <1>2, <2>3, <3>2
            <4>2. mem[b] = [mem[b] EXCEPT !.kids = mem[b].kids]
                BY <2>3 DEF IsInode
            <4> QED BY <2>3, <4>1, <4>2
        <3> QED BY <3>1, <3>2
    <2>5. new[b].slot = mem[b].slot
        BY <2>3, <2>4 DEF IsInode
    <2>6. b = mem[c].kids[x]
        BY DEF b
    <2>7. IsChild(new, c, x) /\ EntryOf(new[b]) = EntryOf(mem[b])
        BY <2>1, <2>2, <2>3, <2>4, <2>6, ChildStays
    <2> QED BY <2>2, <2>5, <2>6, <2>7
\* The children that were added.
<1>13. ASSUME NEW e \in found
       PROVE  /\ IsChild(new, a, e.entry.name) /\ EntryOf(new[new[a].kids[e.entry.name]]) = e.entry
              /\ new[new[a].kids[e.entry.name]].slot = e.slot
    <2>1. new[a].kids[e.entry.name] = own[e] /\ new[own[e]] = Inode(Listing(a), e.slot, e.entry)
        BY <1>2
    <2>2. e.slot \in SlotSet /\ IsEntry(e.entry) /\ Fits(Listing(a), e.entry)
        BY DEF Entries
    <2>3. own[e] \in DOMAIN new /\ own[e] # RootInode
        BY <1>1, <1>3, <1>4
    <2> DEFINE n == new[own[e]]
    <2>4. /\ n.kind = e.entry.kind /\ n.dir = Listing(a) /\ n.slot = e.slot /\ n.name = e.entry.name
          /\ n.first = e.entry.first /\ n.size = e.entry.size /\ n.kids = NoKids /\ IsInode(n)
        BY <2>1 DEF Inode, IsInode
    <2>5. IsMap(n.kids)
        BY <2>4 DEF NoKids, IsMap
    <2> HIDE DEF n
    <2>6. Fits(Listing(a), n)
        BY <2>2, <2>4 DEF Fits
    <2>7. EntryOf(n) = e.entry
        BY <2>2, <2>4 DEF EntryOf, IsEntry
    <2>8. IsChild(new, a, e.entry.name)
        BY <2>1, <2>2, <2>3, <2>4, <2>5, <2>6 DEF IsChild, n
    <2> QED BY <2>1, <2>4, <2>7, <2>8 DEF n
<1>14. ASSUME NEW c, IsDir(new, c)
       PROVE  Family(new, c)
    <2> SUFFICES ASSUME NEW x \in DOMAIN new[c].kids PROVE IsChild(new, c, x)
        BY DEF Family
    <2>1. CASE \E e \in found : c = own[e]
        <3>1. new[c].kids = NoKids
            BY <1>10, <2>1
        <3> QED BY <3>1 DEF NoKids
    <2>2. CASE IsDir(mem, c) /\ c # a
        <3>1. new[c].kids = mem[c].kids
            BY <1>2, <2>2, DirIs
        <3> QED BY <1>12, <1>14, <2>2, <3>1
    <2>3. CASE c = a /\ x \notin NamesOf(found)
        <3>1. x \in DOMAIN mem[c].kids
            BY <1>5, <2>3
        <3> QED BY <1>12, <1>14, <2>3, <3>1
    <2>4. CASE c = a /\ x \in NamesOf(found)
        <3>1. PICK e \in found : x = e.entry.name
            BY <2>4 DEF NamesOf
        <3> QED BY <1>13, <2>4, <3>1
    <2> QED BY <1>9, <1>14, <2>1, <2>2, <2>3, <2>4
<1>15. Tree(new)
    <2>1. new = [b \in DOMAIN new |-> new[b]] /\ DOMAIN new \subseteq Blocks /\ RootInode \in DOMAIN new
        <3>1. new = [b \in DOMAIN new |-> new[b]]
            BY <1>2
        <3> QED BY <3>1, <1>1, <1>4
    <2>2. IsInode(new[RootInode]) /\ new[RootInode].kind = "dir" /\ IsMap(new[RootInode].kids)
        <3>1. CASE a = RootInode
            BY <1>5, <1>6, <3>1
        <3>2. CASE a # RootInode
            <4>1. new[RootInode] = mem[RootInode]
                BY <1>1, <1>2, <3>2
            <4> QED BY <4>1 DEF Tree
        <3> QED BY <3>1, <3>2
    <2> QED BY <1>14, <2>1, <2>2 DEF Tree
<1>16. \A c : IsDir(new, c) => IsDir(mem, c) \/ (c # RootInode /\ new[c].kids = NoKids)
    BY <1>9, <1>10
<1>17. \A c : IsDir(new, c) /\ IsDir(mem, c) /\ c # a => new[c].kids = mem[c].kids
    BY <1>2, DirIs
<1> QED BY <1>4, <1>5, <1>7, <1>11, <1>12, <1>13, <1>15, <1>16, <1>17

\* What is on the disk of a directory, as getDirectoryEntries reads it.
LEMMA FoundIs ==
    ASSUME NEW dk, DiskOk(dk), NEW d \in Dirs
    PROVE  /\ Entries(FoundIn(dk, d), d) /\ Fewer(FoundIn(dk, d), SlotsPer)
           /\ \A e \in FoundIn(dk, d) : dk[d][e.slot] = e.entry
           /\ \A s \in SlotSet : IsUsed(dk[d][s]) => dk[d][s].name \in NamesOf(FoundIn(dk, d))
           /\ \A x \in NamesOf(FoundIn(dk, d)) : \E s \in SlotSet : IsUsed(dk[d][s]) /\ dk[d][s].name = x
<1>1. \A e \in FoundIn(dk, d) : e.slot \in SlotSet /\ IsUsed(dk[d][e.slot]) /\ e.entry = dk[d][e.slot]
                                /\ e = [slot |-> e.slot, entry |-> dk[d][e.slot]]
    BY DEF FoundIn
<1>2. \A s \in SlotSet : IsUsed(dk[d][s]) =>
          /\ IsEntry(dk[d][s]) /\ Fits(d, dk[d][s])
          /\ \A t \in SlotSet : IsUsed(dk[d][t]) /\ dk[d][t].name = dk[d][s].name => t = s
    BY DEF DiskOk
<1>3. ASSUME NEW e \in FoundIn(dk, d), NEW f \in FoundIn(dk, d), e.slot = f.slot \/ e.entry.name = f.entry.name
      PROVE  e = f
    <2>1. e.slot = f.slot
        BY <1>1, <1>2, <1>3
    <2> QED BY <1>1, <2>1
<1>4. Entries(FoundIn(dk, d), d)
    BY <1>1, <1>2, <1>3 DEF Entries
<1>5. Fewer(FoundIn(dk, d), SlotsPer)
    <2> DEFINE i == [e \in FoundIn(dk, d) |-> e.slot]
    <2>1. i \in [FoundIn(dk, d) -> 1 .. SlotsPer]
        BY <1>1 DEF SlotSet
    <2>2. IsInjective(i)
        BY <1>3 DEF IsInjective
    <2> HIDE DEF i
    <2> QED BY <2>1, <2>2 DEF Fewer
<1>6. \A s \in SlotSet : IsUsed(dk[d][s]) => dk[d][s].name \in NamesOf(FoundIn(dk, d))
    <2> SUFFICES ASSUME NEW s \in SlotSet, IsUsed(dk[d][s]) PROVE dk[d][s].name \in NamesOf(FoundIn(dk, d))
        OBVIOUS
    <2>1. [slot |-> s, entry |-> dk[d][s]] \in FoundIn(dk, d)
        BY DEF FoundIn
    <2> QED BY <2>1 DEF NamesOf
<1>7. \A x \in NamesOf(FoundIn(dk, d)) : \E s \in SlotSet : IsUsed(dk[d][s]) /\ dk[d][s].name = x
    BY <1>1 DEF NamesOf
<1> QED BY <1>1, <1>4, <1>5, <1>6, <1>7

\* One entry alone.
LEMMA OneEntry ==
    ASSUME NEW d, NEW e, e.slot \in SlotSet, IsEntry(e.entry), Fits(d, e.entry)
    PROVE  Entries({e}, d) /\ Fewer({e}, 1) /\ NamesOf({e}) = {e.entry.name}
<1>1. Entries({e}, d) /\ NamesOf({e}) = {e.entry.name}
    BY DEF Entries, NamesOf
<1>2. [f \in {e} |-> 1] \in [{e} -> 1 .. 1]
    OBVIOUS
<1>3. IsInjective([f \in {e} |-> 1])
    BY DEF IsInjective
<1>4. Fewer({e}, 1)
    BY <1>2, <1>3 DEF Fewer
<1> QED BY <1>1, <1>4

\* Where something is added to the dentries of a: it is on the disk, the
\* dentries it leaves alone are, none is missing elsewhere, and none in a.
AddedKnown(dk, d, found) == \A e \in found : dk[d][e.slot] = e.entry
OthersKnown(mem, dk, calls, a, found) ==
    \A c : IsDir(mem, c) => \A x \in DOMAIN mem[c].kids \ Pending(calls, Listing(c)) :
        (c = a /\ x \in NamesOf(found))
        \/ dk[Listing(c)][mem[mem[c].kids[x]].slot] = EntryOf(mem[mem[c].kids[x]])
OthersCovered(mem, dk, calls, a) ==
    \A c : IsDir(mem, c) /\ c # a =>
        (~Listed(calls, Listing(c)) /\ (mem[c].kids # NoKids \/ Making(calls, Listing(c))) =>
            Covers(mem, dk, c, Pending(calls, Listing(c))))
AddedCovers(mem, dk, calls, a, found) ==
    ~Listed(calls, Listing(a)) => \A s \in SlotSet : IsUsed(dk[Listing(a)][s]) =>
        dk[Listing(a)][s].name \in DOMAIN mem[a].kids \cup NamesOf(found) \cup Pending(calls, Listing(a))

\* Then the tree is good.
LEMMA AddedGood ==
    ASSUME NEW mem, Tree(mem), NEW a, IsDir(mem, a), NEW found, Entries(found, Listing(a)),
           NEW new, NEW own, Adds(mem, new, a, Listing(a), found, own),
           NEW dk, NEW calls, ~Making(calls, Sub),
           AddedKnown(dk, Listing(a), found), OthersKnown(mem, dk, calls, a, found),
           OthersCovered(mem, dk, calls, a), AddedCovers(mem, dk, calls, a, found)
    PROVE  Good(new, dk, calls)
<1>1. /\ Tree(new)
      /\ \A c : IsDir(new, c) => IsDir(mem, c) \/ (c # RootInode /\ new[c].kids = NoKids)
      /\ \A c : IsDir(new, c) /\ IsDir(mem, c) /\ c # a => new[c].kids = mem[c].kids
      /\ \A c : IsDir(new, c) /\ IsDir(mem, c) =>
            \A x \in DOMAIN mem[c].kids : c # a \/ x \notin NamesOf(found) =>
               EntryOf(new[new[c].kids[x]]) = EntryOf(mem[mem[c].kids[x]])
               /\ new[new[c].kids[x]].slot = mem[mem[c].kids[x]].slot
      /\ DOMAIN new[a].kids = DOMAIN mem[a].kids \cup NamesOf(found)
      /\ \A e \in found :
            EntryOf(new[new[a].kids[e.entry.name]]) = e.entry /\ new[new[a].kids[e.entry.name]].slot = e.slot
    <2>1. /\ Tree(new)
          /\ \A c : IsDir(new, c) => IsDir(mem, c) \/ (c # RootInode /\ new[c].kids = NoKids)
        BY AddedTree, SMTT(30)
    <2>2. \A c : IsDir(new, c) /\ IsDir(mem, c) /\ c # a => new[c].kids = mem[c].kids
        BY AddedTree, SMTT(30)
    <2>3. \A c : IsDir(new, c) /\ IsDir(mem, c) =>
              \A x \in DOMAIN mem[c].kids : c # a \/ x \notin NamesOf(found) =>
                 EntryOf(new[new[c].kids[x]]) = EntryOf(mem[mem[c].kids[x]])
                 /\ new[new[c].kids[x]].slot = mem[mem[c].kids[x]].slot
        BY AddedTree, SMTT(30)
    <2>4. /\ DOMAIN new[a].kids = DOMAIN mem[a].kids \cup NamesOf(found)
          /\ \A e \in found :
                EntryOf(new[new[a].kids[e.entry.name]]) = e.entry /\ new[new[a].kids[e.entry.name]].slot = e.slot
        BY AddedTree, SMTT(30)
    <2> QED BY <2>1, <2>2, <2>3, <2>4
<1>2. ASSUME NEW c, IsDir(new, c), IsDir(mem, c),
             NEW x \in DOMAIN new[c].kids \ Pending(calls, Listing(c))
      PROVE  dk[Listing(c)][new[new[c].kids[x]].slot] = EntryOf(new[new[c].kids[x]])
    <2>1. CASE c = a /\ x \in NamesOf(found)
        <3>1. PICK e \in found : x = e.entry.name
            BY <2>1 DEF NamesOf
        <3> QED BY <1>1, <2>1, <3>1 DEF AddedKnown
    <2>2. CASE ~(c = a /\ x \in NamesOf(found))
        <3>1. x \in DOMAIN mem[c].kids
            BY <1>1, <1>2, <2>2
        <3>2. dk[Listing(c)][mem[mem[c].kids[x]].slot] = EntryOf(mem[mem[c].kids[x]])
            BY <1>2, <2>2, <3>1 DEF OthersKnown
        <3> QED BY <1>1, <1>2, <2>2, <3>1, <3>2
    <2> QED BY <2>1, <2>2
<1>3. ASSUME NEW c, IsDir(new, c)
      PROVE  Known(new, dk, c, Pending(calls, Listing(c)))
    <2>1. CASE IsDir(mem, c)
        BY <1>2, <1>3, <2>1 DEF Known
    <2>2. CASE new[c].kids = NoKids
        BY <2>2 DEF Known, NoKids
    <2> QED BY <1>1, <1>3, <2>1, <2>2
<1>4. ASSUME NEW c, IsDir(new, c), ~Listed(calls, Listing(c)), new[c].kids # NoKids \/ Making(calls, Listing(c))
      PROVE  Covers(new, dk, c, Pending(calls, Listing(c)))
    <2>1. IsDir(mem, c)
        <3>1. CASE c # RootInode /\ new[c].kids = NoKids
            BY <1>4, <3>1, Constants
        <3> QED BY <1>1, <1>4, <3>1
    <2>2. CASE c = a
        BY <1>1, <1>4, <2>2 DEF Covers, AddedCovers
    <2>3. CASE c # a
        <3>1. new[c].kids = mem[c].kids
            BY <1>1, <1>4, <2>1, <2>3
        <3>2. Covers(mem, dk, c, Pending(calls, Listing(c)))
            BY <1>4, <2>1, <2>3, <3>1 DEF OthersCovered
        <3> QED BY <3>1, <3>2 DEF Covers
    <2> QED BY <2>2, <2>3
<1> QED BY <1>1, <1>3, <1>4 DEF Good, Sees

-----------------------------------------------------------------------------
(* A path: getDentry and traversePath.                                     *)

\* What Used and Found say of a disk that is as it should be.
LEMMA DiskIs ==
    ASSUME DiskOk(disk), NEW d \in Dirs
    PROVE  /\ DOMAIN disk[d] = SlotSet /\ Used(d) = {s \in SlotSet : IsUsed(disk[d][s])}
           /\ Found(d) = FoundIn(disk, d)
<1>1. disk = [e \in Dirs |-> [s \in SlotSet |-> disk[e][s]]]
    BY DEF DiskOk
<1>2. disk[d] = [s \in SlotSet |-> disk[d][s]]
    BY <1>1
<1>3. DOMAIN disk[d] = SlotSet
    BY <1>2
<1>4. Used(d) = {s \in SlotSet : IsUsed(disk[d][s])}
    BY <1>3 DEF Used, IsUsed
<1>5. Found(d) = FoundIn(disk, d)
    BY <1>4, Zenon DEF Found, FoundIn
<1> QED BY <1>3, <1>4, <1>5

\* A directory is listed, if it has no dentries.
LEMMA LoadedGood ==
    ASSUME DiskOk(disk), NEW mem, Good(mem, disk, call), ~Making(call, Sub), NEW a, IsDir(mem, a),
           Pending(call, Listing(a)) = {}, Cardinality(Spare(mem)) >= SlotsPer
    PROVE  /\ Good(Loaded(mem, a), disk, call)
           /\ DOMAIN mem \subseteq DOMAIN Loaded(mem, a) /\ Kept(mem, Loaded(mem, a))
           /\ Cardinality(Spare(Loaded(mem, a))) >= Cardinality(Spare(mem)) - SlotsPer
           /\ \A c : IsDir(mem, c) => IsDir(Loaded(mem, a), c)
           /\ ~Listed(call, Listing(a)) => Covers(Loaded(mem, a), disk, a, {})
<1> DEFINE d == Listing(a)
           found == FoundIn(disk, d)
           new == Loaded(mem, a)
<1>1. d \in Dirs /\ SlotsPer \in Nat /\ Cardinality(Spare(mem)) \in Nat
    BY Constants, SpareIs
<1>2. Tree(mem) /\ Sees(mem, disk, call, a) /\ a \in DOMAIN mem /\ IsInode(mem[a])
    BY DirIs DEF Good
<1>3. CASE mem[a].kids # NoKids
    <2>1. new = mem
        BY <1>3 DEF Loaded
    <2>2. ~Listed(call, d) => Covers(mem, disk, a, {})
        BY <1>2, <1>3 DEF Sees
    <2> QED BY <2>1, <2>2, <1>1 DEF Kept
<1>4. CASE mem[a].kids = NoKids
    <2>1. new = Added(mem, a, d, found)
        BY <1>1, <1>4, DiskIs DEF Loaded
    <2>2. /\ Entries(found, d) /\ Fewer(found, SlotsPer)
          /\ \A e \in found : disk[d][e.slot] = e.entry
          /\ \A s \in SlotSet : IsUsed(disk[d][s]) => disk[d][s].name \in NamesOf(found)
        BY <1>1, FoundIs
    <2> HIDE DEF found, new
    <2>3. PICK own : Adds(mem, new, a, d, found, own) /\ Cardinality(Spare(new)) >= Cardinality(Spare(mem)) - SlotsPer
        BY <1>1, <1>2, <2>1, <2>2, AddedIs
    <2>4. /\ DOMAIN mem \subseteq DOMAIN new /\ Kept(mem, new)
          /\ DOMAIN new[a].kids = DOMAIN mem[a].kids \cup NamesOf(found)
          /\ \A c : IsDir(new, c) /\ IsDir(mem, c) /\ c # a => new[c].kids = mem[c].kids
          /\ IsDir(new, a) /\ Tree(new)
        BY <1>2, <2>2, <2>3, AddedTree
    <2>5. \A c : IsDir(mem, c) => Sees(mem, disk, call, c)
        BY DirIs DEF Good
    <2>6. OthersKnown(mem, disk, call, a, found)
        BY <2>5 DEF Sees, Known, OthersKnown
    <2>7. OthersCovered(mem, disk, call, a)
        BY <2>5 DEF Sees, OthersCovered
    <2>8. Good(new, disk, call)
        <3>1. AddedKnown(disk, d, found) /\ AddedCovers(mem, disk, call, a, found)
            BY <2>2 DEF AddedKnown, AddedCovers
        <3> QED BY <1>2, <2>2, <2>3, <2>6, <2>7, <3>1, AddedGood
    <2>9. \A c : IsDir(mem, c) => IsDir(new, c)
        <3>1. CASE a = RootInode
            BY <1>4, <2>4, <3>1 DEF IsDir, NoKids
        <3>2. CASE a # RootInode
            <4>1. IsDir(mem, RootInode) /\ IsDir(new, RootInode)
                BY DEF IsDir
            <4>2. new[RootInode].kids = mem[RootInode].kids
                BY <2>4, <3>2, <4>1
            <4> QED BY <4>2 DEF IsDir
        <3> QED BY <3>1, <3>2
    <2>10. Covers(new, disk, a, {})
        BY <2>2, <2>4 DEF Covers
    <2> QED BY <2>3, <2>4, <2>8, <2>9, <2>10 DEF new
<1> QED BY <1>3, <1>4

\* A path is a name in the root, or Sub and a name in it.
LEMMA PathIs ==
    ASSUME NEW path \in Paths
    PROVE  \/ /\ Len(path) = 1 /\ path = <<path[1]>> /\ Last(path) = path[1] /\ path[1] \in TopNames \cup {Sub}
              /\ Way(path) = {Top}
           \/ /\ Len(path) = 2 /\ path = <<Sub, path[2]>> /\ Last(path) = path[2] /\ path[1] = Sub
              /\ Way(path) = {Top, Sub}
<1>1. CASE \E n \in TopNames \cup {Sub} : path = <<n>>
    BY <1>1 DEF Last, Way
<1>2. CASE \E n \in SubNames : path = <<Sub, n>>
    BY <1>2 DEF Last, Way
<1> QED BY <1>1, <1>2 DEF Paths

\* The inodes that a path leads over, and what is found at its end.
LEMMA WalkedGood ==
    ASSUME DiskOk(disk), Good(inode, disk, call), ~Making(call, Sub), ~Full, NEW path \in Paths,
           \A d \in Way(path) : Pending(call, d) = {}
    PROVE  LET w == Walked(path)  h == Home(path) IN
           /\ Good(w.mem, disk, call) /\ Kept(inode, w.mem) /\ DOMAIN inode \subseteq DOMAIN w.mem
           /\ Good(h.mem, disk, call) /\ Kept(inode, h.mem) /\ DOMAIN inode \subseteq DOMAIN h.mem
           /\ Cardinality(Spare(h.mem)) >= SlotsPer + 1
           /\ \A c \in h.found : /\ IsDir(h.mem, c) /\ IsDir(w.mem, c) /\ Listing(c) \in Way(path)
                                 /\ c = RootInode <=> Len(path) = 1
           /\ \A b \in w.found : \E c : /\ IsDir(w.mem, c) /\ Last(path) \in DOMAIN w.mem[c].kids
                                        /\ b = w.mem[c].kids[Last(path)] /\ Listing(c) \in Way(path)
                                        /\ c = RootInode <=> Len(path) = 1
           /\ Len(path) = 1 /\ ~Listed(call, Top) => Covers(h.mem, disk, RootInode, {})
<1> DEFINE m1 == Loaded(inode, RootInode)
           first == Child(m1, RootInode, path[1])
           w == Walked(path)
           h == Home(path)
<1>1. /\ SlotsPer \in Nat /\ Cardinality(Spare(inode)) \in Nat /\ Cardinality(Spare(inode)) >= 2 * SlotsPer + 1
      /\ Listing(RootInode) = Top /\ Top \in Way(path) /\ Sub # Top
    BY Constants, SpareIs DEF Full, Way
<1>2. Tree(inode) /\ IsDir(inode, RootInode)
    BY DEF Good, IsDir
<1>3. /\ Good(m1, disk, call) /\ Kept(inode, m1) /\ DOMAIN inode \subseteq DOMAIN m1
      /\ Cardinality(Spare(m1)) >= SlotsPer + 1 /\ Cardinality(Spare(m1)) \in Nat
      /\ ~Listed(call, Top) => Covers(m1, disk, RootInode, {})
    <2>1. Pending(call, Listing(RootInode)) = {} /\ Cardinality(Spare(inode)) >= SlotsPer
        BY <1>1
    <2> HIDE DEF m1
    <2>2. /\ Good(m1, disk, call) /\ Kept(inode, m1) /\ DOMAIN inode \subseteq DOMAIN m1
          /\ Cardinality(Spare(m1)) >= Cardinality(Spare(inode)) - SlotsPer
          /\ ~Listed(call, Top) => Covers(m1, disk, RootInode, {})
        BY <1>1, <1>2, <2>1, LoadedGood DEF m1
    <2>3. Cardinality(Spare(m1)) \in Nat
        BY SpareIs
    <2> QED BY <1>1, <2>2, <2>3
<1>4. Tree(m1) /\ IsDir(m1, RootInode)
    BY <1>3 DEF Good, IsDir
<1>5. \A x \in first : path[1] \in DOMAIN m1[RootInode].kids /\ x = m1[RootInode].kids[path[1]]
    BY DEF Child
<1>6. CASE Len(path) = 1
    <2>1. w = [mem |-> m1, found |-> first] /\ h = [mem |-> m1, found |-> {RootInode}] /\ Last(path) = path[1]
        BY <1>6, PathIs DEF Walked, Home
    <2> HIDE DEF m1, first, w, h
    <2>2. w.mem = m1 /\ w.found = first /\ h.mem = m1 /\ h.found = {RootInode}
        BY <2>1
    <2> QED BY <1>1, <1>3, <1>4, <1>5, <1>6, <2>1, <2>2 DEF w, h
<1>7. CASE Len(path) = 2
    <2>1. path[1] = Sub /\ Last(path) = path[2] /\ path = <<Sub, path[2]>> /\ Way(path) = {Top, Sub}
        BY <1>7, PathIs
    <2>2. h.mem = m1 /\ h.found = first
        <3>1. Len(<<path[1]>>) = 1 /\ (<<path[1]>>)[1] = path[1]
            OBVIOUS
        <3>2. Walked(<<path[1]>>) = [mem |-> m1, found |-> first]
            BY <3>1 DEF Walked
        <3> QED BY <1>7, <3>2 DEF Home
    <2>3. \A c \in first : IsDir(m1, c) /\ c # RootInode /\ Listing(c) = Sub /\ Pending(call, Listing(c)) = {}
        <3> SUFFICES ASSUME NEW c \in first
                     PROVE  IsDir(m1, c) /\ c # RootInode /\ Listing(c) = Sub /\ Pending(call, Listing(c)) = {}
            OBVIOUS
        <3>1. Sub \in DOMAIN m1[RootInode].kids /\ c = m1[RootInode].kids[Sub] /\ IsDir(m1, c)
            BY <1>5, <2>1 DEF IsDir
        <3>2. IsChild(m1, RootInode, Sub)
            BY <1>4, <3>1, DirIs DEF Family
        <3>3. c # RootInode
            BY <3>1, <3>2 DEF IsChild
        <3> QED BY <2>1, <3>1, <3>3, Constants
    <2>4. CASE first = {}
        <3>1. w = [mem |-> m1, found |-> {}]
            BY <1>7, <2>4 DEF Walked
        <3> HIDE DEF m1, first, w, h
        <3>2. w.mem = m1 /\ w.found = {} /\ h.found = {}
            BY <2>2, <2>4, <3>1
        <3> QED BY <1>1, <1>3, <1>4, <1>7, <2>2, <3>2 DEF w, h
    <2>5. CASE first # {}
        <3> DEFINE a == CHOOSE x \in first : TRUE
                   m2 == Loaded(m1, a)
        <3>1. a \in first /\ \A x \in first : x = a
            BY <1>5, <2>5
        <3>2. w = [mem |-> m2, found |-> Child(m2, a, path[2])]
            BY <1>7, <2>5 DEF Walked
        <3> HIDE DEF m1, first, a, w, h
        <3>3. IsDir(m1, a) /\ a # RootInode /\ Listing(a) = Sub /\ Pending(call, Listing(a)) = {}
            BY <2>3, <3>1
        <3>4. Cardinality(Spare(m1)) >= SlotsPer
            BY <1>1, <1>3
        <3> HIDE DEF m2
        <3>5. /\ Good(m2, disk, call) /\ DOMAIN m1 \subseteq DOMAIN m2 /\ Kept(m1, m2)
              /\ \A c : IsDir(m1, c) => IsDir(m2, c)
            BY <1>3, <3>3, <3>4, LoadedGood DEF m2
        <3>6. Kept(inode, m2) /\ DOMAIN inode \subseteq DOMAIN m2
            BY <1>3, <3>5 DEF Kept
        <3>7. w.mem = m2 /\ w.found = Child(m2, a, path[2])
            BY <3>2
        <3>8. \A b \in w.found : Last(path) \in DOMAIN m2[a].kids /\ b = m2[a].kids[Last(path)]
            BY <2>1, <3>7 DEF Child
        <3> QED BY <1>1, <1>3, <1>7, <2>1, <2>2, <2>3, <3>1, <3>3, <3>5, <3>6, <3>7, <3>8 DEF w, h
    <2> QED BY <2>4, <2>5
<1> QED BY <1>6, <1>7, PathIs

-----------------------------------------------------------------------------
(* What stays, and what other calls keep.                                  *)

\* An inode in the tree is a directory of it, or a file.
LEMMA InTreeIs ==
    ASSUME NEW mem, Tree(mem), NEW b, InTree(mem, b)
    PROVE  /\ b \in DOMAIN mem /\ IsInode(mem[b])
           /\ IsDir(mem, b) \/ (mem[b].kind = "file" /\ mem[b].kids = NoKids)
           /\ b # RootInode => \E c : /\ IsDir(mem, c) /\ mem[b].dir = Listing(c) /\ mem[b].name \in DOMAIN mem[c].kids
                                      /\ b = mem[c].kids[mem[b].name] /\ mem[b].slot \in SlotSet
                                      /\ Fits(Listing(c), mem[b])
<1>1. CASE b = RootInode
    BY <1>1, DirIs
<1>2. CASE b # RootInode
    <2>1. PICK c \in DOMAIN mem : IsDir(mem, c) /\ \E x \in DOMAIN mem[c].kids : b = mem[c].kids[x]
        BY <1>2 DEF InTree
    <2>2. PICK x \in DOMAIN mem[c].kids : b = mem[c].kids[x]
        BY <2>1
    <2>3. IsChild(mem, c, x)
        BY <2>1, <2>2, DirIs DEF Family
    <2>4. /\ b \in DOMAIN mem /\ IsInode(mem[b]) /\ mem[b].name = x /\ mem[b].dir = Listing(c)
          /\ mem[b].slot \in SlotSet /\ Fits(Listing(c), mem[b])
          /\ mem[b].kind = "file" => mem[b].kids = NoKids
        BY <2>2, <2>3 DEF IsChild
    <2>5. CASE mem[b].kind = "file"
        BY <2>1, <2>2, <2>4, <2>5
    <2>6. CASE mem[b].kind # "file"
        <3>1. Listing(c) = Top /\ x = Sub
            BY <2>4, <2>6 DEF Fits
        <3>2. c = RootInode
            BY <3>1, Constants
        <3>3. IsDir(mem, b)
            BY <2>2, <3>1, <3>2 DEF IsDir
        <3> QED BY <2>1, <2>2, <2>4, <3>3
    <2> QED BY <2>5, <2>6
<1> QED BY <1>1, <1>2

\* Reachable, which goes two levels down, reaches all of a tree.
LEMMA ReachableIs ==
    ASSUME NEW mem, Tree(mem)
    PROVE  \A b : b \in Reachable(mem) <=> InTree(mem, b)
<1> DEFINE S == {RootInode} \cup Range(mem[RootInode].kids)
<1>1. Reachable(mem) = S \cup UNION {Range(mem[a].kids) : a \in S}
    <2>1. {RootInode} \cup UNION {Range(mem[a].kids) : a \in {RootInode}} = S
        OBVIOUS
    <2> HIDE DEF S
    <2> QED BY <2>1 DEF Reachable
<1>2. \A b : b \in Range(mem[RootInode].kids) <=> \E x \in DOMAIN mem[RootInode].kids : b = mem[RootInode].kids[x]
    BY DEF Range
<1>3. \A a \in S : InTree(mem, a)
    BY <1>2, DirIs DEF InTree
<1>4. ASSUME NEW b, b \in Reachable(mem) PROVE InTree(mem, b)
    <2>1. CASE b \in S
        BY <2>1, <1>3
    <2>2. CASE b \notin S
        <3>1. PICK a \in S : b \in Range(mem[a].kids)
            BY <1>1, <1>4, <2>2
        <3>2. PICK x \in DOMAIN mem[a].kids : b = mem[a].kids[x]
            BY <3>1 DEF Range
        <3>3. IsDir(mem, a)
            BY <1>3, <3>2, InTreeIs DEF NoKids
        <3> QED BY <3>2, <3>3, DirIs DEF InTree
    <2> QED BY <2>1, <2>2
<1>5. ASSUME NEW b, InTree(mem, b) PROVE b \in Reachable(mem)
    <2>1. CASE b = RootInode
        BY <1>1, <2>1
    <2>2. CASE b # RootInode
        <3>1. PICK a \in DOMAIN mem : IsDir(mem, a) /\ \E x \in DOMAIN mem[a].kids : b = mem[a].kids[x]
            BY <1>5, <2>2 DEF InTree
        <3>2. a \in S
            BY <1>2, <3>1 DEF IsDir
        <3>3. b \in Range(mem[a].kids)
            BY <3>1 DEF Range
        <3> HIDE DEF S
        <3> QED BY <1>1, <3>2, <3>3
    <2> QED BY <2>1, <2>2
<1> QED BY <1>4, <1>5

\* Remember keeps the tree, and nothing else that is not an orphan.
LEMMA RememberedGood ==
    ASSUME NEW mem, NEW dk, NEW calls, Good(mem, dk, calls), NEW held, Remember(mem, held), ~orphaned'
    PROVE  /\ Good(inode', dk, calls) /\ \A b \in DOMAIN inode' : InTree(inode', b)
           /\ \A b \in DOMAIN inode' : b \in DOMAIN mem /\ inode'[b] = mem[b]
           /\ \A a : IsDir(inode', a) <=> IsDir(mem, a)
           /\ ~orphaned
<1> DEFINE more == held \cup UNION {Range(mem[b].kids) : b \in DOMAIN mem \cap held}
           kept == DOMAIN mem \cap (Reachable(mem) \cup more)
<1>1. inode' = [a \in kept |-> mem[a]] /\ held \cap DOMAIN mem \subseteq Reachable(mem) /\ ~orphaned
    BY Zenon DEF Remember
<1>2. Tree(mem)
    BY DEF Good
<1>3. ASSUME NEW b \in kept PROVE InTree(mem, b)
    <2>1. CASE b \in Reachable(mem)
        BY <1>2, <2>1, ReachableIs
    <2>2. CASE b \in held
        BY <1>1, <1>2, <2>2, ReachableIs
    <2>3. CASE \E c \in DOMAIN mem \cap held : b \in Range(mem[c].kids)
        <3>1. PICK c \in DOMAIN mem \cap held : b \in Range(mem[c].kids)
            BY <2>3
        <3>2. InTree(mem, c)
            BY <1>1, <1>2, <3>1, ReachableIs
        <3>3. PICK x \in DOMAIN mem[c].kids : b = mem[c].kids[x]
            BY <3>1 DEF Range
        <3>4. IsDir(mem, c)
            BY <1>2, <3>2, <3>3, InTreeIs DEF NoKids
        <3> QED BY <3>1, <3>3, <3>4 DEF InTree
    <2> QED BY <2>1, <2>2, <2>3
<1>4. \A b : InTree(mem, b) => b \in kept
    BY <1>2, InTreeIs, ReachableIs
<1> HIDE DEF kept
<1>5. DOMAIN inode' = kept /\ \A b \in kept : inode'[b] = mem[b]
    BY <1>1
<1>6. \A a : IsDir(mem, a) => a \in kept /\ a \in DOMAIN mem
    <2>1. \A a : IsDir(mem, a) => InTree(mem, a)
        BY <1>2, DirIs DEF IsDir, InTree
    <2> QED BY <1>2, <1>4, <2>1, DirIs
<1>7. RootInode \in kept /\ inode'[RootInode] = mem[RootInode]
    BY <1>5, <1>6 DEF IsDir
<1>8. \A a : IsDir(inode', a) <=> IsDir(mem, a)
    BY <1>7 DEF IsDir
<1>9. \A b \in kept : b \in DOMAIN mem /\ InTree(mem, b)
    BY <1>3, <1>2, InTreeIs
<1>10. \A b \in kept : InTree(inode', b)
    BY <1>5, <1>6, <1>8, <1>9 DEF InTree
<1>11. ASSUME NEW a, IsDir(mem, a), NEW x \in DOMAIN mem[a].kids
       PROVE  mem[a].kids[x] \in kept /\ IsChild(mem, a, x) /\ IsChild(inode', a, x)
    <2>1. IsChild(mem, a, x)
        BY <1>2, <1>11, DirIs DEF Family
    <2>2. InTree(mem, mem[a].kids[x])
        BY <1>6, <1>11 DEF InTree
    <2>3. mem[a].kids[x] \in kept /\ inode'[mem[a].kids[x]] = mem[mem[a].kids[x]] /\ inode'[a] = mem[a]
        BY <1>4, <1>5, <1>6, <1>11, <2>2
    <2> QED BY <1>5, <2>1, <2>3 DEF IsChild
<1>12. Tree(inode')
    <2>1. inode' = [b \in DOMAIN inode' |-> inode'[b]]
        BY <1>1
    <2>2. DOMAIN inode' \subseteq Blocks
        BY <1>2, <1>5, <1>9 DEF Tree
    <2>3. IsInode(inode'[RootInode]) /\ inode'[RootInode].kind = "dir" /\ IsMap(inode'[RootInode].kids)
        BY <1>2, <1>7 DEF Tree
    <2>4. \A a : IsDir(inode', a) => Family(inode', a)
        BY <1>5, <1>6, <1>8, <1>11 DEF Family
    <2> QED BY <1>5, <1>7, <2>1, <2>2, <2>3, <2>4 DEF Tree
<1>13. ASSUME NEW a, IsDir(inode', a)
       PROVE  Sees(inode', dk, calls, a)
    <2>1. IsDir(mem, a) /\ inode'[a] = mem[a] /\ Sees(mem, dk, calls, a)
        BY <1>5, <1>6, <1>8, <1>13 DEF Good
    <2>2. \A x \in DOMAIN mem[a].kids : inode'[mem[a].kids[x]] = mem[mem[a].kids[x]]
        BY <1>5, <1>11, <2>1
    <2>3. Known(inode', dk, a, Pending(calls, Listing(a)))
        BY <2>1, <2>2 DEF Sees, Known
    <2>4. Covers(mem, dk, a, Pending(calls, Listing(a))) => Covers(inode', dk, a, Pending(calls, Listing(a)))
        BY <2>1 DEF Covers
    <2> QED BY <2>1, <2>3, <2>4 DEF Sees
<1>14. Good(inode', dk, calls)
    BY <1>12, <1>13 DEF Good
<1> QED BY <1>1, <1>5, <1>8, <1>9, <1>10, <1>14

\* Calls that have changed, are listing or are making something in a directory.
Pends(c, d) == c.op \in Mutators /\ c.step = 1 /\ Listing(c.dir) = d
Lists(c, d) == c.op = "list" /\ Listing(c.dir) = d
Makes(c, d) == c.op = "mkdir" /\ Listing(c.dir) = d

\* The three, said of one call at a time.
LEMMA PendingIs ==
    ASSUME NEW calls, NEW d
    PROVE  /\ \A x : x \in Pending(calls, d) <=> \E q \in Processes : Pends(calls[q], d) /\ calls[q].name = x
           /\ Listed(calls, d) <=> \E q \in Processes : Lists(calls[q], d)
           /\ Making(calls, d) <=> \E q \in Processes : Makes(calls[q], d)
BY DEF Pending, Pends, Listed, Lists, Making, Makes

\* When one call goes on.
LEMMA PendingAfter ==
    ASSUME NEW p \in Processes, NEW c, call = [q \in Processes |-> call[q]],
           NEW calls, calls = [call EXCEPT ![p] = c], NEW d
    PROVE  /\ ~Pends(call[p], d) /\ ~Pends(c, d) => Pending(calls, d) = Pending(call, d)
           /\ Listed(call, d) => Lists(call[p], d) \/ Listed(calls, d)
           /\ Making(calls, d) => Makes(c, d) \/ Making(call, d)
           /\ Listed(calls, d) => Lists(c, d) \/ Listed(call, d)
<1>1. calls[p] = c /\ \A q \in Processes \ {p} : calls[q] = call[q]
    OBVIOUS
<1>2. ASSUME ~Pends(call[p], d), ~Pends(c, d) PROVE Pending(calls, d) = Pending(call, d)
    <2>1. \A x : x \in Pending(calls, d) <=> x \in Pending(call, d)
        BY <1>1, <1>2, PendingIs
    <2> QED BY <2>1
<1>3. Listed(call, d) => Lists(call[p], d) \/ Listed(calls, d)
    BY <1>1, PendingIs
<1>4. Making(calls, d) => Makes(c, d) \/ Making(call, d)
    BY <1>1, PendingIs
<1>5. Listed(calls, d) => Lists(c, d) \/ Listed(call, d)
    BY <1>1, PendingIs
<1> QED BY <1>2, <1>3, <1>4, <1>5

\* In the directories that a step looks at nobody else is half way.
LEMMA QuietIs ==
    ASSUME NEW p \in Processes, NEW dirs, \A q \in Processes \ {p} : dirs \cap Halfway(q) = {}, NEW d \in dirs
    PROVE  /\ \A q \in Processes \ {p} : ~Pends(call[q], d)
           /\ ~Pends(call[p], d) => Pending(call, d) = {}
           /\ Pends(call[p], d) => Pending(call, d) = {call[p].name}
<1>1. \A q \in Processes \ {p} : ~Pends(call[q], d)
    BY DEF Pends, Halfway, Scope
<1>2. \A x : x \in Pending(call, d) <=> Pends(call[p], d) /\ call[p].name = x
    BY <1>1, PendingIs
<1> QED BY <1>1, <1>2

\* And after the step of one, only that one is.
LEMMA QuietAfter ==
    ASSUME NEW p \in Processes, NEW dirs, \A q \in Processes \ {p} : dirs \cap Halfway(q) = {}, NEW d \in dirs,
           call = [q \in Processes |-> call[q]], NEW c, NEW calls, calls = [call EXCEPT ![p] = c]
    PROVE  /\ ~Pends(c, d) => Pending(calls, d) = {}
           /\ Pends(c, d) => Pending(calls, d) = {c.name}
<1>1. calls[p] = c /\ \A q \in Processes \ {p} : calls[q] = call[q]
    OBVIOUS
<1>2. \A x : x \in Pending(calls, d) <=> Pends(c, d) /\ c.name = x
    BY <1>1, QuietIs, PendingIs
<1> QED BY <1>2

\* What the lemmas about steps take from the invariant.
LEMMA BodyIs ==
    ASSUME FilesBody
    PROVE  /\ DiskOk(disk) /\ Good(inode, disk, call) /\ Tree(inode) /\ ~Making(call, Sub)
           /\ \A b \in DOMAIN inode : InTree(inode, b)
           /\ call = [p \in Processes |-> call[p]]
           /\ \A p \in Processes : CallOk(inode, disk, call[p])
           /\ \A a : IsDir(inode, a) => Sees(inode, disk, call, a)
<1>1. ~Making(call, Sub)
    <2> SUFFICES ASSUME NEW p \in Processes, call[p].op = "mkdir" PROVE Listing(call[p].dir) = Top
        BY Constants DEF Making
    <2>1. CallOk(inode, disk, call[p])
        BY DEF FilesBody
    <2>2. call[p].dir = RootInode
        BY <2>1 DEF CallOk
    <2> QED BY <2>2, Constants
<1>2. Good(inode, disk, call)
    BY DEF FilesBody
<1>3. \A a : IsDir(inode, a) => Sees(inode, disk, call, a)
    BY <1>2, DirIs DEF Good
<1> QED BY <1>1, <1>3 DEF FilesBody, Good

\* The empty name is left as Idle.name.
LEMMA IdleIs ==
    /\ Idle = [op |-> "idle", dir |-> 0, name |-> Idle.name, fd |-> 0, found |-> {}, step |-> 0]
    /\ Idle.op = "idle" /\ Idle.step = 0 /\ Idle.found = {}
<1>1. /\ Idle.op = "idle" /\ Idle.dir = 0 /\ Idle.fd = 0 /\ Idle.found = {} /\ Idle.step = 0
      /\ Idle = [op |-> Idle.op, dir |-> Idle.dir, name |-> Idle.name, fd |-> Idle.fd, found |-> Idle.found,
                 step |-> Idle.step]
    BY Zenon DEF Idle
<1> QED BY <1>1, Zenon

\* A process that is in no call has nothing left to do.
LEMMA IdleOk ==
    ASSUME NEW mem, NEW dk
    PROVE  CallOk(mem, dk, Idle)
<1> DEFINE c == Idle
<1>1. /\ c = [op |-> "idle", dir |-> 0, name |-> c.name, fd |-> 0, found |-> {}, step |-> 0] /\ c.op = "idle" /\ c.step = 0
      /\ c = Idle
    BY IdleIs, Zenon
<1> HIDE DEF c
<1>2. c = [op |-> c.op, dir |-> c.dir, name |-> c.name, fd |-> c.fd, found |-> c.found, step |-> c.step]
    BY <1>1
<1>3. CallOk(mem, dk, c)
    BY <1>1, <1>2 DEF CallOk, Mutators
<1> QED BY <1>3 DEF c

\* A call whose directory is still there and was not touched is as it was.
LEMMA CallStays ==
    ASSUME FilesBody, Tree(inode'), \A b \in DOMAIN inode' : InTree(inode', b), Kept(inode, inode'),
           ~Dangling', NEW q \in Processes, call'[q] = call[q],
           NEW dirs, dirs \cap Halfway(q) = {}, \A d \in Dirs \ dirs : disk'[d] = disk[d]
    PROVE  CallOk(inode', disk', call'[q])
<1> DEFINE c == call[q]
<1>1. CallOk(inode, disk, c) /\ Tree(inode)
    BY BodyIs
<1>2. CASE c = Idle
    BY <1>2, IdleOk
<1>3. CASE c # Idle
    <2>1. c.dir \in DOMAIN inode'
        <3>1. c.dir \in Held'
            BY <1>3 DEF Held
        <3> QED BY <3>1 DEF Dangling
    <2> HIDE DEF c
    <2>2. c.op \in Mutators \cup {"list"} => IsDir(inode', c.dir)
        <3> SUFFICES ASSUME c.op \in Mutators \cup {"list"} PROVE IsDir(inode', c.dir)
            OBVIOUS
        <3>1. IsDir(inode, c.dir)
            BY <1>1 DEF CallOk
        <3>2. inode[c.dir].kind = "dir" /\ c.dir \in DOMAIN inode
            BY <1>1, <3>1, DirIs
        <3>3. inode'[c.dir].kind = "dir"
            BY <2>1, <3>2 DEF Kept
        <3> QED BY <2>1, <3>3, InTreeIs
    <2>3. c.step = 1 => disk'[Listing(c.dir)] = disk[Listing(c.dir)]
        <3> SUFFICES ASSUME c.step = 1 PROVE disk'[Listing(c.dir)] = disk[Listing(c.dir)]
            OBVIOUS
        <3>1. Listing(c.dir) \in Halfway(q)
            BY DEF Halfway, Scope, c
        <3> QED BY <3>1, Constants
    <2>4. FoundIn(disk', Listing(c.dir)) = FoundIn(disk, Listing(c.dir)) \/ c.step # 1
        BY <2>3 DEF FoundIn
    <2>5. c.op = "mkdir" => Listing(c.dir) = Top
        BY <1>1, Constants DEF CallOk
    <2>6. CallOk(inode', disk', c)
        BY <1>1, <2>2, <2>3, <2>4, <2>5 DEF CallOk
    <2> QED BY <2>6 DEF c
<1> QED BY <1>2, <1>3

\* One step of a process: its own call and the tree are to be looked at.
LEMMA StepBody ==
    ASSUME FilesBody, ~Dangling', NEW p \in Processes, NEW c, call' = [call EXCEPT ![p] = c],
           NEW dirs, \A q \in Processes \ {p} : dirs \cap Halfway(q) = {},
           \A d \in Dirs \ dirs : disk'[d] = disk[d], DiskOk(disk'),
           Good(inode', disk', call'), \A b \in DOMAIN inode' : InTree(inode', b), Kept(inode, inode'),
           CallOk(inode', disk', c)
    PROVE  FilesBody'
<1>1. call = [q \in Processes |-> call[q]]
    BY BodyIs
<1>2. call' = [q \in Processes |-> call'[q]] /\ call'[p] = c /\ \A q \in Processes \ {p} : call'[q] = call[q]
    BY <1>1
<1>3. Tree(inode')
    BY DEF Good
<1>4. ASSUME NEW q \in Processes PROVE CallOk(inode', disk', call'[q])
    <2>1. CASE q = p
        BY <1>2, <2>1
    <2>2. CASE q # p
        <3>1. call'[q] = call[q] /\ dirs \cap Halfway(q) = {}
            BY <1>2, <2>2
        <3> QED BY <1>3, <3>1, CallStays
    <2> QED BY <2>1, <2>2
<1> QED BY <1>2, <1>4 DEF FilesBody

\* The same for a step that ends with Remember.
LEMMA RememberBody ==
    ASSUME FilesBody, ~Dangling', ~orphaned', NEW p \in Processes, NEW c, call' = [call EXCEPT ![p] = c],
           NEW dirs, \A q \in Processes \ {p} : dirs \cap Halfway(q) = {},
           \A d \in Dirs \ dirs : disk'[d] = disk[d], DiskOk(disk'),
           NEW mem, Good(mem, disk', call'), Kept(inode, mem), CallOk(mem, disk', c),
           NEW held, Remember(mem, held)
    PROVE  FilesBody'
<1>1. /\ Good(inode', disk', call') /\ \A b \in DOMAIN inode' : InTree(inode', b)
      /\ \A b \in DOMAIN inode' : b \in DOMAIN mem /\ inode'[b] = mem[b]
      /\ \A a : IsDir(inode', a) <=> IsDir(mem, a)
    BY RememberedGood
<1>2. Kept(inode, inode')
    BY <1>1 DEF Kept
<1>3. CallOk(inode', disk', c)
    BY <1>1 DEF CallOk
<1> QED BY <1>1, <1>2, <1>3, StepBody

\* Only the call has gone on, and it has not changed the disk.
LEMMA GoodAfter ==
    ASSUME NEW mem, NEW dk, Good(mem, dk, call), call = [q \in Processes |-> call[q]],
           NEW p \in Processes, NEW c, NEW calls, calls = [call EXCEPT ![p] = c],
           \A d \in Dirs : ~Pends(call[p], d) /\ ~Pends(c, d) /\ (Lists(call[p], d) => Lists(c, d)),
           \A a : IsDir(mem, a) /\ Makes(c, Listing(a)) =>
               \/ Makes(call[p], Listing(a)) \/ Listed(call, Listing(a))
               \/ Covers(mem, dk, a, Pending(call, Listing(a)))
    PROVE  Good(mem, dk, calls)
<1> SUFFICES ASSUME NEW a \in DOMAIN mem, IsDir(mem, a) PROVE Sees(mem, dk, calls, a)
    BY DEF Good
<1> DEFINE d == Listing(a)
<1>1. Sees(mem, dk, call, a) /\ d \in Dirs
    BY Constants DEF Good
<1> HIDE DEF d
<1>2. ~Pends(call[p], d) /\ ~Pends(c, d) /\ (Lists(call[p], d) => Lists(c, d))
    BY <1>1
<1>3. /\ ~Pends(call[p], d) /\ ~Pends(c, d) => Pending(calls, d) = Pending(call, d)
      /\ Listed(call, d) => Lists(call[p], d) \/ Listed(calls, d)
      /\ Making(calls, d) => Makes(c, d) \/ Making(call, d)
    BY PendingAfter
<1>4. calls[p] = c
    OBVIOUS
<1>5. Lists(c, d) => Listed(calls, d)
    BY <1>4, PendingIs
<1>6. /\ Pending(calls, d) = Pending(call, d)
      /\ ~Listed(calls, d) => ~Listed(call, d)
      /\ Making(calls, d) => Makes(c, d) \/ Making(call, d)
    BY <1>2, <1>3, <1>5
<1>7. Makes(call[p], d) => Making(call, d)
    BY PendingIs
<1> QED BY <1>1, <1>6, <1>7 DEF Sees, d

-----------------------------------------------------------------------------
(* The disk, and the inodes of files.                                      *)

\* One entry of the disk is changed.
Put(dk, d, s, e) == [dk EXCEPT ![d][s] = e]

\* Nothing else is.
LEMMA PutIs ==
    ASSUME NEW dk, DiskOk(dk), NEW d \in Dirs, NEW s \in SlotSet, NEW e, NEW dk2, dk2 = Put(dk, d, s, e)
    PROVE  /\ dk2 = [x \in Dirs |-> [t \in SlotSet |-> dk2[x][t]]]
           /\ dk2[d][s] = e /\ \A t \in SlotSet \ {s} : dk2[d][t] = dk[d][t]
           /\ \A x \in Dirs \ {d} : dk2[x] = dk[x]
<1>1. dk = [x \in Dirs |-> [t \in SlotSet |-> dk[x][t]]]
    BY DEF DiskOk
<1>2. \A x \in Dirs : dk[x] = [t \in SlotSet |-> dk[x][t]]
    BY <1>1
<1>3. DOMAIN dk = Dirs
    BY <1>1
<1>4. DOMAIN dk2 = Dirs /\ dk2 = [x \in Dirs |-> dk2[x]] /\ dk2[d] = [dk[d] EXCEPT ![s] = e]
      /\ \A x \in Dirs \ {d} : dk2[x] = dk[x]
    BY <1>3 DEF Put
<1>5. DOMAIN dk[d] = SlotSet
    BY <1>2
<1>6. dk2[d] = [t \in SlotSet |-> dk2[d][t]] /\ dk2[d][s] = e /\ \A t \in SlotSet \ {s} : dk2[d][t] = dk[d][t]
    BY <1>4, <1>5
<1>7. ASSUME NEW x \in Dirs PROVE dk2[x] = [t \in SlotSet |-> dk2[x][t]]
    <2>1. CASE x = d
        BY <1>6, <2>1
    <2>2. CASE x # d
        BY <1>2, <1>4, <2>2
    <2> QED BY <2>1, <2>2
<1>8. dk2 = [x \in Dirs |-> [t \in SlotSet |-> dk2[x][t]]]
    BY <1>4, <1>7, Zenon
<1> QED BY <1>4, <1>6, <1>8

\* The same of the term Put itself.
LEMMA PutAt ==
    ASSUME NEW dk, DiskOk(dk), NEW d \in Dirs, NEW s \in SlotSet, NEW e
    PROVE  /\ Put(dk, d, s, e)[d][s] = e /\ \A t \in SlotSet \ {s} : Put(dk, d, s, e)[d][t] = dk[d][t]
           /\ \A x \in Dirs \ {d} : Put(dk, d, s, e)[x] = dk[x]
<1> DEFINE dk2 == Put(dk, d, s, e)
<1>1. dk2 = Put(dk, d, s, e)
    OBVIOUS
<1> HIDE DEF dk2
<1>2. dk2[d][s] = e /\ (\A t \in SlotSet \ {s} : dk2[d][t] = dk[d][t]) /\ (\A x \in Dirs \ {d} : dk2[x] = dk[x])
    BY <1>1, PutIs
<1> QED BY <1>2 DEF dk2

\* The disk is as it should be if the new entry fits and its name is new.
LEMMA PutOk ==
    ASSUME NEW dk, DiskOk(dk), NEW d \in Dirs, NEW s \in SlotSet, NEW e, NEW dk2, dk2 = Put(dk, d, s, e),
           IsUsed(e) => /\ IsEntry(e) /\ Fits(d, e)
                        /\ \A t \in SlotSet \ {s} : IsUsed(dk[d][t]) => dk[d][t].name # e.name
    PROVE  DiskOk(dk2)
<1>1. /\ dk2 = [x \in Dirs |-> [t \in SlotSet |-> dk2[x][t]]]
      /\ dk2[d][s] = e /\ \A t \in SlotSet \ {s} : dk2[d][t] = dk[d][t]
      /\ \A x \in Dirs \ {d} : dk2[x] = dk[x]
    BY PutIs
<1>2. ASSUME NEW x \in Dirs, NEW t \in SlotSet, IsUsed(dk2[x][t])
      PROVE  /\ IsEntry(dk2[x][t]) /\ Fits(x, dk2[x][t])
             /\ \A u \in SlotSet : IsUsed(dk2[x][u]) /\ dk2[x][u].name = dk2[x][t].name => u = t
    <2>1. CASE x # d
        <3>1. dk2[x] = dk[x]
            BY <1>1, <2>1
        <3> QED BY <1>2, <3>1, Zenon DEF DiskOk
    <2>2. CASE x = d /\ t = s
        BY <1>1, <1>2, <2>2
    <2>3. CASE x = d /\ t # s
        <3>1. /\ IsEntry(dk[d][t]) /\ Fits(d, dk[d][t]) /\ IsUsed(dk[d][t]) /\ dk2[d][t] = dk[d][t]
              /\ \A u \in SlotSet : IsUsed(dk[d][u]) /\ dk[d][u].name = dk[d][t].name => u = t
            BY <1>1, <1>2, <2>3 DEF DiskOk
        <3>2. \A u \in SlotSet : IsUsed(dk2[d][u]) /\ dk2[d][u].name = dk2[d][t].name => u = t
            BY <1>1, <2>3, <3>1
        <3> QED BY <2>3, <3>1, <3>2
    <2> QED BY <2>1, <2>2, <2>3
<1> QED BY <1>1, <1>2 DEF DiskOk

\* Two directories of a tree do not list the same directory of the disk.
LEMMA OneDir ==
    ASSUME NEW mem, Tree(mem), NEW a, NEW c, IsDir(mem, a), IsDir(mem, c), Listing(a) = Listing(c)
    PROVE  a = c
BY Constants DEF IsDir

Resized(mem, b, first, size) == [mem EXCEPT ![b] = [mem[b] EXCEPT !.first = first, !.size = size]]

\* A file's inode and the entry on the disk are changed together.
LEMMA UpdatedGood ==
    ASSUME NEW dk, DiskOk(dk), NEW mem, NEW calls, Good(mem, dk, calls),
           NEW b, InTree(mem, b), mem[b].kind = "file", Pending(calls, mem[b].dir) = {},
           NEW first, NEW size,
           NEW new, new = Resized(mem, b, first, size),
           NEW dk2, dk2 = Put(dk, mem[b].dir, mem[b].slot,
                              [kind |-> "file", name |-> mem[b].name, first |-> first, size |-> size])
    PROVE  /\ Good(new, dk2, calls) /\ DiskOk(dk2) /\ Kept(mem, new)
           /\ \A x \in DOMAIN new : x \in DOMAIN mem /\ (InTree(mem, x) => InTree(new, x))
           /\ \A a : IsDir(new, a) <=> IsDir(mem, a)
           /\ \A d \in Dirs \ {mem[b].dir} : dk2[d] = dk[d]
           /\ mem[b].dir \in Dirs /\ mem[b].slot \in SlotSet /\ dk[mem[b].dir][mem[b].slot] = EntryOf(mem[b])
<1> DEFINE d == mem[b].dir
           s == mem[b].slot
           nm == mem[b].name
           e == [kind |-> "file", name |-> nm, first |-> first, size |-> size]
<1>1. Tree(mem) /\ b # RootInode /\ b \in DOMAIN mem /\ IsInode(mem[b]) /\ ~IsDir(mem, b) /\ mem[b].kids = NoKids
    BY InTreeIs, DirIs DEF Good
<1>2. PICK c : /\ IsDir(mem, c) /\ d = Listing(c) /\ nm \in DOMAIN mem[c].kids /\ b = mem[c].kids[nm]
               /\ s \in SlotSet /\ Fits(d, mem[b])
    BY <1>1, InTreeIs
<1>3. d \in Dirs /\ Sees(mem, dk, calls, c)
    BY <1>1, <1>2, Constants, DirIs DEF Good
<1>4. dk[d][s] = EntryOf(mem[b])
    BY <1>2, <1>3 DEF Sees, Known
<1>5. dk[d][s].kind = "file" /\ dk[d][s].name = nm /\ IsUsed(dk[d][s])
    BY <1>4 DEF EntryOf, IsUsed
<1>6. IsEntry(e) /\ Fits(d, e) /\ IsUsed(e) /\ e.name = nm
    BY <1>2 DEF IsEntry, Fits, IsUsed
<1>7. dk = [x \in Dirs |-> [t \in SlotSet |-> dk[x][t]]]
    BY DEF DiskOk
<1>8. dk2 = Put(dk, d, s, e)
    OBVIOUS
<1> HIDE DEF d, s, nm, e
<1>10. /\ dk2[d][s] = e /\ \A t \in SlotSet \ {s} : dk2[d][t] = dk[d][t]
       /\ \A x \in Dirs \ {d} : dk2[x] = dk[x]
    <2>1. d \in Dirs /\ s \in SlotSet /\ DiskOk(dk)
        BY <1>2, <1>3
    <2>2. Put(dk, d, s, e)[d][s] = e
        BY <2>1, PutAt
    <2>3. \A t \in SlotSet \ {s} : Put(dk, d, s, e)[d][t] = dk[d][t]
        BY <2>1, PutAt
    <2>4. \A x \in Dirs \ {d} : Put(dk, d, s, e)[x] = dk[x]
        BY <2>1, PutAt
    <2> QED BY <1>8, <2>2, <2>3, <2>4
<1>11. \A x \in Dirs \ {d} : dk2[x] = dk[x]
    BY <1>10
<1>12. \A x \in Dirs : \A t \in SlotSet : x # d \/ t # s => dk2[x][t] = dk[x][t]
    BY <1>10, <1>11
<1>13. \A x \in Dirs : \A t \in SlotSet : /\ IsUsed(dk2[x][t]) <=> IsUsed(dk[x][t])
                                          /\ dk2[x][t].name = dk[x][t].name
    BY <1>5, <1>6, <1>10, <1>12
<1>14. DiskOk(dk2)
    <2>1. \A t \in SlotSet \ {s} : IsUsed(dk[d][t]) => dk[d][t].name # e.name
        <3>1. \A t \in SlotSet : IsUsed(dk[d][t]) /\ dk[d][t].name = dk[d][s].name => t = s
            BY <1>2, <1>3, <1>5 DEF DiskOk
        <3> QED BY <3>1, <1>5, <1>6
    <2> QED BY <1>2, <1>3, <1>6, <1>8, <2>1, PutOk
<1>9. new = Resized(mem, b, first, size)
    OBVIOUS
<1>15. /\ DOMAIN new = DOMAIN mem /\ \A x \in DOMAIN mem \ {b} : new[x] = mem[x]
       /\ new = [x \in DOMAIN new |-> new[x]]
       /\ new[b] = [mem[b] EXCEPT !.first = first, !.size = size]
    <2>1. mem = [x \in DOMAIN mem |-> mem[x]]
        BY <1>1 DEF Tree
    <2> QED BY <1>1, <1>9, <2>1 DEF Resized
<1>16. /\ IsInode(new[b]) /\ new[b].kind = mem[b].kind /\ new[b].dir = d /\ new[b].slot = s /\ new[b].name = nm
       /\ new[b].kids = NoKids /\ EntryOf(new[b]) = e
    BY <1>1, <1>15 DEF IsInode, EntryOf, d, s, nm, e
<1>17. \A a : IsDir(mem, a) => a \in DOMAIN mem /\ a # b /\ new[a] = mem[a]
    BY <1>1, <1>15, DirIs
<1>18. \A a : IsDir(new, a) <=> IsDir(mem, a)
    <2>1. new[RootInode] = mem[RootInode]
        BY <1>17 DEF IsDir
    <2> QED BY <2>1 DEF IsDir
<1>19. ASSUME NEW a, IsDir(mem, a), NEW x \in DOMAIN mem[a].kids
       PROVE  IsChild(new, a, x)
    <2> DEFINE y == mem[a].kids[x]
    <2>1. IsChild(mem, a, x) /\ new[a] = mem[a]
        BY <1>1, <1>17, <1>19, DirIs DEF Family
    <2>2. CASE y = b
        <3>1. Fits(Listing(a), new[y])
            BY <1>16, <2>1, <2>2 DEF IsChild, Fits, d, s, nm
        <3>2. IsMap(new[y].kids)
            BY <1>16, <2>2 DEF IsMap, NoKids
        <3> HIDE DEF y
        <3>3. /\ y \in DOMAIN new /\ y # RootInode /\ new[y].name = x /\ new[y].dir = Listing(a)
              /\ new[y].slot \in SlotSet
            BY <1>1, <1>2, <1>15, <1>16, <2>1, <2>2 DEF IsChild, y, d, s, nm
        <3> QED BY <1>16, <2>1, <2>2, <3>1, <3>2, <3>3 DEF IsChild, y
    <2>3. CASE y # b
        <3>1. y \in DOMAIN mem /\ new[y] = mem[y]
            BY <1>15, <2>1, <2>3 DEF IsChild
        <3> QED BY <1>15, <2>1, <3>1 DEF IsChild
    <2> QED BY <2>2, <2>3
<1>20. Tree(new)
    <2>1. \A a : IsDir(new, a) => Family(new, a)
        BY <1>17, <1>18, <1>19 DEF Family
    <2>2. new[RootInode] = mem[RootInode] /\ RootInode \in DOMAIN new
        BY <1>15, <1>17 DEF IsDir
    <2> QED BY <1>1, <1>15, <2>1, <2>2 DEF Tree
<1>21. ASSUME NEW a, IsDir(mem, a)
       PROVE  Known(new, dk2, a, Pending(calls, Listing(a)))
    <2> SUFFICES ASSUME NEW x \in DOMAIN mem[a].kids \ Pending(calls, Listing(a))
                 PROVE  dk2[Listing(a)][new[mem[a].kids[x]].slot] = EntryOf(new[mem[a].kids[x]])
        <3>1. new[a] = mem[a]
            BY <1>17, <1>21
        <3> QED BY <3>1, Zenon DEF Known
    <2> DEFINE y == mem[a].kids[x]
    <2>1. IsChild(mem, a, x) /\ dk[Listing(a)][mem[y].slot] = EntryOf(mem[y]) /\ Listing(a) \in Dirs
        <3>1. Sees(mem, dk, calls, a)
            BY <1>17, <1>21 DEF Good
        <3> QED BY <1>1, <1>21, <3>1, DirIs, Constants DEF Sees, Known, Family
    <2>2. y \in DOMAIN mem /\ mem[y].dir = Listing(a) /\ mem[y].slot \in SlotSet /\ mem[y].name = x
        BY <2>1 DEF IsChild
    <2>3. y = mem[a].kids[x]
        OBVIOUS
    <2> HIDE DEF y
    <2>4. CASE y = b
        BY <1>3, <1>10, <1>16, <2>2, <2>3, <2>4 DEF d, s
    <2>5. CASE y # b /\ Listing(a) = d /\ mem[y].slot = s
        <3>1. x = nm
            BY <1>5, <2>1, <2>2, <2>5 DEF EntryOf
        <3>2. a = c
            BY <1>1, <1>2, <1>21, <2>5, OneDir
        <3> QED BY <1>2, <2>3, <2>5, <3>1, <3>2, Zenon
    <2>6. CASE y # b /\ ~(Listing(a) = d /\ mem[y].slot = s)
        <3>1. new[y] = mem[y]
            BY <1>15, <2>2, <2>6
        <3>2. dk2[Listing(a)][mem[y].slot] = dk[Listing(a)][mem[y].slot]
            BY <1>12, <2>1, <2>2, <2>6
        <3> QED BY <2>1, <2>3, <3>1, <3>2
    <2> QED BY <2>4, <2>5, <2>6
<1>22. ASSUME NEW a, IsDir(mem, a)
       PROVE  Sees(new, dk2, calls, a)
    <2>1. Sees(mem, dk, calls, a) /\ new[a] = mem[a] /\ Listing(a) \in Dirs
        BY <1>17, <1>22, Constants DEF Good
    <2>2. Covers(mem, dk, a, Pending(calls, Listing(a))) => Covers(new, dk2, a, Pending(calls, Listing(a)))
        BY <1>13, <2>1 DEF Covers
    <2> QED BY <1>21, <1>22, <2>1, <2>2 DEF Sees
<1>23. Good(new, dk2, calls)
    BY <1>18, <1>20, <1>22 DEF Good
<1>24. Kept(mem, new)
    BY <1>15, <1>16 DEF Kept
<1>25. \A x \in DOMAIN new : x \in DOMAIN mem /\ (InTree(mem, x) => InTree(new, x))
    <2> SUFFICES ASSUME NEW x \in DOMAIN new, InTree(mem, x) PROVE InTree(new, x)
        BY <1>15
    <2>1. CASE x = RootInode
        BY <2>1 DEF InTree
    <2>2. CASE x # RootInode
        <3>1. PICK a \in DOMAIN mem : IsDir(mem, a) /\ \E y \in DOMAIN mem[a].kids : x = mem[a].kids[y]
            BY <2>2 DEF InTree
        <3>2. a \in DOMAIN new /\ IsDir(new, a) /\ new[a] = mem[a]
            BY <1>15, <1>17, <1>18, <3>1
        <3> QED BY <3>1, <3>2 DEF InTree
    <2> QED BY <2>1, <2>2
<1>26. d \in Dirs /\ s \in SlotSet /\ \A x \in Dirs \ {d} : dk2[x] = dk[x]
    BY <1>2, <1>3, <1>11
<1> QED BY <1>4, <1>14, <1>18, <1>23, <1>24, <1>25, <1>26 DEF d, s

-----------------------------------------------------------------------------
(* open.                                                                   *)

\* What is common to the three ways of opening.
LEMMA OpenIs ==
    ASSUME FilesBody, ~Full, NEW p \in Processes, NEW path \in Paths, OpenFile(p, path),
           \A q \in Processes \ {p} : Way(path) \cap Halfway(q) = {}
    PROVE  /\ call' = call /\ call' = [call EXCEPT ![p] = Idle] /\ Way(path) \subseteq Dirs
           /\ \A mem, dk : CallOk(mem, dk, Idle)
           /\ \A d \in Way(path) : Pending(call, d) = {}
           /\ LET w == Walked(path)  h == Home(path) IN
              /\ Good(w.mem, disk, call) /\ Kept(inode, w.mem) /\ DOMAIN inode \subseteq DOMAIN w.mem
              /\ Good(h.mem, disk, call) /\ Kept(inode, h.mem) /\ DOMAIN inode \subseteq DOMAIN h.mem
              /\ Cardinality(Spare(h.mem)) >= SlotsPer + 1
              /\ \A c \in h.found : IsDir(h.mem, c) /\ Listing(c) \in Way(path)
              /\ \A b \in w.found : \E c : /\ IsDir(w.mem, c) /\ Last(path) \in DOMAIN w.mem[c].kids
                                           /\ b = w.mem[c].kids[Last(path)] /\ Listing(c) \in Way(path)
<1>1. call[p] = Idle /\ call' = call
    BY DEF OpenFile, OpenExisting, OpenTruncate, OpenCreate, Ready
<1>2. call = [q \in Processes |-> call[q]] /\ DiskOk(disk) /\ Good(inode, disk, call) /\ ~Making(call, Sub)
    BY BodyIs
<1>3. call' = [call EXCEPT ![p] = Idle]
    BY <1>1, <1>2
<1>4. ASSUME NEW d \in Way(path) PROVE Pending(call, d) = {}
    <2>1. ~Pends(call[p], d)
        <3>1. Idle.step = 0
            BY IdleIs, Zenon
        <3> QED BY <1>1, <3>1 DEF Pends
    <2> QED BY <2>1, QuietIs
<1>5. Way(path) \subseteq Dirs
    BY DEF Way, Dirs
<1> QED BY <1>1, <1>2, <1>3, <1>4, <1>5, IdleOk, WalkedGood

\* open of what is there.
LEMMA OpenExistingKeeps ==
    ASSUME FilesBody, ~Full, NEW p \in Processes, NEW path \in Paths, OpenFile(p, path), OpenExisting(p, path),
           \A q \in Processes \ {p} : Way(path) \cap Halfway(q) = {}, ~Dangling', ~orphaned'
    PROVE  FilesBody'
<1> DEFINE w == Walked(path)
<1>1. PICK a \in w.found : Descriptor(p, a, w.mem) /\ disk' = disk
    BY DEF OpenExisting
<1>2. Remember(w.mem, Held \cup {a})
    BY <1>1 DEF Descriptor
<1>3. Good(w.mem, disk, call) /\ Kept(inode, w.mem) /\ call' = call /\ call' = [call EXCEPT ![p] = Idle]
      /\ CallOk(w.mem, disk, Idle)
    BY OpenIs
<1> HIDE DEF w
<1>4. Good(w.mem, disk', call') /\ CallOk(w.mem, disk', Idle) /\ DiskOk(disk')
    BY <1>1, <1>3, BodyIs
<1> QED BY <1>1, <1>2, <1>3, <1>4, RememberBody

\* open with O_TRUNC: the inode and its entry are emptied together.
LEMMA OpenTruncateKeeps ==
    ASSUME FilesBody, ~Full, NEW p \in Processes, NEW path \in Paths, OpenFile(p, path), OpenTruncate(p, path),
           \A q \in Processes \ {p} : Way(path) \cap Halfway(q) = {}, ~Dangling', ~orphaned'
    PROVE  FilesBody'
<1> DEFINE w == Walked(path)
<1>1. PICK a \in w.found :
          /\ w.mem[a].kind = "file"
          /\ Descriptor(p, a, [w.mem EXCEPT ![a] = Truncated(w.mem[a])])
          /\ disk' = [disk EXCEPT ![w.mem[a].dir][w.mem[a].slot] =
                         [kind |-> "file", name |-> w.mem[a].name, first |-> 0, size |-> 0]]
    BY Zenon DEF OpenTruncate
<1>2. /\ Good(w.mem, disk, call) /\ Kept(inode, w.mem) /\ DOMAIN inode \subseteq DOMAIN w.mem /\ call' = call
      /\ call' = [call EXCEPT ![p] = Idle] /\ \A mem, dk : CallOk(mem, dk, Idle)
      /\ \A d \in Way(path) : Pending(call, d) = {}
    BY OpenIs
<1>3. PICK c : /\ IsDir(w.mem, c) /\ Last(path) \in DOMAIN w.mem[c].kids
               /\ a = w.mem[c].kids[Last(path)] /\ Listing(c) \in Way(path)
    BY OpenIs
<1> DEFINE new == Resized(w.mem, a, 0, 0)
<1>4. Remember(new, Held \cup {a})
    BY <1>1 DEF Descriptor, Truncated, Resized
<1>5. disk' = Put(disk, w.mem[a].dir, w.mem[a].slot,
                  [kind |-> "file", name |-> w.mem[a].name, first |-> 0, size |-> 0])
    BY <1>1 DEF Put
<1> HIDE DEF w, new
<1>6. Tree(w.mem) /\ c \in DOMAIN w.mem /\ IsChild(w.mem, c, Last(path))
    BY <1>2, <1>3, DirIs DEF Good, Family
<1>7. InTree(w.mem, a) /\ w.mem[a].dir \in Way(path)
    BY <1>3, <1>6 DEF InTree, IsChild
<1>8. Pending(call, w.mem[a].dir) = {} /\ DiskOk(disk)
    BY <1>2, <1>7, BodyIs
<1>9. /\ Good(new, disk', call) /\ DiskOk(disk') /\ Kept(w.mem, new) /\ \A x \in DOMAIN new : x \in DOMAIN w.mem
      /\ \A d \in Dirs \ {w.mem[a].dir} : disk'[d] = disk[d]
    <2>1. new = Resized(w.mem, a, 0, 0)
        BY DEF new
    <2> HIDE DEF new
    <2>2. w.mem[a].kind = "file"
        BY <1>1
    <2>3. Good(w.mem, disk, call)
        BY <1>2
    <2> HIDE DEF w
    <2>4. disk' = Put(disk, w.mem[a].dir, w.mem[a].slot,
                      [kind |-> "file", name |-> w.mem[a].name, first |-> 0, size |-> 0])
        BY <1>5
    <2> QED BY <2>3, <2>4, <1>7, <1>8, <2>1, <2>2, UpdatedGood
<1>10. DOMAIN new = DOMAIN w.mem
    <2>1. w.mem = [x \in DOMAIN w.mem |-> w.mem[x]]
        BY <1>6 DEF Tree
    <2> QED BY <2>1 DEF new, Resized
<1>11. Kept(inode, new)
    BY <1>2, <1>9, <1>10 DEF Kept
<1>12. \A d \in Dirs \ Way(path) : disk'[d] = disk[d]
    BY <1>7, <1>9
<1>13. Good(new, disk', call') /\ CallOk(new, disk', Idle)
    BY <1>2, <1>9
<1> QED BY <1>2, <1>4, <1>9, <1>11, <1>12, <1>13, RememberBody

\* The slot that createFile takes.
LEMMA FreeSlotIs ==
    ASSUME DiskOk(disk), NEW d \in Dirs, FreeSlots(d) # {}
    PROVE  Min(FreeSlots(d)) \in SlotSet /\ ~IsUsed(disk[d][Min(FreeSlots(d))])
<1>1. FreeSlots(d) = {s \in SlotSet : ~IsUsed(disk[d][s])}
    BY DiskIs DEF FreeSlots
<1>2. FreeSlots(d) \subseteq Nat
    BY <1>1, Constants
<1>3. Min(FreeSlots(d)) \in FreeSlots(d)
    BY <1>2, MinIsIn
<1> QED BY <1>1, <1>3

\* open with O_CREAT: the new file has an entry and an inode.
LEMMA OpenCreateKeeps ==
    ASSUME FilesBody, ~Full, NEW p \in Processes, NEW path \in Paths, OpenFile(p, path), OpenCreate(p, path),
           \A q \in Processes \ {p} : Way(path) \cap Halfway(q) = {}, ~Dangling', ~orphaned'
    PROVE  FilesBody'
<1> DEFINE h == Home(path)
           name == Last(path)
<1>1. name # Sub
    BY DEF OpenCreate
<1>2. PICK a \in h.found :
          LET d == Listing(a)
              s == Min(FreeSlots(d))
              mem == Loaded(h.mem, a)
              made == Added(mem, a, d, {[slot |-> s, entry |-> NewEntry(name, "file")]})
          IN  /\ SlotOf(d, name) = {} /\ FreeSlots(d) # {}
              /\ disk' = [disk EXCEPT ![d][s] = NewEntry(name, "file")]
              /\ Descriptor(p, made[a].kids[name], made)
    BY Zenon DEF OpenCreate
<1> DEFINE d == Listing(a)
           s == Min(FreeSlots(d))
           mem == Loaded(h.mem, a)
           entry == NewEntry(name, "file")
           e == [slot |-> s, entry |-> entry]
           made == Added(mem, a, d, {e})
<1>3. /\ SlotOf(d, name) = {} /\ FreeSlots(d) # {} /\ disk' = Put(disk, d, s, entry)
      /\ Remember(made, Held \cup {made[a].kids[name]})
    BY <1>2 DEF Descriptor, Put
<1>4. /\ Good(h.mem, disk, call) /\ Kept(inode, h.mem) /\ DOMAIN inode \subseteq DOMAIN h.mem /\ call' = call
      /\ Cardinality(Spare(h.mem)) >= SlotsPer + 1
      /\ call' = [call EXCEPT ![p] = Idle] /\ \A m, dk : CallOk(m, dk, Idle)
      /\ \A x \in Way(path) : Pending(call, x) = {}
      /\ IsDir(h.mem, a) /\ d \in Way(path) /\ d \in Dirs
    BY OpenIs
<1>5. DiskOk(disk) /\ ~Making(call, Sub) /\ SlotsPer \in Nat /\ Cardinality(Spare(h.mem)) \in Nat
    BY BodyIs, Constants, SpareIs
<1>6. s \in SlotSet /\ ~IsUsed(disk[d][s])
    BY <1>3, <1>4, <1>5, FreeSlotIs
<1>7. entry.kind = "file" /\ entry.name = name /\ IsEntry(entry) /\ IsUsed(entry) /\ Fits(d, entry)
    BY <1>1 DEF NewEntry, IsEntry, IsUsed, Fits
<1>8. \A t \in SlotSet : IsUsed(disk[d][t]) => disk[d][t].name # name
    BY <1>3, <1>4, <1>5, DiskIs DEF SlotOf
<1>9. e.slot = s /\ e.entry = entry
    OBVIOUS
<1> HIDE DEF h, name, d, s, mem, entry, e, made
<1>10. Pending(call, d) = {} /\ Cardinality(Spare(h.mem)) >= SlotsPer
    <2>1. Pending(call, d) = {}
        BY <1>4
    <2>2. Cardinality(Spare(h.mem)) >= SlotsPer
        BY <1>4, <1>5
    <2> QED BY <2>1, <2>2
<1>11. /\ Good(mem, disk, call) /\ DOMAIN h.mem \subseteq DOMAIN mem /\ Kept(h.mem, mem)
       /\ Cardinality(Spare(mem)) >= Cardinality(Spare(h.mem)) - SlotsPer
       /\ IsDir(mem, a)
    BY <1>4, <1>5, <1>10, LoadedGood DEF mem, d
<1>12. Cardinality(Spare(mem)) >= 1 /\ Cardinality(Spare(mem)) \in Nat
    BY <1>4, <1>5, <1>11, SpareIs
<1>13. IsDir(mem, a) /\ Tree(mem) /\ a \in DOMAIN mem /\ IsInode(mem[a])
    <2>1. IsDir(mem, a)
        BY <1>4, <1>5, <1>10, LoadedGood DEF mem, d
    <2> QED BY <2>1, <1>11, DirIs DEF Good
<1>14. Entries({e}, d) /\ Fewer({e}, 1) /\ NamesOf({e}) = {name}
    BY <1>6, <1>7, <1>9, OneEntry
<1>15. PICK own : Adds(mem, made, a, d, {e}, own)
    BY <1>12, <1>13, <1>14, AddedIs DEF made
<1>16. DOMAIN mem \subseteq DOMAIN made /\ Kept(mem, made)
    BY <1>13, <1>14, <1>15, AddedTree DEF d
<1>17. Kept(inode, made)
    BY <1>4, <1>11, <1>16 DEF Kept
<1>18. DiskOk(disk')
    BY <1>3, <1>4, <1>5, <1>6, <1>7, <1>8, PutOk
<1>19. /\ disk'[d][s] = entry /\ \A t \in SlotSet \ {s} : disk'[d][t] = disk[d][t]
       /\ \A x \in Dirs \ {d} : disk'[x] = disk[x]
    <2>1. Put(disk, d, s, entry)[d][s] = entry
        BY <1>4, <1>5, <1>6, PutAt
    <2>2. \A t \in SlotSet \ {s} : Put(disk, d, s, entry)[d][t] = disk[d][t]
        BY <1>4, <1>5, <1>6, PutAt
    <2>3. \A x \in Dirs \ {d} : Put(disk, d, s, entry)[x] = disk[x]
        BY <1>4, <1>5, <1>6, PutAt
    <2> QED BY <1>3, <2>1, <2>2, <2>3
<1>20. ASSUME NEW c, IsDir(mem, c), NEW x \in DOMAIN mem[c].kids \ Pending(call, Listing(c))
       PROVE  disk'[Listing(c)][mem[mem[c].kids[x]].slot] = EntryOf(mem[mem[c].kids[x]])
    <2>1. IsChild(mem, c, x) /\ Sees(mem, disk, call, c)
        BY <1>11, <1>13, <1>20, DirIs DEF Family, Good
    <2> DEFINE n == mem[mem[c].kids[x]]
    <2>2. n.slot \in SlotSet /\ n.kind \in {"dir", "file"} /\ disk[Listing(c)][n.slot] = EntryOf(n)
        BY <1>20, <2>1 DEF IsChild, Fits, Sees, Known
    <2> HIDE DEF n
    <2>3. IsUsed(disk[Listing(c)][n.slot])
        BY <2>2 DEF EntryOf, IsUsed
    <2>4. disk'[Listing(c)][n.slot] = disk[Listing(c)][n.slot]
        BY <1>6, <1>19, <2>2, <2>3, Constants
    <2> QED BY <2>2, <2>4 DEF n
<1>21. ASSUME NEW c, IsDir(mem, c), c # a, ~Listed(call, Listing(c)), mem[c].kids # NoKids \/ Making(call, Listing(c))
       PROVE  Covers(mem, disk', c, Pending(call, Listing(c)))
    <2>1. Covers(mem, disk, c, Pending(call, Listing(c)))
        BY <1>11, <1>21, <1>13, DirIs DEF Good, Sees
    <2>2. Listing(c) # d
        BY <1>13, <1>21, OneDir DEF d
    <2>3. disk'[Listing(c)] = disk[Listing(c)]
        BY <1>19, <2>2, Constants
    <2> QED BY <2>1, <2>3 DEF Covers
<1>22. ASSUME ~Listed(call, d), NEW t \in SlotSet, IsUsed(disk'[d][t])
       PROVE  disk'[d][t].name \in DOMAIN mem[a].kids \cup NamesOf({e}) \cup Pending(call, d)
    <2>1. CASE t = s
        BY <1>7, <1>14, <1>19, <2>1
    <2>2. CASE t # s
        <3>1. Covers(mem, disk, a, {})
            BY <1>4, <1>5, <1>10, <1>22, LoadedGood DEF mem, d
        <3>2. disk'[d][t] = disk[d][t]
            BY <1>19, <2>2
        <3> QED BY <1>22, <3>1, <3>2 DEF Covers, d
    <2> QED BY <2>1, <2>2
<1>23. \A f \in {e} : disk'[d][f.slot] = f.entry
    BY <1>9, <1>19
<1>24. Good(made, disk', call)
    <2>1. OthersKnown(mem, disk', call, a, {e})
        BY <1>20 DEF OthersKnown
    <2>2. OthersCovered(mem, disk', call, a)
        BY <1>21 DEF OthersCovered
    <2>3. AddedCovers(mem, disk', call, a, {e})
        BY <1>22 DEF AddedCovers, d
    <2>4. /\ AddedKnown(disk', Listing(a), {e})
          /\ Entries({e}, Listing(a)) /\ Adds(mem, made, a, Listing(a), {e}, own)
        BY <1>14, <1>15, <1>23 DEF d, AddedKnown
    <2> QED BY <1>5, <1>13, <2>1, <2>2, <2>3, <2>4, AddedGood
<1>25. \A x \in Dirs \ Way(path) : disk'[x] = disk[x]
    BY <1>4, <1>19
<1>26. Good(made, disk', call') /\ CallOk(made, disk', Idle)
    BY <1>4, <1>24
<1> QED BY <1>3, <1>4, <1>17, <1>18, <1>25, <1>26, RememberBody

-----------------------------------------------------------------------------
(* close, lseek, write and read.                                           *)

\* A process that calls was in no call.
LEMMA ReadyIs ==
    ASSUME FilesBody, NEW p \in Processes, Ready(p)
    PROVE  /\ call[p] = Idle /\ call = [call EXCEPT ![p] = Idle] /\ \A mem, dk : CallOk(mem, dk, Idle)
           /\ \A d : ~Pends(call[p], d) /\ ~Lists(call[p], d) /\ ~Makes(call[p], d)
<1>1. call[p] = Idle /\ call = [q \in Processes |-> call[q]]
    BY BodyIs DEF Ready
<1>2. Idle.op = "idle" /\ Idle.step = 0
    BY IdleIs, Zenon
<1>3. \A d : ~Pends(call[p], d) /\ ~Lists(call[p], d) /\ ~Makes(call[p], d)
    BY <1>1, <1>2 DEF Pends, Lists, Makes
<1> QED BY <1>1, <1>3, IdleOk

\* An open descriptor has an inode of the tree.
LEMMA OpenedIs ==
    ASSUME FilesBody, ~Dangling, NEW p \in Processes, NEW i \in OpenOf(p)
    PROVE  opened[p][i].at \in DOMAIN inode /\ InTree(inode, opened[p][i].at)
<1>1. opened[p][i] \in FileDescriptors
    <2>1. i \in DOMAIN opened[p] /\ opened[p][i] # Released
        BY DEF OpenOf
    <2>2. opened[p][i] \in Range(opened[p])
        BY <2>1 DEF Range
    <2>3. opened[p][i] \in UNION {Range(opened[q]) : q \in Processes}
        BY <2>2
    <2> QED BY <2>1, <2>3, Zenon DEF FileDescriptors, In
<1>2. opened[p][i].at \in Held
    BY <1>1 DEF Held
<1> QED BY <1>2, BodyIs DEF Dangling

\* close, which may be the last thing that held an inode.
LEMMA CloseKeeps ==
    ASSUME FilesBody, NEW p \in Processes, NEW i, Close(p, i), ~Dangling', ~orphaned'
    PROVE  FilesBody'
<1>1. Ready(p) /\ disk' = disk /\ call' = call /\ \E held : Remember(inode, held)
    BY DEF Close
<1>2. PICK held : Remember(inode, held)
    BY <1>1
<1>3. call' = [call EXCEPT ![p] = Idle] /\ CallOk(inode, disk', Idle)
    BY <1>1, ReadyIs
<1>4. Good(inode, disk', call') /\ DiskOk(disk') /\ Kept(inode, inode)
    BY <1>1, BodyIs DEF Kept
<1> DEFINE dirs == {}
<1>5. (\A q \in Processes \ {p} : dirs \cap Halfway(q) = {}) /\ \A d \in Dirs \ dirs : disk'[d] = disk[d]
    BY <1>1
<1> HIDE DEF dirs
<1> QED BY <1>2, <1>3, <1>4, <1>5, RememberBody

\* The inodes and the disk are as they were, and the call goes on.
LEMMA CallGoesOn ==
    ASSUME FilesBody, NEW p \in Processes, NEW c, call' = [call EXCEPT ![p] = c], inode' = inode, disk' = disk,
           ~Dangling', CallOk(inode, disk, c),
           \A d \in Dirs : /\ ~Pends(call[p], d) /\ ~Pends(c, d) /\ (Lists(call[p], d) => Lists(c, d))
                           /\ ~Makes(c, d)
    PROVE  FilesBody'
<1>1. Good(inode, disk, call) /\ call = [q \in Processes |-> call[q]] /\ DiskOk(disk)
      /\ \A b \in DOMAIN inode : InTree(inode, b)
    BY BodyIs
<1>2. \A a : IsDir(inode, a) => ~Makes(c, Listing(a))
    BY Constants
<1> DEFINE calls == call'
<1>3. calls = [call EXCEPT ![p] = c]
    OBVIOUS
<1> HIDE DEF calls
<1>4. Good(inode, disk, calls)
    BY <1>1, <1>2, <1>3, GoodAfter
<1>5. Good(inode', disk', call') /\ (\A b \in DOMAIN inode' : InTree(inode', b)) /\ Kept(inode, inode')
      /\ CallOk(inode', disk', c) /\ DiskOk(disk')
    BY <1>1, <1>4 DEF Kept, calls
<1> DEFINE dirs == {}
<1>6. (\A q \in Processes \ {p} : dirs \cap Halfway(q) = {}) /\ \A d \in Dirs \ dirs : disk'[d] = disk[d]
    OBVIOUS
<1> HIDE DEF dirs
<1> QED BY <1>5, <1>6, StepBody

\* lseek.
LEMMA SeekKeeps ==
    ASSUME FilesBody, NEW p \in Processes, NEW i, Seek(p, i), ~Dangling'
    PROVE  FilesBody'
<1>1. Ready(p) /\ disk' = disk /\ inode' = inode /\ call' = call
    BY DEF Seek
<1>2. call' = [call EXCEPT ![p] = Idle] /\ call[p] = Idle /\ CallOk(inode, disk, Idle)
      /\ \A d : ~Pends(Idle, d) /\ ~Lists(Idle, d) /\ ~Makes(Idle, d)
    BY <1>1, ReadyIs
<1> QED BY <1>1, <1>2, CallGoesOn

\* read, until interrupts are enabled, and after.
LEMMA BeginReadKeeps ==
    ASSUME FilesBody, NEW p \in Processes, NEW i, BeginRead(p, i), ~Dangling'
    PROVE  FilesBody'
<1> DEFINE c == [Idle EXCEPT !.op = "read", !.dir = opened[p][i].at, !.fd = i]
<1>1. Ready(p) /\ disk' = disk /\ inode' = inode /\ call' = [call EXCEPT ![p] = c]
    BY DEF BeginRead, Goes
<1>2. c = [op |-> "read", dir |-> opened[p][i].at, name |-> Idle.name, fd |-> i, found |-> {}, step |-> 0]
    <2> DEFINE x == Idle
               nm == Idle.name
    <2>1. x = [op |-> "idle", dir |-> 0, name |-> nm, fd |-> 0, found |-> {}, step |-> 0]
        BY IdleIs, Zenon
    <2>2. c = [x EXCEPT !.op = "read", !.dir = opened[p][i].at, !.fd = i]
        OBVIOUS
    <2> HIDE DEF x, nm, c
    <2>3. c = [op |-> "read", dir |-> opened[p][i].at, name |-> nm, fd |-> i, found |-> {}, step |-> 0]
        BY <2>1, <2>2
    <2> QED BY <2>3 DEF nm
<1>3. /\ c.op = "read" /\ c.step = 0
      /\ c = [op |-> c.op, dir |-> c.dir, name |-> c.name, fd |-> c.fd, found |-> c.found, step |-> c.step]
    BY <1>2
<1> HIDE DEF c
<1>4. CallOk(inode, disk, c)
    BY <1>3 DEF CallOk, Mutators
<1>5. \A d : ~Pends(c, d) /\ ~Lists(c, d) /\ ~Makes(c, d)
    BY <1>3 DEF Pends, Lists, Makes
<1> QED BY <1>1, <1>4, <1>5, ReadyIs, CallGoesOn

\* The end of read moves the offset on.
LEMMA EndReadKeeps ==
    ASSUME FilesBody, NEW p \in Processes, EndRead(p), ~Dangling'
    PROVE  FilesBody'
<1>1. call[p].op = "read" /\ disk' = disk /\ inode' = inode /\ call' = [call EXCEPT ![p] = Idle]
    BY DEF EndRead, Goes
<1>2. \A d : ~Pends(call[p], d) /\ ~Lists(call[p], d)
    BY <1>1 DEF Pends, Lists, Mutators
<1>3. Idle.op = "idle"
    BY IdleIs, Zenon
<1>4. \A d : ~Pends(Idle, d) /\ ~Lists(Idle, d) /\ ~Makes(Idle, d)
    BY <1>3 DEF Pends, Lists, Makes, Mutators
<1> QED BY <1>1, <1>2, <1>4, IdleOk, CallGoesOn

\* The entry of a file's inode.
LEMMA FileIs ==
    ASSUME NEW dk, NEW mem, NEW calls, Good(mem, dk, calls), NEW b, InTree(mem, b),
           mem[b].kind = "file", Pending(calls, mem[b].dir) = {}
    PROVE  /\ IsInode(mem[b]) /\ b \in DOMAIN mem /\ mem[b].dir \in Dirs /\ mem[b].slot \in SlotSet
           /\ dk[mem[b].dir][mem[b].slot] = EntryOf(mem[b])
<1>1. Tree(mem) /\ b # RootInode /\ b \in DOMAIN mem /\ IsInode(mem[b]) /\ ~IsDir(mem, b)
    BY InTreeIs, DirIs DEF Good
<1>2. PICK c : /\ IsDir(mem, c) /\ mem[b].dir = Listing(c) /\ mem[b].name \in DOMAIN mem[c].kids
               /\ b = mem[c].kids[mem[b].name] /\ mem[b].slot \in SlotSet /\ Fits(Listing(c), mem[b])
    BY <1>1, InTreeIs
<1>3. mem[b].dir \in Dirs /\ Sees(mem, dk, calls, c)
    BY <1>1, <1>2, Constants, DirIs DEF Good
<1>4. dk[mem[b].dir][mem[b].slot] = EntryOf(mem[b])
    BY <1>2, <1>3 DEF Sees, Known
<1> QED BY <1>1, <1>2, <1>3, <1>4

\* write: the inode and its entry get the same size and first cluster.
LEMMA WriteKeeps ==
    ASSUME FilesBody, ~Dangling, NEW p \in Processes, NEW i \in OpenOf(p), Write(p, i),
           \A q \in Processes \ {p} : {inode[opened[p][i].at].dir} \cap Halfway(q) = {}, ~Dangling'
    PROVE  FilesBody'
<1> DEFINE a == opened[p][i].at
           n == inode[a]
           chain == IF n.first = 0 THEN NewChain ELSE n.first
<1>1. /\ Ready(p) /\ n.kind = "file" /\ call' = call
      /\ \E ok \in BOOLEAN :
            LET size == IF ok THEN WrittenSize(n, opened[p][i].offset + 1) ELSE n.size
                first == IF ok THEN chain ELSE n.first
            IN  /\ inode' = [inode EXCEPT ![a].first = first, ![a].size = size]
                /\ disk' = [disk EXCEPT ![n.dir][n.slot] =
                               IF ok /\ (n.first # chain \/ n.size # size)
                               THEN [kind |-> "file", name |-> n.name, first |-> first, size |-> size] ELSE @]
    BY Zenon DEF Write
<1> HIDE DEF chain
<1>2. PICK first, size :
          /\ inode' = [inode EXCEPT ![a].first = first, ![a].size = size]
          /\ \/ disk' = Put(disk, n.dir, n.slot, [kind |-> "file", name |-> n.name, first |-> first, size |-> size])
             \/ /\ disk' = Put(disk, n.dir, n.slot, disk[n.dir][n.slot])
                /\ first = n.first /\ size = n.size
    <2>1. PICK ok \in BOOLEAN :
              LET size == IF ok THEN WrittenSize(n, opened[p][i].offset + 1) ELSE n.size
                  first == IF ok THEN chain ELSE n.first
              IN  /\ inode' = [inode EXCEPT ![a].first = first, ![a].size = size]
                  /\ disk' = [disk EXCEPT ![n.dir][n.slot] =
                                 IF ok /\ (n.first # chain \/ n.size # size)
                                 THEN [kind |-> "file", name |-> n.name, first |-> first, size |-> size] ELSE @]
        BY <1>1, Zenon
    <2> DEFINE size == IF ok THEN WrittenSize(n, opened[p][i].offset + 1) ELSE n.size
               first == IF ok THEN chain ELSE n.first
    <2>2. /\ inode' = [inode EXCEPT ![a].first = first, ![a].size = size]
          /\ disk' = [disk EXCEPT ![n.dir][n.slot] =
                         IF ok /\ (n.first # chain \/ n.size # size)
                         THEN [kind |-> "file", name |-> n.name, first |-> first, size |-> size] ELSE @]
        BY <2>1, Zenon
    <2>3. ~(ok /\ (n.first # chain \/ n.size # size)) => first = n.first /\ size = n.size
        OBVIOUS
    <2> HIDE DEF size, first, n, a
    <2>4. CASE ok /\ (n.first # chain \/ n.size # size)
        <3>1. disk' = Put(disk, n.dir, n.slot, [kind |-> "file", name |-> n.name, first |-> first, size |-> size])
            BY <2>2, <2>4 DEF Put
        <3> QED BY <2>2, <3>1
    <2>5. CASE ~(ok /\ (n.first # chain \/ n.size # size))
        <3>1. disk' = Put(disk, n.dir, n.slot, disk[n.dir][n.slot])
            BY <2>2, <2>5 DEF Put
        <3> QED BY <2>2, <2>3, <2>5, <3>1
    <2> QED BY <2>4, <2>5, Zenon
<1>3. InTree(inode, a) /\ a \in DOMAIN inode
    BY OpenedIs
<1>4. DiskOk(disk) /\ Good(inode, disk, call) /\ Tree(inode) /\ \A b \in DOMAIN inode : InTree(inode, b)
    BY BodyIs
<1>5. Pending(call, n.dir) = {}
    <2> DEFINE d == n.dir
    <2>1. \A q \in Processes \ {p} : {d} \cap Halfway(q) = {}
        OBVIOUS
    <2>2. ~Pends(call[p], d)
        BY <1>1, ReadyIs, Zenon
    <2> HIDE DEF d
    <2>3. d \in {d}
        OBVIOUS
    <2>4. Pending(call, d) = {}
        BY <2>1, <2>2, <2>3, QuietIs
    <2> QED BY <2>4 DEF d
<1>6. call' = [call EXCEPT ![p] = Idle] /\ \A mem, dk : CallOk(mem, dk, Idle)
    BY <1>1, ReadyIs, Zenon
<1> HIDE DEF a
<1>7. /\ IsInode(n) /\ n.dir \in Dirs /\ n.slot \in SlotSet /\ disk[n.dir][n.slot] = EntryOf(n)
    BY <1>1, <1>3, <1>4, <1>5, FileIs
<1>8. disk' = Put(disk, n.dir, n.slot, [kind |-> "file", name |-> n.name, first |-> first, size |-> size])
    BY <1>1, <1>2, <1>7 DEF EntryOf
<1>9. inode' = Resized(inode, a, first, size)
    <2>1. [inode EXCEPT ![a].first = first, ![a].size = size] = Resized(inode, a, first, size)
        BY <1>3, <1>4 DEF Resized, Tree
    <2> QED BY <1>2, <2>1
<1>10. /\ Good(inode', disk', call) /\ DiskOk(disk') /\ Kept(inode, inode')
       /\ \A x \in DOMAIN inode' : x \in DOMAIN inode /\ (InTree(inode, x) => InTree(inode', x))
       /\ \A d \in Dirs \ {n.dir} : disk'[d] = disk[d]
    <2>1. n.kind = "file"
        BY <1>1
    <2> HIDE DEF n
    <2>2. inode[a] = n
        BY DEF n
    <2>3. DiskOk(disk) /\ Good(inode, disk, call) /\ InTree(inode, a) /\ inode[a].kind = "file"
          /\ Pending(call, inode[a].dir) = {} /\ inode' = Resized(inode, a, first, size)
          /\ disk' = Put(disk, inode[a].dir, inode[a].slot,
                         [kind |-> "file", name |-> inode[a].name, first |-> first, size |-> size])
        BY <1>3, <1>4, <1>5, <1>8, <1>9, <2>1, <2>2
    <2> QED BY <2>2, <2>3, UpdatedGood
<1>11. \A x \in DOMAIN inode' : InTree(inode', x)
    BY <1>4, <1>10
<1>12. Good(inode', disk', call') /\ CallOk(inode', disk', Idle)
    BY <1>1, <1>6, <1>10
<1>13. \A q \in Processes \ {p} : {n.dir} \cap Halfway(q) = {}
    BY DEF a
<1> HIDE DEF n
<1> QED BY <1>6, <1>10, <1>11, <1>12, <1>13, StepBody

-----------------------------------------------------------------------------
(* mkdir, unlink and rmdir.                                                *)

\* The first step of each: the path is looked up.
LEMMA BeginKeeps ==
    ASSUME FilesBody, ~Full, NEW p \in Processes, NEW op \in Mutators, NEW path \in Paths, NEW kind,
           Begin(p, op, path, kind),
           op \in {"mkdir", "rmdir"} => path = <<Sub>>, op = "unlink" => kind = "file",
           \A q \in Processes \ {p} : Way(path) \cap Halfway(q) = {}, ~Dangling', ~orphaned'
    PROVE  FilesBody'
<1> DEFINE w == Walked(path)
           h == Home(path)
           mem == IF op = "mkdir" THEN h.mem ELSE w.mem
<1>1. /\ Ready(p) /\ disk' = disk
      /\ op # "mkdir" => \E b \in w.found : w.mem[b].kind = kind
      /\ \E a \in h.found : /\ Goes(p, [Idle EXCEPT !.op = op, !.dir = a, !.name = Last(path)])
                            /\ Remember(mem, Held \cup {a})
    BY Zenon DEF Begin
<1>2. PICK a \in h.found : /\ Goes(p, [Idle EXCEPT !.op = op, !.dir = a, !.name = Last(path)])
                           /\ Remember(mem, Held \cup {a})
    BY <1>1, Zenon
<1> DEFINE c == [Idle EXCEPT !.op = op, !.dir = a, !.name = Last(path)]
<1>3. call' = [call EXCEPT ![p] = c]
    BY <1>2 DEF Goes
<1>4. c = [op |-> op, dir |-> a, name |-> Last(path), fd |-> 0, found |-> {}, step |-> 0]
    <2> DEFINE x == Idle
               nm == Idle.name
    <2>1. x = [op |-> "idle", dir |-> 0, name |-> nm, fd |-> 0, found |-> {}, step |-> 0]
        BY IdleIs, Zenon
    <2>2. c = [x EXCEPT !.op = op, !.dir = a, !.name = Last(path)]
        OBVIOUS
    <2> HIDE DEF x, nm, c
    <2> QED BY <2>1, <2>2
<1> HIDE DEF c
<1>5. /\ c.op = op /\ c.dir = a /\ c.name = Last(path) /\ c.step = 0
      /\ c = [op |-> c.op, dir |-> c.dir, name |-> c.name, fd |-> c.fd, found |-> c.found, step |-> c.step]
    BY <1>4
<1>6. /\ DiskOk(disk) /\ Good(inode, disk, call) /\ ~Making(call, Sub) /\ call = [q \in Processes |-> call[q]]
    BY BodyIs
<1>7. \A d \in Way(path) : Pending(call, d) = {}
    <2> SUFFICES ASSUME NEW d \in Way(path) PROVE Pending(call, d) = {}
        OBVIOUS
    <2>1. ~Pends(call[p], d)
        BY <1>1, ReadyIs
    <2> QED BY <2>1, QuietIs
<1>8. /\ Good(w.mem, disk, call) /\ Kept(inode, w.mem)
      /\ Good(h.mem, disk, call) /\ Kept(inode, h.mem)
      /\ \A x \in h.found : /\ IsDir(h.mem, x) /\ IsDir(w.mem, x) /\ Listing(x) \in Way(path)
                            /\ x = RootInode <=> Len(path) = 1
      /\ \A b \in w.found : \E x : /\ IsDir(w.mem, x) /\ Last(path) \in DOMAIN w.mem[x].kids
                                   /\ b = w.mem[x].kids[Last(path)] /\ Listing(x) \in Way(path)
                                   /\ x = RootInode <=> Len(path) = 1
      /\ Len(path) = 1 /\ ~Listed(call, Top) => Covers(h.mem, disk, RootInode, {})
    BY <1>6, <1>7, WalkedGood
<1> HIDE DEF w, h
<1>9. Good(mem, disk, call) /\ Kept(inode, mem) /\ IsDir(mem, a)
    BY <1>8
<1>10. op \in {"mkdir", "rmdir"} => Len(path) = 1 /\ Last(path) = Sub /\ a = RootInode
    <2> SUFFICES ASSUME path = <<Sub>> PROVE Len(path) = 1 /\ Last(path) = Sub /\ a = RootInode
        OBVIOUS
    <2>1. Len(path) = 1
        OBVIOUS
    <2>2. Last(path) = Sub
        BY DEF Last
    <2>3. a = RootInode
        BY <1>8, <2>1
    <2> QED BY <2>1, <2>2, <2>3
<1>11. op = "unlink" => ~(a = RootInode /\ Last(path) = Sub)
    <2> SUFFICES ASSUME op = "unlink", a = RootInode, Last(path) = Sub PROVE FALSE
        OBVIOUS
    <2>1. PICK b \in w.found : w.mem[b].kind = "file"
        BY <1>1
    <2>2. Len(path) = 1
        BY <1>8
    <2>3. Sub \in DOMAIN w.mem[RootInode].kids /\ b = w.mem[RootInode].kids[Sub]
        BY <1>8, <2>2
    <2>4. IsDir(w.mem, b) /\ Tree(w.mem)
        BY <1>8, <2>3 DEF IsDir, Good
    <2> QED BY <2>1, <2>4, DirIs
<1>12. CallOk(mem, disk, c)
    <2> HIDE DEF mem
    <2>1. c.op \in Mutators /\ c.op # "read" /\ c.op # "list" /\ c.step = 0 /\ IsDir(mem, c.dir)
        BY <1>5, <1>9 DEF Mutators
    <2>2. c.op \in {"mkdir", "rmdir"} => c.dir = RootInode /\ c.name = Sub
        BY <1>5, <1>10
    <2>3. c.op = "unlink" => ~(c.dir = RootInode /\ c.name = Sub)
        BY <1>5, <1>11
    <2> QED BY <1>5, <2>1, <2>2, <2>3 DEF CallOk
<1>13. \A d : ~Pends(call[p], d) /\ ~Pends(c, d) /\ ~Lists(call[p], d)
    <2>1. \A d : ~Pends(c, d)
        BY <1>5 DEF Pends
    <2> QED BY <1>1, <2>1, ReadyIs
<1>14. ASSUME NEW x, IsDir(mem, x), Makes(c, Listing(x))
       PROVE  Listed(call, Listing(x)) \/ Covers(mem, disk, x, Pending(call, Listing(x)))
    <2>1. op = "mkdir" /\ Listing(x) = Listing(a) /\ mem = h.mem
        BY <1>5, <1>14 DEF Makes
    <2>2. Len(path) = 1 /\ a = RootInode /\ Listing(x) = Top /\ Top \in Way(path)
        BY <1>10, <2>1, Constants DEF Way
    <2>3. x = RootInode
        BY <2>2, Constants
    <2>4. Pending(call, Top) = {}
        BY <1>7, <2>2
    <2> QED BY <1>8, <2>1, <2>2, <2>3, <2>4
<1> DEFINE calls == call'
<1>15. calls = [call EXCEPT ![p] = c]
    BY <1>3
<1> HIDE DEF calls, mem
<1>16. Remember(mem, Held \cup {a}) /\ Good(mem, disk, call) /\ Kept(inode, mem)
    BY <1>2, <1>9
<1>17. Good(mem, disk, calls)
    BY <1>6, <1>13, <1>14, <1>15, <1>16, GoodAfter
<1>18. Good(mem, disk', call') /\ CallOk(mem, disk', c) /\ DiskOk(disk') /\ \A d \in Dirs \ Way(path) : disk'[d] = disk[d]
    BY <1>1, <1>6, <1>12, <1>17 DEF calls
<1> QED BY <1>3, <1>16, <1>18, RememberBody

\* The three calls.
LEMMA BeginsKeep ==
    ASSUME FilesBody, ~Full, NEW p \in Processes, NEW dirs, NEW path \in Paths,
           \/ dirs = Way(path) /\ BeginUnlink(p, path)
           \/ dirs = {Top} /\ BeginMkdir(p)
           \/ dirs = {Top, Sub} /\ BeginRmdir(p),
           \A q \in Processes \ {p} : dirs \cap Halfway(q) = {}, ~Dangling', ~orphaned'
    PROVE  FilesBody'
<1>1. <<Sub>> \in Paths /\ Way(<<Sub>>) = {Top}
    <2>1. Len(<<Sub>>) = 1
        OBVIOUS
    <2> QED BY <2>1 DEF Paths, Way
<1>2. CASE dirs = Way(path) /\ BeginUnlink(p, path)
    <2>1. "unlink" \in Mutators /\ Begin(p, "unlink", path, "file")
        BY <1>2 DEF BeginUnlink, Mutators
    <2>2. \A q \in Processes \ {p} : Way(path) \cap Halfway(q) = {}
        BY <1>2
    <2> QED BY <2>1, <2>2, BeginKeeps
<1>3. CASE dirs = {Top} /\ BeginMkdir(p)
    <2>1. "mkdir" \in Mutators /\ Begin(p, "mkdir", <<Sub>>, "dir")
        BY <1>3 DEF BeginMkdir, Mutators
    <2>2. \A q \in Processes \ {p} : Way(<<Sub>>) \cap Halfway(q) = {}
        BY <1>1, <1>3
    <2> QED BY <1>1, <2>1, <2>2, BeginKeeps
<1>4. CASE dirs = {Top, Sub} /\ BeginRmdir(p)
    <2>1. "rmdir" \in Mutators /\ Begin(p, "rmdir", <<Sub>>, "dir")
        BY <1>4 DEF BeginRmdir, Mutators
    <2>2. \A q \in Processes \ {p} : Way(<<Sub>>) \cap Halfway(q) = {}
        BY <1>1, <1>4
    <2> QED BY <1>1, <2>1, <2>2, BeginKeeps
<1> QED BY <1>2, <1>3, <1>4

\* What is true of a call that is about to change the disk.
LEMMA MutatorIs ==
    ASSUME FilesBody, NEW p \in Processes, call[p].op \in Mutators,
           \A q \in Processes \ {p} : Scope(call[p]) \cap Halfway(q) = {}
    PROVE  LET c == call[p]  d == Listing(c.dir) IN
           /\ c = [op |-> c.op, dir |-> c.dir, name |-> c.name, fd |-> c.fd, found |-> c.found, step |-> c.step]
           /\ IsDir(inode, c.dir) /\ d \in Dirs /\ d \in Scope(c) /\ ~Lists(c, d) /\ c.op # "list" /\ c.op # "read"
           /\ c.op \in {"mkdir", "rmdir"} => c.dir = RootInode /\ c.name = Sub /\ d = Top /\ Scope(c) = {Top, Sub}
           /\ c.op = "unlink" => ~(c.dir = RootInode /\ c.name = Sub)
           /\ c.step = 0 => \A x \in Scope(c) : Pending(call, x) = {}
<1> DEFINE c == call[p]
           d == Listing(c.dir)
<1>1. CallOk(inode, disk, c) /\ c.op \in Mutators
    BY BodyIs
<1>2. c.op # "list" /\ c.op # "read"
    BY <1>1 DEF Mutators
<1>3. d \in Dirs /\ d \in Scope(c)
    BY Constants DEF Scope
<1>4. ASSUME c.step = 0, NEW x \in Scope(c) PROVE Pending(call, x) = {}
    <2>1. ~Pends(call[p], x)
        BY <1>4 DEF Pends
    <2> QED BY <2>1, QuietIs
<1>5. c.op \in {"mkdir", "rmdir"} => c.dir = RootInode /\ c.name = Sub /\ d = Top /\ Scope(c) = {Top, Sub}
    <2> SUFFICES ASSUME c.op \in {"mkdir", "rmdir"}
                 PROVE  c.dir = RootInode /\ c.name = Sub /\ d = Top /\ Scope(c) = {Top, Sub}
        OBVIOUS
    <2>1. c.dir = RootInode /\ c.name = Sub
        BY <1>1 DEF CallOk
    <2> QED BY <2>1, Constants DEF Scope
<1>6. ~Lists(c, d)
    BY <1>2 DEF Lists
<1>7. /\ c = [op |-> c.op, dir |-> c.dir, name |-> c.name, fd |-> c.fd, found |-> c.found, step |-> c.step]
      /\ c.op = "unlink" => ~(c.dir = RootInode /\ c.name = Sub)
      /\ IsDir(inode, c.dir)
    BY <1>1 DEF CallOk
<1> HIDE DEF c, d
<1> QED BY <1>2, <1>3, <1>4, <1>5, <1>6, <1>7, Zenon DEF c, d

\* The disk does not let it.
LEMMA FailsKeeps ==
    ASSUME FilesBody, NEW p \in Processes, call[p].op \in Mutators, call[p].step = 0,
           Fails(p), inode' = inode, ~Dangling'
    PROVE  FilesBody'
<1>1. disk' = disk /\ call' = [call EXCEPT ![p] = Idle]
    BY DEF Fails, Goes
<1>2. \A d : ~Pends(call[p], d) /\ ~Lists(call[p], d)
    BY DEF Pends, Lists, Mutators
<1>3. Idle.op = "idle"
    BY IdleIs, Zenon
<1>4. \A d : ~Pends(Idle, d) /\ ~Lists(Idle, d) /\ ~Makes(Idle, d)
    BY <1>3 DEF Pends, Lists, Makes, Mutators
<1> QED BY <1>1, <1>2, <1>4, IdleOk, CallGoesOn

\* A directory is emptied.
Emptied(dk) == [dk EXCEPT ![Sub] = [s \in 1 .. SlotsPer |-> Free]]

\* The rest of the disk is as it was.
LEMMA EmptiedIs ==
    ASSUME NEW dk, DiskOk(dk), NEW dk2, dk2 = Emptied(dk)
    PROVE  DiskOk(dk2) /\ dk2[Top] = dk[Top]
<1> DEFINE none == [s \in SlotSet |-> Free]
<1>1. Free.kind = "free"
    BY Zenon DEF Free
<1>2. ~IsUsed(Free)
    BY <1>1 DEF IsUsed
<1>3. dk = [d \in Dirs |-> [s \in SlotSet |-> dk[d][s]]]
    BY DEF DiskOk
<1>4. DOMAIN dk = Dirs /\ Sub \in Dirs /\ Top \in Dirs /\ Top # Sub
    BY <1>3, Constants DEF Dirs
<1>5. dk2 = [dk EXCEPT ![Sub] = none]
    BY DEF Emptied, SlotSet
<1>6. none = [s \in SlotSet |-> none[s]] /\ \A s \in SlotSet : none[s] = Free
    OBVIOUS
<1> HIDE DEF none
<1>7. dk2 = [d \in Dirs |-> dk2[d]] /\ dk2[Sub] = none /\ \A d \in Dirs \ {Sub} : dk2[d] = dk[d]
    BY <1>4, <1>5
<1>8. \A d \in Dirs : dk[d] = [s \in SlotSet |-> dk[d][s]]
    BY <1>3
<1>9. \A d \in Dirs : dk2[d] = [s \in SlotSet |-> dk2[d][s]]
    BY <1>6, <1>7, <1>8
<1>10. dk2 = [d \in Dirs |-> [s \in SlotSet |-> dk2[d][s]]]
    BY <1>7, <1>9, Zenon
<1>11. ASSUME NEW d \in Dirs, NEW s \in SlotSet, IsUsed(dk2[d][s])
       PROVE  /\ IsEntry(dk2[d][s]) /\ Fits(d, dk2[d][s])
              /\ \A t \in SlotSet : IsUsed(dk2[d][t]) /\ dk2[d][t].name = dk2[d][s].name => t = s
    <2>1. d # Sub
        BY <1>2, <1>6, <1>7, <1>11
    <2>2. dk2[d] = dk[d]
        BY <1>7, <2>1
    <2> QED BY <1>11, <2>2, Zenon DEF DiskOk
<1> QED BY <1>4, <1>7, <1>10, <1>11 DEF DiskOk

\* mkdir on the disk.
LEMMA MakeKeeps ==
    ASSUME FilesBody, NEW p \in Processes, call[p].op = "mkdir", call[p].step = 0,
           \A q \in Processes \ {p} : Scope(call[p]) \cap Halfway(q) = {},
           SlotOf(Top, Sub) = {}, FreeSlots(Top) # {},
           NEW f, f = Min(FreeSlots(Top)), disk' = Emptied(Put(disk, Top, f, NewEntry(Sub, "dir"))),
           call' = [call EXCEPT ![p] = [call[p] EXCEPT !.step = 1, !.fd = f]],
           inode' = inode, ~Dangling'
    PROVE  FilesBody'
<1> DEFINE c == call[p]
           c2 == [c EXCEPT !.step = 1, !.fd = f]
           entry == NewEntry(Sub, "dir")
           mid == Put(disk, Top, f, entry)
           calls == call'
<1>1. /\ DiskOk(disk) /\ Good(inode, disk, call) /\ Tree(inode) /\ call = [q \in Processes |-> call[q]]
      /\ \A b \in DOMAIN inode : InTree(inode, b)
      /\ \A a : IsDir(inode, a) => Sees(inode, disk, call, a)
    BY BodyIs
<1>2. /\ c = [op |-> c.op, dir |-> c.dir, name |-> c.name, fd |-> c.fd, found |-> c.found, step |-> c.step]
      /\ c.dir = RootInode /\ c.name = Sub /\ Scope(c) = {Top, Sub} /\ c.op = "mkdir"
      /\ Pending(call, Top) = {}
    <2>1. call[p].op \in Mutators /\ call[p].op \in {"mkdir", "rmdir"}
        BY DEF Mutators
    <2>2. /\ c = [op |-> c.op, dir |-> c.dir, name |-> c.name, fd |-> c.fd, found |-> c.found, step |-> c.step]
          /\ c.dir = RootInode /\ c.name = Sub /\ Scope(c) = {Top, Sub}
          /\ \A x \in Scope(c) : Pending(call, x) = {}
        BY <2>1, MutatorIs, Zenon
    <2> QED BY <2>2
<1>3. c2 = [c EXCEPT !.step = 1, !.fd = f] /\ calls = [call EXCEPT ![p] = c2]
    OBVIOUS
<1>4. Top \in Dirs /\ Listing(RootInode) = Top /\ Dirs = {Top, Sub}
    BY Constants DEF Dirs
<1>5. f \in SlotSet /\ ~IsUsed(disk[Top][f])
    BY <1>1, <1>4, FreeSlotIs
<1>6. IsEntry(entry) /\ Fits(Top, entry) /\ IsUsed(entry) /\ entry.name = Sub
    BY DEF NewEntry, IsEntry, Fits, IsUsed
<1>7. \A t \in SlotSet : IsUsed(disk[Top][t]) => disk[Top][t].name # Sub
    BY <1>1, <1>4, DiskIs DEF SlotOf
<1>8. disk' = Emptied(mid)
    OBVIOUS
<1> HIDE DEF c, c2, mid, entry, calls
<1>9. DiskOk(mid)
    BY <1>1, <1>4, <1>5, <1>6, <1>7, PutOk DEF mid
<1>10. mid[Top][f] = entry /\ \A t \in SlotSet \ {f} : mid[Top][t] = disk[Top][t]
    <2>1. mid[Top][f] = entry
        BY <1>1, <1>4, <1>5, PutAt DEF mid
    <2>2. \A t \in SlotSet \ {f} : mid[Top][t] = disk[Top][t]
        BY <1>1, <1>4, <1>5, PutAt DEF mid
    <2> QED BY <2>1, <2>2
<1>11. DiskOk(disk') /\ disk'[Top] = mid[Top]
    BY <1>8, <1>9, EmptiedIs
<1>12. disk'[Top][f] = entry /\ \A t \in SlotSet \ {f} : disk'[Top][t] = disk[Top][t]
    BY <1>10, <1>11
<1>13. /\ c2.op = "mkdir" /\ c2.dir = RootInode /\ c2.name = Sub /\ c2.step = 1 /\ c2.fd = f
       /\ c2 = [op |-> c2.op, dir |-> c2.dir, name |-> c2.name, fd |-> c2.fd, found |-> c2.found, step |-> c2.step]
    BY <1>2, <1>3
<1>14. IsDir(inode, RootInode) /\ Family(inode, RootInode) /\ Sees(inode, disk, call, RootInode)
    BY <1>1, DirIs
<1>15. ASSUME NEW x \in DOMAIN inode[RootInode].kids
       PROVE  LET n == inode[inode[RootInode].kids[x]] IN
              n.slot \in SlotSet /\ disk[Top][n.slot] = EntryOf(n) /\ IsUsed(disk[Top][n.slot]) /\ disk[Top][n.slot].name = x
    <2> DEFINE n == inode[inode[RootInode].kids[x]]
    <2>1. IsChild(inode, RootInode, x)
        BY <1>14 DEF Family
    <2>2. n.slot \in SlotSet /\ n.kind \in {"dir", "file"} /\ n.name = x
        BY <2>1 DEF IsChild, Fits
    <2>3. disk[Top][n.slot] = EntryOf(n)
        BY <1>2, <1>4, <1>14 DEF Sees, Known
    <2> QED BY <2>2, <2>3 DEF EntryOf, IsUsed
<1>16. \A a : IsDir(inode, a) => a = RootInode
    BY <1>7, <1>15 DEF IsDir
<1>17. Pending(calls, Top) = {Sub}
    <2>1. Pends(c2, Top)
        BY <1>4, <1>13 DEF Pends, Mutators
    <2>2. Top \in Scope(c) /\ \A q \in Processes \ {p} : Scope(c) \cap Halfway(q) = {}
        BY <1>2 DEF c
    <2> QED BY <1>1, <1>3, <1>13, <2>1, <2>2, QuietAfter
<1>18. Known(inode, disk', RootInode, {Sub})
    BY <1>4, <1>5, <1>12, <1>15 DEF Known
<1>19. ASSUME ~Listed(calls, Top) PROVE Covers(inode, disk', RootInode, {Sub})
    <2>1. ~Lists(call[p], Top)
        BY <1>2 DEF Lists, c
    <2>2. ~Listed(call, Top)
        BY <1>1, <1>3, <1>19, <2>1, PendingAfter
    <2>3. Making(call, Top)
        BY <1>2, <1>4 DEF Making, c
    <2>4. Covers(inode, disk, RootInode, {})
        BY <1>2, <1>4, <1>14, <2>2, <2>3 DEF Sees
    <2>5. \A s \in SlotSet : IsUsed(disk'[Top][s]) => disk'[Top][s].name \in DOMAIN inode[RootInode].kids \cup {Sub}
        BY <1>4, <1>6, <1>12, <2>4 DEF Covers
    <2> QED BY <1>4, <2>5 DEF Covers
<1>20. Sees(inode, disk', calls, RootInode)
    BY <1>4, <1>17, <1>18, <1>19 DEF Sees
<1>21. Good(inode', disk', call')
    BY <1>1, <1>16, <1>20 DEF Good, calls
<1>22. CallOk(inode', disk', c2)
    BY <1>5, <1>12, <1>13, <1>14 DEF CallOk, Mutators, entry
<1>23. \A d \in Dirs \ Scope(c) : disk'[d] = disk[d]
    BY <1>2, <1>4
<1>24. (\A b \in DOMAIN inode' : InTree(inode', b)) /\ Kept(inode, inode')
    BY <1>1 DEF Kept
<1> QED BY <1>3, <1>11, <1>21, <1>22, <1>23, <1>24, StepBody DEF calls, c

\* unlink and rmdir on the disk.
LEMMA RemoveKeeps ==
    ASSUME FilesBody, NEW p \in Processes, call[p].op \in {"unlink", "rmdir"}, call[p].step = 0,
           \A q \in Processes \ {p} : Scope(call[p]) \cap Halfway(q) = {},
           NEW d, d = Listing(call[p].dir), NEW x \in SlotOf(d, call[p].name), disk' = Put(disk, d, x, Free),
           call' = [call EXCEPT ![p] = [call[p] EXCEPT !.step = 1]],
           inode' = inode, ~Dangling'
    PROVE  FilesBody'
<1> DEFINE c == call[p]
           c2 == [c EXCEPT !.step = 1]
           calls == call'
<1>1. /\ DiskOk(disk) /\ Good(inode, disk, call) /\ Tree(inode) /\ call = [q \in Processes |-> call[q]]
      /\ \A b \in DOMAIN inode : InTree(inode, b)
      /\ \A a : IsDir(inode, a) => Sees(inode, disk, call, a)
    BY BodyIs
<1>2. /\ c = [op |-> c.op, dir |-> c.dir, name |-> c.name, fd |-> c.fd, found |-> c.found, step |-> c.step]
      /\ IsDir(inode, c.dir) /\ d \in Dirs /\ d \in Scope(c) /\ c.op \in {"unlink", "rmdir"} /\ c.step = 0
      /\ d = Listing(c.dir)
      /\ c.op = "rmdir" => c.dir = RootInode /\ c.name = Sub
      /\ c.op = "unlink" => ~(c.dir = RootInode /\ c.name = Sub)
      /\ Pending(call, d) = {}
    <2>1. call[p].op \in Mutators
        BY DEF Mutators
    <2>2. /\ c = [op |-> c.op, dir |-> c.dir, name |-> c.name, fd |-> c.fd, found |-> c.found, step |-> c.step]
          /\ IsDir(inode, c.dir) /\ d \in Dirs /\ d \in Scope(c)
          /\ c.op \in {"mkdir", "rmdir"} => c.dir = RootInode /\ c.name = Sub
          /\ c.op = "unlink" => ~(c.dir = RootInode /\ c.name = Sub)
          /\ \A y \in Scope(c) : Pending(call, y) = {}
        BY <2>1, MutatorIs, Zenon
    <2> QED BY <2>2
<1>3. c2 = [c EXCEPT !.step = 1] /\ calls = [call EXCEPT ![p] = c2]
    OBVIOUS
<1>4. /\ x \in SlotSet /\ IsUsed(disk[d][x]) /\ disk[d][x].name = c.name
      /\ \A t \in SlotSet : IsUsed(disk[d][t]) /\ disk[d][t].name = c.name => t = x
    <2>1. x \in SlotSet /\ IsUsed(disk[d][x]) /\ disk[d][x].name = c.name
        BY <1>1, <1>2, DiskIs DEF SlotOf
    <2> QED BY <1>1, <1>2, <2>1 DEF DiskOk
<1>5. ~IsUsed(Free)
    <2>1. Free.kind = "free"
        BY Zenon DEF Free
    <2> QED BY <2>1 DEF IsUsed
<1> HIDE DEF c, c2, calls
<1>6. DiskOk(disk')
    BY <1>1, <1>2, <1>4, <1>5, PutOk
<1>7. /\ disk'[d][x] = Free /\ \A t \in SlotSet \ {x} : disk'[d][t] = disk[d][t]
      /\ \A y \in Dirs \ {d} : disk'[y] = disk[y]
    <2>1. Put(disk, d, x, Free)[d][x] = Free
        BY <1>1, <1>2, <1>4, PutAt
    <2>2. \A t \in SlotSet \ {x} : Put(disk, d, x, Free)[d][t] = disk[d][t]
        BY <1>1, <1>2, <1>4, PutAt
    <2>3. \A y \in Dirs \ {d} : Put(disk, d, x, Free)[y] = disk[y]
        BY <1>1, <1>2, <1>4, PutAt
    <2> QED BY <2>1, <2>2, <2>3
<1>8. /\ c2.op = c.op /\ c2.dir = c.dir /\ c2.name = c.name /\ c2.step = 1
      /\ c2 = [op |-> c2.op, dir |-> c2.dir, name |-> c2.name, fd |-> c2.fd, found |-> c2.found, step |-> c2.step]
    BY <1>2, <1>3
<1>9. ~Lists(c, d) /\ ~Makes(c2, d) /\ \A y : ~Pends(c, y) /\ ~Lists(c, y) /\ ~Makes(c2, y) /\ (Pends(c2, y) <=> y = d)
    BY <1>2, <1>8 DEF Lists, Makes, Pends, Mutators
<1>10. Pending(calls, d) = {c.name}
    <2>1. \A q \in Processes \ {p} : Scope(c) \cap Halfway(q) = {}
        BY DEF c
    <2> QED BY <1>1, <1>2, <1>3, <1>8, <1>9, <2>1, QuietAfter
<1>11. \A y : ~Listed(calls, y) /\ (inode[c.dir].kids # NoKids \/ Making(calls, y)) =>
              ~Listed(call, y) /\ (inode[c.dir].kids # NoKids \/ Making(call, y))
    BY <1>1, <1>3, <1>9, PendingAfter DEF c
<1>12. Sees(inode, disk', calls, c.dir)
    <2>1. Sees(inode, disk, call, c.dir) /\ Family(inode, c.dir)
        BY <1>1, <1>2, DirIs
    <2>2. ASSUME NEW y \in DOMAIN inode[c.dir].kids \ {c.name}
          PROVE  disk'[d][inode[inode[c.dir].kids[y]].slot] = EntryOf(inode[inode[c.dir].kids[y]])
        <3> DEFINE n == inode[inode[c.dir].kids[y]]
        <3>1. IsChild(inode, c.dir, y)
            BY <2>1, <2>2 DEF Family
        <3>2. n.slot \in SlotSet /\ n.name = y
            BY <3>1 DEF IsChild
        <3>3. disk[d][n.slot] = EntryOf(n)
            BY <1>2, <2>1, <2>2 DEF Sees, Known
        <3> HIDE DEF n
        <3>4. disk[d][n.slot].name = y
            BY <3>2, <3>3 DEF EntryOf
        <3> QED BY <1>4, <1>7, <2>2, <3>2, <3>3, <3>4 DEF n
    <2>3. Known(inode, disk', c.dir, {c.name})
        BY <1>2, <2>2 DEF Known
    <2>4. Covers(inode, disk, c.dir, {}) => Covers(inode, disk', c.dir, {c.name})
        BY <1>2, <1>5, <1>7 DEF Covers
    <2> QED BY <1>2, <1>10, <1>11, <2>1, <2>3, <2>4 DEF Sees
<1>13. ASSUME NEW a, IsDir(inode, a), a # c.dir
       PROVE  Sees(inode, disk', calls, a)
    <2>1. Sees(inode, disk, call, a) /\ Listing(a) # d /\ Listing(a) \in Dirs
        BY <1>1, <1>2, <1>13, OneDir, Constants
    <2>2. disk'[Listing(a)] = disk[Listing(a)]
        BY <1>7, <2>1
    <2>3. /\ Pending(calls, Listing(a)) = Pending(call, Listing(a))
          /\ Listed(call, Listing(a)) => Listed(calls, Listing(a))
          /\ Making(calls, Listing(a)) => Making(call, Listing(a))
        <3>1. ~Pends(call[p], Listing(a)) /\ ~Lists(call[p], Listing(a)) /\ ~Pends(c2, Listing(a)) /\ ~Makes(c2, Listing(a))
            BY <1>9, <2>1 DEF c
        <3> QED BY <1>1, <1>3, <3>1, PendingAfter
    <2>4. Known(inode, disk', a, Pending(calls, Listing(a)))
        BY <2>1, <2>2, <2>3 DEF Sees, Known
    <2>5. Covers(inode, disk, a, Pending(call, Listing(a))) => Covers(inode, disk', a, Pending(calls, Listing(a)))
        BY <2>2, <2>3 DEF Covers
    <2> QED BY <2>1, <2>3, <2>4, <2>5 DEF Sees
<1>14. Good(inode', disk', call')
    BY <1>1, <1>12, <1>13 DEF Good, calls
<1>15. \A s \in SlotSet : IsUsed(disk'[d][s]) => disk'[d][s].name # c.name
    BY <1>4, <1>5, <1>7
<1>16. CallOk(inode', disk', c2)
    BY <1>2, <1>8, <1>15 DEF CallOk, Mutators
<1>17. \A y \in Dirs \ Scope(c) : disk'[y] = disk[y]
    BY <1>2, <1>7
<1>18. (\A b \in DOMAIN inode' : InTree(inode', b)) /\ Kept(inode, inode')
    BY <1>1 DEF Kept
<1> QED BY <1>3, <1>6, <1>14, <1>16, <1>17, <1>18, StepBody DEF calls, c

\* The second step of the three.
LEMMA OnDiskKeeps ==
    ASSUME FilesBody, NEW p \in Processes, OnDisk(p),
           \A q \in Processes \ {p} : Scope(call[p]) \cap Halfway(q) = {}, ~Dangling'
    PROVE  FilesBody'
<1> DEFINE c == call[p]
           d == Listing(c.dir)
           f == Min(FreeSlots(d))
           emptied == [s2 \in 1 .. SlotsPer |-> Free]
<1>1. c.op \in Mutators /\ c.step = 0 /\ inode' = inode
    BY DEF OnDisk, Mutators
<1>2. \/ /\ c.op = "mkdir" /\ SlotOf(d, c.name) = {} /\ FreeSlots(d) # {}
         /\ disk' = [disk EXCEPT ![d][f] = NewEntry(c.name, "dir"), ![Sub] = emptied]
         /\ Goes(p, [c EXCEPT !.step = 1, !.fd = f])
      \/ /\ c.op \in {"unlink", "rmdir"}
         /\ \E x \in SlotOf(d, c.name) : disk' = [disk EXCEPT ![d][x] = Free]
         /\ Goes(p, [c EXCEPT !.step = 1])
      \/ Fails(p)
    BY Zenon DEF OnDisk
<1>3. CASE Fails(p)
    BY <1>1, <1>3, FailsKeeps
<1>4. CASE /\ c.op = "mkdir" /\ SlotOf(d, c.name) = {} /\ FreeSlots(d) # {}
           /\ disk' = [disk EXCEPT ![d][f] = NewEntry(c.name, "dir"), ![Sub] = emptied]
           /\ Goes(p, [c EXCEPT !.step = 1, !.fd = f])
    <2>1. c.name = Sub /\ d = Top
        BY <1>1, <1>4, MutatorIs, Zenon
    <2>2. disk' = Emptied(Put(disk, Top, f, NewEntry(Sub, "dir")))
        BY <1>4, <2>1, Zenon DEF Emptied, Put
    <2>3. call' = [call EXCEPT ![p] = [call[p] EXCEPT !.step = 1, !.fd = f]]
        BY <1>4 DEF Goes
    <2>4. f = Min(FreeSlots(Top)) /\ SlotOf(Top, Sub) = {} /\ FreeSlots(Top) # {}
        BY <1>4, <2>1
    <2>5. call[p].op = "mkdir" /\ call[p].step = 0 /\ inode' = inode
        BY <1>1, <1>4
    <2> HIDE DEF f, c, d, emptied
    <2> QED BY <2>2, <2>3, <2>4, <2>5, MakeKeeps, Zenon
<1>5. CASE /\ c.op \in {"unlink", "rmdir"}
           /\ \E x \in SlotOf(d, c.name) : disk' = [disk EXCEPT ![d][x] = Free]
           /\ Goes(p, [c EXCEPT !.step = 1])
    <2>1. PICK x \in SlotOf(d, c.name) : disk' = [disk EXCEPT ![d][x] = Free]
        BY <1>5
    <2>2. disk' = Put(disk, d, x, Free)
        BY <2>1, Zenon DEF Put
    <2>3. call' = [call EXCEPT ![p] = [call[p] EXCEPT !.step = 1]]
        BY <1>5 DEF Goes
    <2> QED BY <1>1, <1>5, <2>2, <2>3, RemoveKeeps
<1> QED BY <1>2, <1>3, <1>4, <1>5

-----------------------------------------------------------------------------
(* Dentries that are taken out, and the ends of calls.                     *)

\* Of the dentries of a only those in K are left; the inodes of the others
\* are freed.
Shrinks(mem, new, a, K) ==
    /\ K \subseteq DOMAIN mem[a].kids
    /\ new = [b \in DOMAIN mem \ {mem[a].kids[x] : x \in DOMAIN mem[a].kids \ K} |-> new[b]]
    /\ \A b \in DOMAIN new \ {a} : new[b] = mem[b]
    /\ a \in DOMAIN new => new[a] = [mem[a] EXCEPT !.kids = [x \in K |-> mem[a].kids[x]]]

\* What is left is a tree.
LEMMA ShrunkTree ==
    ASSUME NEW mem, Tree(mem), NEW a, IsDir(mem, a), NEW K, NEW new, Shrinks(mem, new, a, K)
    PROVE  /\ Tree(new) /\ Kept(mem, new) /\ IsDir(new, a) /\ DOMAIN new[a].kids = K
           /\ \A c : IsDir(new, c) => IsDir(mem, c) /\ (c # a => new[c].kids = mem[c].kids)
           /\ \A c : IsDir(new, c) => \A x \in DOMAIN new[c].kids :
                 /\ x \in DOMAIN mem[c].kids
                 /\ EntryOf(new[new[c].kids[x]]) = EntryOf(mem[mem[c].kids[x]])
                 /\ new[new[c].kids[x]].slot = mem[mem[c].kids[x]].slot
<1> DEFINE freed == {mem[a].kids[x] : x \in DOMAIN mem[a].kids \ K}
           kids == [x \in K |-> mem[a].kids[x]]
<1>1. /\ K \subseteq DOMAIN mem[a].kids
      /\ new = [b \in DOMAIN mem \ freed |-> new[b]]
      /\ \A b \in DOMAIN new \ {a} : new[b] = mem[b]
      /\ a \in DOMAIN new => new[a] = [mem[a] EXCEPT !.kids = kids]
    BY DEF Shrinks
<1>2. /\ RootInode \in DOMAIN mem /\ IsDir(mem, RootInode)
      /\ \A c : IsDir(mem, c) =>
            c \in DOMAIN mem /\ IsInode(mem[c]) /\ mem[c].kind = "dir" /\ IsMap(mem[c].kids) /\ Family(mem, c)
    BY DirIs
<1>3. \A b \in freed : \E y \in DOMAIN mem[a].kids \ K : b = mem[a].kids[y]
    OBVIOUS
<1>4. DOMAIN kids = K /\ IsMap(kids) /\ \A x \in K : kids[x] = mem[a].kids[x]
    BY DEF IsMap
<1> HIDE DEF freed, kids
\* A child of another directory, or one that is left, is not freed.
<1>5. ASSUME NEW c, IsDir(mem, c), NEW x \in DOMAIN mem[c].kids, c # a \/ x \in K
      PROVE  IsChild(mem, c, x) /\ mem[c].kids[x] \notin freed /\ mem[c].kids[x] \in DOMAIN mem
    <2>1. IsChild(mem, c, x)
        BY <1>2, <1>5 DEF Family
    <2>2. ASSUME mem[c].kids[x] \in freed PROVE FALSE
        <3>1. PICK y \in DOMAIN mem[a].kids \ K : mem[c].kids[x] = mem[a].kids[y]
            BY <1>3, <2>2
        <3>2. IsChild(mem, a, y)
            BY <1>2 DEF Family
        <3>3. x = y /\ Listing(c) = Listing(a)
            BY <2>1, <3>1, <3>2 DEF IsChild
        <3>4. c = a
            BY <1>5, <3>3, OneDir
        <3> QED BY <1>5, <3>1, <3>3, <3>4
    <2>3. mem[c].kids[x] \in DOMAIN mem
        BY <2>1 DEF IsChild
    <2> QED BY <2>1, <2>2, <2>3
<1>6. RootInode \notin freed
    <2> SUFFICES ASSUME RootInode \in freed PROVE FALSE
        OBVIOUS
    <2>1. PICK y \in DOMAIN mem[a].kids \ K : RootInode = mem[a].kids[y]
        BY <1>3
    <2>2. IsChild(mem, a, y)
        BY <1>2 DEF Family
    <2> QED BY <2>1, <2>2 DEF IsChild
<1>7. a \notin freed
    <2>1. CASE a = RootInode
        BY <1>6, <2>1
    <2>2. CASE a # RootInode
        <3>1. Sub \in DOMAIN mem[RootInode].kids /\ a = mem[RootInode].kids[Sub]
            BY <2>2 DEF IsDir
        <3> QED BY <1>2, <1>5, <2>2, <3>1
    <2> QED BY <2>1, <2>2
<1>8. DOMAIN new = DOMAIN mem \ freed /\ a \in DOMAIN new /\ RootInode \in DOMAIN new
    BY <1>1, <1>2, <1>6, <1>7
<1>9. /\ IsInode(new[a]) /\ new[a].kind = "dir" /\ new[a].kids = kids /\ EntryOf(new[a]) = EntryOf(mem[a])
      /\ new[a].slot = mem[a].slot
    <2>1. new[a] = [mem[a] EXCEPT !.kids = kids] /\ IsInode(mem[a]) /\ mem[a].kind = "dir"
        BY <1>1, <1>2, <1>8
    <2> QED BY <2>1 DEF IsInode, EntryOf
<1>10. Kept(mem, new)
    BY <1>1, <1>2, <1>9 DEF Kept
<1>11. \A x \in DOMAIN new[RootInode].kids :
          x \in DOMAIN mem[RootInode].kids /\ new[RootInode].kids[x] = mem[RootInode].kids[x]
    <2>1. CASE a = RootInode
        BY <1>1, <1>4, <1>9, <2>1
    <2>2. CASE a # RootInode
        BY <1>1, <1>8, <2>2
    <2> QED BY <2>1, <2>2
<1>12. \A c : IsDir(new, c) => IsDir(mem, c)
    BY <1>11 DEF IsDir
<1>13. IsDir(new, a)
    <2>1. CASE a = RootInode
        BY <2>1 DEF IsDir
    <2>2. CASE a # RootInode
        <3>1. new[RootInode] = mem[RootInode]
            BY <1>1, <1>8, <2>2
        <3> QED BY <3>1 DEF IsDir
    <2> QED BY <2>1, <2>2
<1>14. ASSUME NEW c, IsDir(new, c) PROVE c \in DOMAIN new /\ IsDir(mem, c) /\ (c # a => new[c] = mem[c])
    <2>1. IsDir(mem, c)
        BY <1>12, <1>14
    <2>2. c \notin freed
        <3>1. CASE c = RootInode
            BY <1>6, <3>1
        <3>2. CASE c # RootInode
            <4>1. Sub \in DOMAIN new[RootInode].kids /\ c = new[RootInode].kids[Sub]
                BY <1>14, <3>2 DEF IsDir
            <4>2. Sub \in DOMAIN mem[RootInode].kids /\ c = mem[RootInode].kids[Sub]
                BY <1>11, <4>1
            <4>3. RootInode # a \/ Sub \in K
                BY <1>4, <1>9, <4>1
            <4> QED BY <1>2, <1>5, <4>2, <4>3
        <3> QED BY <3>1, <3>2
    <2> QED BY <1>1, <1>2, <1>8, <2>1, <2>2
<1>15. ASSUME NEW c, IsDir(new, c), NEW x \in DOMAIN new[c].kids
       PROVE  /\ x \in DOMAIN mem[c].kids /\ IsChild(new, c, x)
              /\ EntryOf(new[new[c].kids[x]]) = EntryOf(mem[mem[c].kids[x]])
              /\ new[new[c].kids[x]].slot = mem[mem[c].kids[x]].slot
    <2>1. IsDir(mem, c) /\ (c # a => new[c] = mem[c])
        BY <1>14, <1>15
    <2>2. x \in DOMAIN mem[c].kids /\ new[c].kids[x] = mem[c].kids[x] /\ (c # a \/ x \in K)
        <3>1. CASE c = a
            BY <1>1, <1>4, <1>9, <1>15, <3>1
        <3>2. CASE c # a
            BY <1>15, <2>1, <3>2
        <3> QED BY <3>1, <3>2
    <2> DEFINE b == mem[c].kids[x]
    <2>3. IsChild(mem, c, x) /\ b \in DOMAIN new /\ b \in DOMAIN mem
        BY <1>5, <1>8, <2>1, <2>2
    <2>4. IsInode(mem[b]) /\ IsMap(mem[b].kids) /\ (mem[b].kind = "file" => mem[b].kids = NoKids)
        BY <2>3 DEF IsChild
    <2>5. b = mem[c].kids[x]
        OBVIOUS
    <2> HIDE DEF b
    <2>6. /\ new[b] = [mem[b] EXCEPT !.kids = new[b].kids] /\ IsMap(new[b].kids)
          /\ (mem[b].kind = "file" => new[b].kids = NoKids)
        <3>1. CASE b = a
            <4>1. new[a] = [mem[a] EXCEPT !.kids = kids] /\ new[a].kids = kids /\ mem[a].kind = "dir"
                BY <1>1, <1>2, <1>8, <1>9
            <4> QED BY <1>4, <3>1, <4>1
        <3>2. CASE b # a
            <4>1. new[b] = mem[b]
                BY <1>1, <2>3, <3>2
            <4>2. mem[b] = [mem[b] EXCEPT !.kids = mem[b].kids]
                BY <2>4 DEF IsInode
            <4> QED BY <2>4, <4>1, <4>2
        <3> QED BY <3>1, <3>2
    <2>7. new[b].slot = mem[b].slot
        BY <2>4, <2>6 DEF IsInode
    <2>8. IsChild(new, c, x) /\ EntryOf(new[b]) = EntryOf(mem[b])
        <3>1. IsChild(mem, c, x) /\ b \in DOMAIN new /\ new[c].kids[x] = b
            BY <2>2, <2>3, <2>5
        <3> QED BY <2>5, <2>6, <3>1, ChildStays
    <2> QED BY <2>2, <2>5, <2>7, <2>8
<1>16. Tree(new)
    <2>1. new = [b \in DOMAIN new |-> new[b]] /\ DOMAIN new \subseteq Blocks
        <3>1. DOMAIN mem \subseteq Blocks
            BY DEF Tree
        <3> QED BY <1>1, <1>8, <3>1
    <2>2. IsInode(new[RootInode]) /\ new[RootInode].kind = "dir" /\ IsMap(new[RootInode].kids)
        <3>1. CASE a = RootInode
            BY <1>4, <1>9, <3>1
        <3>2. CASE a # RootInode
            <4>1. new[RootInode] = mem[RootInode]
                BY <1>1, <1>8, <3>2
            <4> QED BY <1>2, <4>1
        <3> QED BY <3>1, <3>2
    <2>3. \A c \in DOMAIN new : IsDir(new, c) => Family(new, c)
        BY <1>15 DEF Family
    <2> QED BY <1>8, <2>1, <2>2, <2>3 DEF Tree
<1>17. DOMAIN new[a].kids = K
    BY <1>4, <1>9
<1>18. \A c : IsDir(new, c) => IsDir(mem, c) /\ (c # a => new[c].kids = mem[c].kids)
    BY <1>14
<1>19. \A c : IsDir(new, c) => \A x \in DOMAIN new[c].kids :
          /\ x \in DOMAIN mem[c].kids
          /\ EntryOf(new[new[c].kids[x]]) = EntryOf(mem[mem[c].kids[x]])
          /\ new[new[c].kids[x]].slot = mem[mem[c].kids[x]].slot
    BY <1>15
<1> QED BY <1>10, <1>13, <1>16, <1>17, <1>18, <1>19

\* And it is good if what is left in a was known, and enough is.
LEMMA ShrunkGood ==
    ASSUME NEW mem, Tree(mem), NEW a, IsDir(mem, a), NEW K, NEW new, Shrinks(mem, new, a, K),
           NEW dk, NEW calls, \A c : IsDir(mem, c) /\ c # a => Sees(mem, dk, calls, c),
           \A x \in K \ Pending(calls, Listing(a)) :
               dk[Listing(a)][mem[mem[a].kids[x]].slot] = EntryOf(mem[mem[a].kids[x]]),
           ~Listed(calls, Listing(a)) /\ (K # {} \/ Making(calls, Listing(a))) =>
               \A s \in SlotSet : IsUsed(dk[Listing(a)][s]) => dk[Listing(a)][s].name \in K \cup Pending(calls, Listing(a))
    PROVE  Good(new, dk, calls) /\ Kept(mem, new) /\ IsDir(new, a)
<1>1. /\ Tree(new) /\ Kept(mem, new) /\ IsDir(new, a) /\ DOMAIN new[a].kids = K
      /\ \A c : IsDir(new, c) => IsDir(mem, c) /\ (c # a => new[c].kids = mem[c].kids)
      /\ \A c : IsDir(new, c) => \A x \in DOMAIN new[c].kids :
            /\ x \in DOMAIN mem[c].kids
            /\ EntryOf(new[new[c].kids[x]]) = EntryOf(mem[mem[c].kids[x]])
            /\ new[new[c].kids[x]].slot = mem[mem[c].kids[x]].slot
    BY ShrunkTree
<1>2. Sees(new, dk, calls, a)
    <2>1. Known(new, dk, a, Pending(calls, Listing(a)))
        BY <1>1 DEF Known
    <2>2. new[a].kids # NoKids => K # {}
        <3>1. IsMap(new[a].kids)
            BY <1>1, DirIs
        <3> QED BY <1>1, <3>1 DEF IsMap, NoKids
    <2>3. ~Listed(calls, Listing(a)) /\ (new[a].kids # NoKids \/ Making(calls, Listing(a))) =>
              Covers(new, dk, a, Pending(calls, Listing(a)))
        BY <1>1, <2>2 DEF Covers
    <2> QED BY <2>1, <2>3 DEF Sees
<1>3. ASSUME NEW c, IsDir(new, c), c # a PROVE Sees(new, dk, calls, c)
    <2>1. Sees(mem, dk, calls, c) /\ new[c].kids = mem[c].kids
        BY <1>1, <1>3
    <2>2. Known(new, dk, c, Pending(calls, Listing(c)))
        BY <1>1, <1>3, <2>1 DEF Known, Sees
    <2>3. Covers(mem, dk, c, Pending(calls, Listing(c))) => Covers(new, dk, c, Pending(calls, Listing(c)))
        BY <2>1 DEF Covers
    <2> QED BY <2>1, <2>2, <2>3 DEF Sees
<1> QED BY <1>1, <1>2, <1>3 DEF Good

\* Where a call on a directory goes on to one that has changed nothing, the
\* other directories are as they were.
LEMMA OthersSee ==
    ASSUME FilesBody, NEW p \in Processes, NEW a, IsDir(inode, a),
           \A d \in Dirs \ {Listing(a)} : ~Pends(call[p], d) /\ ~Lists(call[p], d),
           NEW c, \A d : ~Pends(c, d) /\ ~Makes(c, d), NEW calls, calls = [call EXCEPT ![p] = c]
    PROVE  /\ \A b : IsDir(inode, b) /\ b # a => Sees(inode, disk, calls, b)
           /\ ~Making(calls, Sub)
           /\ \A d : Making(calls, d) => Making(call, d)
           /\ ~Lists(call[p], Listing(a)) => (Listed(call, Listing(a)) => Listed(calls, Listing(a)))
<1>1. /\ Tree(inode) /\ call = [q \in Processes |-> call[q]] /\ ~Making(call, Sub)
      /\ \A b : IsDir(inode, b) => Sees(inode, disk, call, b)
    BY BodyIs
<1>2. \A d : Making(calls, d) => Making(call, d)
    BY <1>1, PendingAfter
<1>3. ASSUME NEW b, IsDir(inode, b), b # a
      PROVE  Sees(inode, disk, calls, b)
    <2>1. Listing(b) # Listing(a) /\ Listing(b) \in Dirs
        BY <1>1, <1>3, OneDir, Constants
    <2>2. /\ Pending(calls, Listing(b)) = Pending(call, Listing(b))
          /\ Listed(call, Listing(b)) => Listed(calls, Listing(b))
        BY <1>1, <2>1, PendingAfter
    <2> QED BY <1>1, <1>2, <1>3, <2>2 DEF Sees
<1>4. ~Lists(call[p], Listing(a)) => (Listed(call, Listing(a)) => Listed(calls, Listing(a)))
    BY <1>1, PendingAfter
<1> QED BY <1>1, <1>2, <1>3, <1>4

\* Idle is a call that has changed nothing.
LEMMA IdleDoes ==
    \A d : ~Pends(Idle, d) /\ ~Lists(Idle, d) /\ ~Makes(Idle, d)
<1>1. Idle.op = "idle"
    BY IdleIs, Zenon
<1> QED BY <1>1 DEF Pends, Lists, Makes, Mutators

\* The end of mkdir: the new directory gets an inode.
LEMMA MakeEnds ==
    ASSUME FilesBody, ~Full, NEW p \in Processes, InMap(p), call[p].op = "mkdir",
           \A q \in Processes \ {p} : Scope(call[p]) \cap Halfway(q) = {}, ~Dangling', ~orphaned'
    PROVE  FilesBody'
<1> DEFINE c == call[p]
           e == [slot |-> c.fd, entry |-> NewEntry(c.name, "dir")]
           new == Added(inode, c.dir, Top, {e})
           calls == call'
<1>1. /\ DiskOk(disk) /\ Tree(inode) /\ call = [q \in Processes |-> call[q]] /\ CallOk(inode, disk, c)
      /\ \A a : IsDir(inode, a) => Sees(inode, disk, call, a)
    BY BodyIs
<1>2. c.op = "mkdir" /\ c.step = 1 /\ disk' = disk /\ calls = [call EXCEPT ![p] = Idle] /\ Keep(new)
    BY Zenon DEF InMap, Goes
<1>3. e.slot = c.fd /\ e.entry = NewEntry(c.name, "dir")
    OBVIOUS
<1> HIDE DEF c, e, new, calls
<1>4. c.dir = RootInode /\ c.name = Sub /\ c.fd \in SlotSet /\ disk[Top][c.fd] = NewEntry(Sub, "dir")
    BY <1>1, <1>2 DEF CallOk
<1>5. Listing(RootInode) = Top /\ Top \in Dirs /\ Top # Sub /\ SlotsPer \in Nat
    BY Constants
<1>6. e.slot \in SlotSet /\ IsEntry(e.entry) /\ Fits(Top, e.entry) /\ e.entry.name = Sub /\ disk[Top][e.slot] = e.entry
    BY <1>3, <1>4 DEF NewEntry, IsEntry, Fits
<1>7. Entries({e}, Top) /\ Fewer({e}, 1) /\ NamesOf({e}) = {Sub}
    BY <1>6, OneEntry
<1>8. Cardinality(Spare(inode)) >= 1
    BY <1>5, SpareIs DEF Full
<1>9. IsDir(inode, RootInode) /\ RootInode \in DOMAIN inode /\ IsInode(inode[RootInode])
    BY <1>1, DirIs
<1>10. PICK own : Adds(inode, new, RootInode, Top, {e}, own)
    <2>1. new = Added(inode, RootInode, Top, {e})
        BY <1>4 DEF new
    <2> QED BY <1>7, <1>8, <1>9, <2>1, AddedIs
<1>11. /\ Pends(c, Top) /\ Makes(c, Top) /\ ~Lists(c, Top)
       /\ \A d \in Dirs \ {Top} : ~Pends(c, d) /\ ~Lists(c, d)
    BY <1>2, <1>4, <1>5 DEF Pends, Makes, Lists, Mutators
<1>12. Top \in Scope(c) /\ \A q \in Processes \ {p} : Scope(c) \cap Halfway(q) = {}
    BY <1>4, <1>5 DEF Scope, c
<1>13. Pending(call, Top) = {Sub}
    BY <1>4, <1>11, <1>12, QuietIs DEF c
<1>14. Pending(calls, Top) = {}
    BY <1>1, <1>2, <1>12, IdleDoes, QuietAfter
<1>15. /\ \A b : IsDir(inode, b) /\ b # RootInode => Sees(inode, disk, calls, b)
       /\ ~Making(calls, Sub)
       /\ Listed(call, Top) => Listed(calls, Top)
    BY <1>2, <1>5, <1>9, <1>11, IdleDoes, OthersSee DEF c
<1>16. Sees(inode, disk, call, RootInode) /\ Making(call, Top)
    BY <1>1, <1>9, <1>11, PendingIs DEF c
<1>17. OthersKnown(inode, disk, calls, RootInode, {e})
    <2>1. \A x \in DOMAIN inode[RootInode].kids \ {Sub} :
              disk[Top][inode[inode[RootInode].kids[x]].slot] = EntryOf(inode[inode[RootInode].kids[x]])
        BY <1>5, <1>13, <1>16 DEF Sees, Known
    <2> QED BY <1>5, <1>7, <1>15, <2>1 DEF OthersKnown, Sees, Known
<1>18. OthersCovered(inode, disk, calls, RootInode)
    BY <1>15 DEF OthersCovered, Sees
<1>19. AddedKnown(disk, Top, {e})
    BY <1>6 DEF AddedKnown
<1>20. AddedCovers(inode, disk, calls, RootInode, {e})
    BY <1>5, <1>7, <1>13, <1>15, <1>16 DEF AddedCovers, Sees, Covers
<1>21. Good(new, disk, calls) /\ Kept(inode, new)
    BY <1>1, <1>5, <1>7, <1>9, <1>10, <1>15, <1>17, <1>18, <1>19, <1>20, AddedGood, AddedTree
<1>22. Good(new, disk', call') /\ DiskOk(disk') /\ CallOk(new, disk', Idle) /\ Remember(new, Held)
    BY <1>1, <1>2, <1>21, IdleOk DEF Keep, calls
<1>23. \A d \in Dirs \ Scope(c) : disk'[d] = disk[d]
    BY <1>2
<1> QED BY <1>2, <1>12, <1>21, <1>22, <1>23, RememberBody DEF calls

\* The end of unlink and rmdir.
LEMMA RemoveEnds ==
    ASSUME FilesBody, NEW p \in Processes, InMap(p), call[p].op \in {"unlink", "rmdir"},
           \A q \in Processes \ {p} : Scope(call[p]) \cap Halfway(q) = {}, ~Dangling', ~orphaned'
    PROVE  FilesBody'
<1> DEFINE c == call[p]
           a == c.dir
           K == DOMAIN inode[a].kids \ {c.name}
           new == Removed(inode, a, c.name)
           calls == call'
<1>1. /\ DiskOk(disk) /\ Tree(inode) /\ call = [q \in Processes |-> call[q]] /\ CallOk(inode, disk, c)
      /\ \A b : IsDir(inode, b) => Sees(inode, disk, call, b)
    BY BodyIs
<1>2. c.step = 1 /\ c.op \in {"unlink", "rmdir"} /\ disk' = disk /\ calls = [call EXCEPT ![p] = Idle] /\ Keep(new)
    BY Zenon DEF InMap, Goes
<1>3. Shrinks(inode, new, a, K)
    <2>1. IsDir(inode, a)
        BY <1>1, <1>2 DEF CallOk, Mutators
    <2>2. IsInode(inode[a]) /\ IsMap(inode[a].kids) /\ a \in DOMAIN inode
        BY <1>1, <2>1, DirIs
    <2>3. CASE c.name \notin DOMAIN inode[a].kids
        <3>1. new = inode /\ K = DOMAIN inode[a].kids
            BY <2>3 DEF Removed
        <3>2. inode[a] = [inode[a] EXCEPT !.kids = [x \in K |-> inode[a].kids[x]]]
            BY <2>2, <3>1 DEF IsInode, IsMap
        <3>3. inode = [b \in DOMAIN inode |-> inode[b]]
            BY <1>1 DEF Tree
        <3> HIDE DEF new, K, a, c
        <3> QED BY <3>1, <3>2, <3>3 DEF Shrinks
    <2>4. CASE c.name \in DOMAIN inode[a].kids
        <3>1. new = [b \in DOMAIN inode \ {inode[a].kids[c.name]} |->
                        IF b = a THEN [inode[a] EXCEPT !.kids = [x \in K |-> inode[a].kids[x]]] ELSE inode[b]]
            BY <2>4 DEF Removed
        <3>2. {inode[a].kids[x] : x \in DOMAIN inode[a].kids \ K} = {inode[a].kids[c.name]}
            BY <2>4
        <3>3. K \subseteq DOMAIN inode[a].kids
            OBVIOUS
        <3> HIDE DEF new, K, a, c
        <3> QED BY <3>1, <3>2, <3>3 DEF Shrinks
    <2> QED BY <2>3, <2>4
<1>4. K = DOMAIN inode[a].kids \ {c.name} /\ a = c.dir
    OBVIOUS
<1> HIDE DEF c, K, new, calls, a
<1>5. /\ IsDir(inode, a) /\ c.op \in Mutators
      /\ \A s \in SlotSet : IsUsed(disk[Listing(a)][s]) => disk[Listing(a)][s].name # c.name
    BY <1>1, <1>2, <1>4 DEF CallOk, Mutators
<1>6. Listing(a) \in Dirs
    BY Constants
<1>7. /\ Pends(c, Listing(a)) /\ ~Lists(c, Listing(a))
      /\ \A d \in Dirs \ {Listing(a)} : ~Pends(c, d) /\ ~Lists(c, d)
    BY <1>2, <1>4, <1>5 DEF Pends, Lists
<1>8. Listing(a) \in Scope(c) /\ \A q \in Processes \ {p} : Scope(c) \cap Halfway(q) = {}
    BY <1>4 DEF Scope, c
<1>9. Pending(call, Listing(a)) = {c.name}
    BY <1>7, <1>8, QuietIs DEF c
<1>10. Pending(calls, Listing(a)) = {}
    BY <1>1, <1>2, <1>8, IdleDoes, QuietAfter
<1>11. /\ \A b : IsDir(inode, b) /\ b # a => Sees(inode, disk, calls, b)
       /\ \A d : Making(calls, d) => Making(call, d)
       /\ Listed(call, Listing(a)) => Listed(calls, Listing(a))
    <2>1. /\ calls = [call EXCEPT ![p] = Idle] /\ IsDir(inode, a) /\ ~Lists(call[p], Listing(a))
          /\ \A d \in Dirs \ {Listing(a)} : ~Pends(call[p], d) /\ ~Lists(call[p], d)
          /\ \A d : ~Pends(Idle, d) /\ ~Makes(Idle, d)
        BY <1>2, <1>5, <1>7, IdleDoes DEF c
    <2> QED BY <2>1, OthersSee, Zenon
<1>12. Sees(inode, disk, call, a)
    BY <1>1, <1>5
<1>13. \A x \in K \ Pending(calls, Listing(a)) :
           disk[Listing(a)][inode[inode[a].kids[x]].slot] = EntryOf(inode[inode[a].kids[x]])
    BY <1>4, <1>9, <1>12 DEF Sees, Known
<1>14. ~Listed(calls, Listing(a)) /\ (K # {} \/ Making(calls, Listing(a))) =>
           \A s \in SlotSet : IsUsed(disk[Listing(a)][s]) =>
               disk[Listing(a)][s].name \in K \cup Pending(calls, Listing(a))
    <2> SUFFICES ASSUME ~Listed(calls, Listing(a)), K # {} \/ Making(calls, Listing(a)),
                        NEW s \in SlotSet, IsUsed(disk[Listing(a)][s])
                 PROVE  disk[Listing(a)][s].name \in K
        OBVIOUS
    <2>1. K # {} => inode[a].kids # NoKids
        BY <1>4 DEF NoKids
    <2>2. Covers(inode, disk, a, {c.name})
        BY <1>9, <1>11, <1>12, <2>1 DEF Sees
    <2> QED BY <1>4, <1>5, <2>2 DEF Covers
<1>15. Good(new, disk, calls) /\ Kept(inode, new)
    <2>1. Tree(inode) /\ IsDir(inode, a) /\ \A b : IsDir(inode, b) /\ b # a => Sees(inode, disk, calls, b)
        BY <1>1, <1>5, <1>11
    <2> QED BY <1>3, <1>13, <1>14, <2>1, ShrunkGood
<1>16. Good(new, disk', call') /\ DiskOk(disk') /\ CallOk(new, disk', Idle) /\ Remember(new, Held)
    BY <1>1, <1>2, <1>15, IdleOk DEF Keep, calls
<1>17. \A d \in Dirs \ Scope(c) : disk'[d] = disk[d]
    BY <1>2
<1> QED BY <1>2, <1>8, <1>15, <1>16, <1>17, RememberBody DEF calls

-----------------------------------------------------------------------------
(* getdents.                                                               *)

\* The dentries are cleared; none is missing as long as the call goes on.
LEMMA BeginListKeeps ==
    ASSUME FilesBody, ~Dangling, NEW p \in Processes, NEW i \in OpenOf(p), BeginList(p, i),
           \A q \in Processes \ {p} : {Listing(opened[p][i].at)} \cap Halfway(q) = {}, ~Dangling', ~orphaned'
    PROVE  FilesBody'
<1> DEFINE a == opened[p][i].at
           new == Cleared(inode, a)
           c == [Idle EXCEPT !.op = "list", !.dir = a, !.fd = i]
           calls == call'
<1>1. Ready(p) /\ inode[a].kind = "dir" /\ calls = [call EXCEPT ![p] = c] /\ Keep(new) /\ disk' = disk
    BY Zenon DEF BeginList, Goes
<1>2. c = [op |-> "list", dir |-> a, name |-> Idle.name, fd |-> i, found |-> {}, step |-> 0]
    <2> DEFINE x == Idle
               nm == Idle.name
    <2>1. x = [op |-> "idle", dir |-> 0, name |-> nm, fd |-> 0, found |-> {}, step |-> 0]
        BY IdleIs, Zenon
    <2>2. c = [x EXCEPT !.op = "list", !.dir = a, !.fd = i]
        OBVIOUS
    <2> HIDE DEF x, nm, c, a
    <2>3. c = [op |-> "list", dir |-> a, name |-> nm, fd |-> i, found |-> {}, step |-> 0]
        BY <2>1, <2>2
    <2> QED BY <2>3 DEF nm
<1>3. /\ c.op = "list" /\ c.step = 0 /\ c.dir = a
      /\ c = [op |-> c.op, dir |-> c.dir, name |-> c.name, fd |-> c.fd, found |-> c.found, step |-> c.step]
    BY <1>2
<1>4. a \in DOMAIN inode /\ InTree(inode, a)
    BY OpenedIs
<1>5. new = [b \in DOMAIN inode \ Range(inode[a].kids) |->
                IF b = a THEN [inode[a] EXCEPT !.kids = NoKids] ELSE inode[b]]
    BY DEF Cleared
<1>6. \A q \in Processes \ {p} : {Listing(a)} \cap Halfway(q) = {}
    OBVIOUS
<1> HIDE DEF c, a, new, calls
<1>7. /\ DiskOk(disk) /\ Tree(inode) /\ call = [q \in Processes |-> call[q]]
      /\ \A b : IsDir(inode, b) => Sees(inode, disk, call, b)
    BY BodyIs
<1>8. IsDir(inode, a)
    BY <1>1, <1>4, <1>7, InTreeIs
<1>9. Shrinks(inode, new, a, {})
    <2>1. {inode[a].kids[x] : x \in DOMAIN inode[a].kids \ {}} = Range(inode[a].kids)
        BY DEF Range
    <2>2. [x \in {} |-> inode[a].kids[x]] = NoKids
        BY DEF NoKids
    <2> QED BY <1>5, <2>1, <2>2 DEF Shrinks
<1>10. \A d : ~Pends(c, d) /\ ~Makes(c, d)
    BY <1>3 DEF Pends, Makes, Mutators
<1>11. \A d : ~Pends(call[p], d) /\ ~Lists(call[p], d)
    BY <1>1, ReadyIs
<1>12. \A b : IsDir(inode, b) /\ b # a => Sees(inode, disk, calls, b)
    BY <1>1, <1>8, <1>10, <1>11, OthersSee
<1>13. Listed(calls, Listing(a))
    <2>1. Lists(c, Listing(a)) /\ calls[p] = c
        BY <1>1, <1>3, <1>7 DEF Lists
    <2> QED BY <2>1, PendingIs
<1>14. Good(new, disk, calls) /\ Kept(inode, new) /\ IsDir(new, a)
    BY <1>7, <1>8, <1>9, <1>12, <1>13, ShrunkGood
<1>15. CallOk(new, disk, c)
    <2>1. c.op # "idle" /\ c.op \notin Mutators
        BY <1>3 DEF Mutators
    <2> QED BY <1>3, <1>14, <2>1 DEF CallOk, Mutators
<1>16. Good(new, disk', call') /\ DiskOk(disk') /\ CallOk(new, disk', c) /\ Remember(new, Held)
    BY <1>1, <1>7, <1>14, <1>15 DEF Keep, calls
<1>17. \A d \in Dirs \ {Listing(a)} : disk'[d] = disk[d]
    BY <1>1
<1> QED BY <1>1, <1>6, <1>14, <1>16, <1>17, RememberBody DEF calls

\* The disk is read.
LEMMA ReadListKeeps ==
    ASSUME FilesBody, NEW p \in Processes, ReadList(p), ~Dangling'
    PROVE  FilesBody'
<1> DEFINE c == call[p]
           c2 == [c EXCEPT !.found = Found(Listing(c.dir)), !.step = 1]
<1>1. c.op = "list" /\ call' = [call EXCEPT ![p] = c2] /\ inode' = inode /\ disk' = disk
    BY Zenon DEF ReadList, At, Goes
<1>2. DiskOk(disk) /\ CallOk(inode, disk, c) /\ Listing(c.dir) \in Dirs
    BY BodyIs, Constants
<1>3. Found(Listing(c.dir)) = FoundIn(disk, Listing(c.dir))
    BY <1>2, DiskIs
<1>4. c2 = [c EXCEPT !.found = Found(Listing(c.dir)), !.step = 1]
    OBVIOUS
<1> HIDE DEF c, c2
<1>5. c = [op |-> c.op, dir |-> c.dir, name |-> c.name, fd |-> c.fd, found |-> c.found, step |-> c.step]
      /\ IsDir(inode, c.dir)
    BY <1>1, <1>2 DEF CallOk
<1>6. /\ c2.op = "list" /\ c2.dir = c.dir /\ c2.step = 1 /\ c2.found = FoundIn(disk, Listing(c.dir))
      /\ c2 = [op |-> c2.op, dir |-> c2.dir, name |-> c2.name, fd |-> c2.fd, found |-> c2.found, step |-> c2.step]
    BY <1>1, <1>3, <1>4, <1>5
<1>7. CallOk(inode, disk, c2)
    <2>1. c2.op \notin Mutators
        BY <1>6 DEF Mutators
    <2> QED BY <1>5, <1>6, <2>1 DEF CallOk, Mutators
<1>8. \A d : ~Pends(c, d) /\ ~Pends(c2, d) /\ (Lists(c, d) => Lists(c2, d)) /\ ~Makes(c2, d)
    BY <1>1, <1>6 DEF Pends, Lists, Makes, Mutators
<1> QED BY <1>1, <1>7, <1>8, CallGoesOn DEF c

\* And what was read is added.
LEMMA EndListKeeps ==
    ASSUME FilesBody, ~Full, NEW p \in Processes, EndList(p),
           \A q \in Processes \ {p} : Scope(call[p]) \cap Halfway(q) = {}, ~Dangling', ~orphaned'
    PROVE  FilesBody'
<1> DEFINE c == call[p]
           a == c.dir
           d == Listing(a)
           new == Added(inode, a, d, c.found)
           calls == call'
<1>1. /\ DiskOk(disk) /\ Tree(inode) /\ call = [q \in Processes |-> call[q]] /\ CallOk(inode, disk, c)
      /\ \A b : IsDir(inode, b) => Sees(inode, disk, call, b)
    BY BodyIs
<1>2. c.op = "list" /\ c.step = 1 /\ disk' = disk /\ calls = [call EXCEPT ![p] = Idle] /\ Keep(new)
    BY Zenon DEF EndList, At, Goes
<1>3. a = c.dir /\ d = Listing(a) /\ d \in Dirs /\ SlotsPer \in Nat
    BY Constants
<1>4. d \in Scope(c) /\ \A q \in Processes \ {p} : Scope(c) \cap Halfway(q) = {}
    BY DEF Scope
<1> HIDE DEF c, a, d, calls
<1>5. IsDir(inode, a) /\ c.found = FoundIn(disk, d)
    BY <1>1, <1>2, <1>3 DEF CallOk
<1> DEFINE found == c.found
<1>6. /\ Entries(found, d) /\ Fewer(found, SlotsPer)
      /\ \A e \in found : disk[d][e.slot] = e.entry
      /\ \A s \in SlotSet : IsUsed(disk[d][s]) => disk[d][s].name \in NamesOf(found)
    BY <1>1, <1>3, <1>5, FoundIs
<1>7. new = Added(inode, a, d, found)
    OBVIOUS
<1> HIDE DEF found, new
<1>8. Cardinality(Spare(inode)) >= SlotsPer
    BY <1>3, SpareIs DEF Full
<1>9. a \in DOMAIN inode /\ IsInode(inode[a]) /\ Sees(inode, disk, call, a)
    BY <1>1, <1>5, DirIs
<1>10. PICK own : Adds(inode, new, a, d, found, own)
    BY <1>3, <1>6, <1>7, <1>8, <1>9, AddedIs
<1>11. \A x \in Dirs : ~Pends(c, x) /\ (x # d => ~Lists(c, x))
    BY <1>2, <1>3 DEF Pends, Lists, Mutators
<1>12. Pending(call, d) = {}
    BY <1>3, <1>4, <1>11, QuietIs DEF c
<1>13. Pending(calls, d) = {}
    BY <1>1, <1>2, <1>4, IdleDoes, QuietAfter
<1>14. /\ \A b : IsDir(inode, b) /\ b # a => Sees(inode, disk, calls, b)
       /\ ~Making(calls, Sub)
    BY <1>2, <1>3, <1>5, <1>11, IdleDoes, OthersSee DEF c
<1>15. OthersKnown(inode, disk, calls, a, found)
    <2>1. \A x \in DOMAIN inode[a].kids : disk[d][inode[inode[a].kids[x]].slot] = EntryOf(inode[inode[a].kids[x]])
        BY <1>3, <1>9, <1>12 DEF Sees, Known
    <2> QED BY <1>3, <1>14, <2>1 DEF OthersKnown, Sees, Known
<1>16. OthersCovered(inode, disk, calls, a)
    BY <1>14 DEF OthersCovered, Sees
<1>17. AddedKnown(disk, d, found) /\ AddedCovers(inode, disk, calls, a, found)
    BY <1>3, <1>6 DEF AddedKnown, AddedCovers
<1>18. Good(new, disk, calls) /\ Kept(inode, new)
    BY <1>1, <1>3, <1>5, <1>6, <1>10, <1>14, <1>15, <1>16, <1>17, AddedGood, AddedTree
<1>19. Good(new, disk', call') /\ DiskOk(disk') /\ CallOk(new, disk', Idle) /\ Remember(new, Held)
    BY <1>1, <1>2, <1>18, IdleOk DEF Keep, calls
<1>20. \A x \in Dirs \ Scope(c) : disk'[x] = disk[x]
    BY <1>2
<1> QED BY <1>2, <1>4, <1>18, <1>19, <1>20, RememberBody DEF calls

-----------------------------------------------------------------------------
(* The invariant holds.                                                    *)

\* An empty disk, and the root.
LEMMA InitOk ==
    ASSUME Init
    PROVE  FilesInv
<1>1. Free.kind = "free" /\ Idle.op = "idle"
    BY IdleIs, Zenon DEF Free
<1>2. \E nm : inode = [b \in {RootInode} |-> Inode(Top, 0, NewEntry(nm, "dir"))]
    BY Zenon DEF Init
<1>3. PICK nm : inode = [b \in {RootInode} |-> Inode(Top, 0, NewEntry(nm, "dir"))]
    BY <1>2
<1>4. disk = [d \in {Top, Sub} |-> [s \in 1 .. SlotsPer |-> Free]] /\ call = [p \in Processes |-> Idle]
    BY Zenon DEF Init
<1>5. DiskOk(disk)
    <2>1. disk = [d \in Dirs |-> [s \in SlotSet |-> disk[d][s]]]
        BY <1>4 DEF Dirs, SlotSet
    <2>2. \A d \in Dirs : \A s \in SlotSet : ~IsUsed(disk[d][s])
        BY <1>1, <1>4 DEF Dirs, SlotSet, IsUsed
    <2> QED BY <2>1, <2>2 DEF DiskOk
<1>6. /\ DOMAIN inode = {RootInode} /\ inode = [b \in DOMAIN inode |-> inode[b]]
      /\ inode[RootInode].kids = NoKids /\ inode[RootInode].kind = "dir" /\ IsInode(inode[RootInode])
    BY <1>3 DEF Inode, NewEntry, IsInode
<1>7. IsMap(NoKids) /\ DOMAIN NoKids = {}
    BY DEF IsMap, NoKids
<1>8. \A a : IsDir(inode, a) <=> a = RootInode
    BY <1>6, <1>7 DEF IsDir
<1>9. Tree(inode)
    BY <1>6, <1>7, <1>8, Constants DEF Tree, Family
<1>10. call = [p \in Processes |-> call[p]] /\ \A p \in Processes : call[p].op = "idle"
    BY <1>1, <1>4
<1>11. Sees(inode, disk, call, RootInode)
    <2>1. Known(inode, disk, RootInode, Pending(call, Listing(RootInode)))
        BY <1>6, <1>7 DEF Known
    <2>2. ~Making(call, Listing(RootInode))
        BY <1>10 DEF Making
    <2> QED BY <1>6, <2>1, <2>2 DEF Sees
<1>12. Good(inode, disk, call)
    BY <1>8, <1>9, <1>11 DEF Good
<1>13. \A b \in DOMAIN inode : InTree(inode, b)
    BY <1>6 DEF InTree
<1>14. \A p \in Processes : CallOk(inode, disk, call[p])
    BY <1>4, IdleOk
<1> QED BY <1>5, <1>10, <1>12, <1>13, <1>14 DEF FilesInv, FilesBody

\* A step says so if it makes an orphan.
LEMMA OrphansStay ==
    ASSUME NEW p \in Processes, NEW dirs, Step(p, dirs), ~orphaned'
    PROVE  ~orphaned
<1>1. ASSUME NEW mem, NEW held, Remember(mem, held) PROVE ~orphaned
    BY <1>1, Zenon DEF Remember
<1>2. ASSUME NEW path, OpenFile(p, path) PROVE ~orphaned
    BY <1>1, <1>2, Zenon DEF OpenFile, OpenExisting, OpenTruncate, OpenCreate, Descriptor
<1>3. ASSUME NEW op, NEW path, NEW kind, Begin(p, op, path, kind) PROVE ~orphaned
    BY <1>1, <1>3, Zenon DEF Begin
<1>4. ASSUME NEW i, Close(p, i) \/ Seek(p, i) \/ BeginRead(p, i) \/ Write(p, i) \/ BeginList(p, i) PROVE ~orphaned
    BY <1>1, <1>4, Zenon DEF Close, Seek, BeginRead, Write, BeginList, Keep
<1>5. EndRead(p) \/ OnDisk(p) \/ InMap(p) \/ ReadList(p) \/ EndList(p) => ~orphaned
    BY <1>1, Zenon DEF EndRead, OnDisk, InMap, ReadList, EndList, Keep
<1> QED BY <1>2, <1>3, <1>4, <1>5, Zenon DEF Step, BeginUnlink, BeginMkdir, BeginRmdir

\* Each call keeps it, if no other is half way in the directories it looks at.
LEMMA StepKeeps ==
    ASSUME FilesBody, ~Dangling, ~Full, NEW p \in Processes, NEW dirs, Step(p, dirs),
           \A q \in Processes \ {p} : dirs \cap Halfway(q) = {}, ~Dangling', ~orphaned'
    PROVE  FilesBody'
<1>1. CASE \E path \in Paths : dirs = Way(path) /\ OpenFile(p, path)
    <2>1. PICK path \in Paths : dirs = Way(path) /\ OpenFile(p, path)
        BY <1>1
    <2>2. \A q \in Processes \ {p} : Way(path) \cap Halfway(q) = {}
        BY <2>1
    <2>3. OpenExisting(p, path) \/ OpenTruncate(p, path) \/ OpenCreate(p, path)
        BY <2>1 DEF OpenFile
    <2> QED BY <2>1, <2>2, <2>3, OpenExistingKeeps, OpenTruncateKeeps, OpenCreateKeeps
<1>2. CASE \E path \in Paths : \/ dirs = Way(path) /\ BeginUnlink(p, path)
                               \/ dirs = {Top} /\ BeginMkdir(p)
                               \/ dirs = {Top, Sub} /\ BeginRmdir(p)
    BY <1>2, BeginsKeep
<1>3. CASE \E i \in OpenOf(p) : dirs = {} /\ (Close(p, i) \/ Seek(p, i) \/ BeginRead(p, i))
    BY <1>3, CloseKeeps, SeekKeeps, BeginReadKeeps
<1>4. CASE \E i \in OpenOf(p) : dirs = {inode[opened[p][i].at].dir} /\ Write(p, i)
    BY <1>4, WriteKeeps
<1>5. CASE \E i \in OpenOf(p) : dirs = {Listing(opened[p][i].at)} /\ BeginList(p, i)
    BY <1>5, BeginListKeeps
<1>6. CASE EndRead(p)
    BY <1>6, EndReadKeeps
<1>7. CASE dirs = Scope(call[p]) /\ (OnDisk(p) \/ InMap(p) \/ ReadList(p) \/ EndList(p))
    <2>1. \A q \in Processes \ {p} : Scope(call[p]) \cap Halfway(q) = {}
        BY <1>7
    <2>2. InMap(p) => call[p].op = "mkdir" \/ call[p].op \in {"unlink", "rmdir"}
        BY DEF InMap
    <2> QED BY <1>7, <2>1, <2>2, OnDiskKeeps, MakeEnds, RemoveEnds, ReadListKeeps, EndListKeeps
<1>8. <<Sub>> \in Paths
    BY DEF Paths
<1> QED BY <1>1, <1>2, <1>3, <1>4, <1>5, <1>6, <1>7, <1>8, Zenon DEF Step

\* A step after which nothing dangles is one before which nothing did.
LEMMA NextKeeps ==
    ASSUME FilesInv, [Next]_vars
    PROVE  FilesInv'
<1>1. CASE UNCHANGED vars
    BY <1>1 DEF vars, FilesInv, FilesBody, Dangling, Held, FileDescriptors
<1>2. CASE ~UNCHANGED vars
    <2> SUFFICES ASSUME ~Dangling', ~orphaned', ~crossed' PROVE FilesBody'
        BY DEF FilesInv
    <2>1. PICK p \in Processes, dirs \in SUBSET {Top, Sub} :
              /\ Step(p, dirs)
              /\ crossed' = (crossed \/ \E q \in Processes \ {p} : dirs \cap Halfway(q) # {})
        BY <1>2, Zenon DEF Next
    <2>2. ~Undefined /\ ~Full
        BY <1>2, Zenon DEF Next
    <2>3. ~Dangling
        BY <2>2 DEF Undefined
    <2>4. ~crossed /\ \A q \in Processes \ {p} : dirs \cap Halfway(q) = {}
        BY <2>1, Zenon
    <2>5. ~orphaned
        BY <2>1, OrphansStay
    <2>6. FilesBody
        BY <2>3, <2>4, <2>5 DEF FilesInv
    <2> QED BY <2>1, <2>2, <2>3, <2>4, <2>6, StepKeeps
<1> QED BY <1>1, <1>2

\* As long as nothing is orphaned, crossed or dangling, the inodes are a tree
\* of what is on the disk: all that each call that is under way has still to
\* do on one of the two is known.
THEOREM FilesAreATree == Spec => []FilesInv
<1>1. Init => FilesInv
    BY InitOk
<1>2. FilesInv /\ [Next]_vars => FilesInv'
    BY NextKeeps
<1> QED BY <1>1, <1>2, PTL DEF Spec

-----------------------------------------------------------------------------
(* The properties.                                                         *)

\* Nothing is under way in a directory that no call works on.
LEMMA NotBusyIs ==
    ASSUME NEW d, ~Busy(d)
    PROVE  Pending(call, d) = {} /\ ~Listed(call, d)
<1>1. Idle.op = "idle"
    BY IdleIs, Zenon
<1>2. \A p \in Processes : call[p] = Idle \/ call[p].op = "read" \/ Listing(call[p].dir) # d
    BY Zenon DEF Busy
<1> QED BY <1>1, <1>2 DEF Pending, Listed, Mutators

\* The dentries of a directory that no call is working on, once it has any,
\* are the entries on the disk (FAT32Directory::getDentry and addDentry
\* against FAT32Partition::readDirectory).
THEOREM CacheTrue == Spec => []CacheAgrees
<1>1. ASSUME FilesInv PROVE CacheAgrees
    <2> SUFFICES ASSUME ~Dangling, ~orphaned, ~crossed, NEW a \in DOMAIN inode, inode[a].kind = "dir",
                        ~Busy(Listing(a)), inode[a].kids # NoKids
                 PROVE  /\ DOMAIN inode[a].kids = {disk[Listing(a)][s].name : s \in Used(Listing(a))}
                        /\ \A name \in DOMAIN inode[a].kids : Agrees(inode[a].kids[name])
        BY Zenon DEF CacheAgrees
    <2> DEFINE d == Listing(a)
    <2>1. FilesBody
        BY <1>1 DEF FilesInv
    <2>2. /\ DiskOk(disk) /\ Tree(inode) /\ InTree(inode, a)
          /\ \A b : IsDir(inode, b) => Sees(inode, disk, call, b)
        BY <2>1, BodyIs
    <2>3. IsDir(inode, a)
        BY <2>2, InTreeIs
    <2>4. Pending(call, d) = {} /\ ~Listed(call, d)
        BY NotBusyIs
    <2>5. Family(inode, a) /\ Known(inode, disk, a, {}) /\ Covers(inode, disk, a, {})
        BY <2>2, <2>3, <2>4, DirIs DEF Sees
    <2>6. d \in Dirs
        BY Constants
    <2>7. Used(d) = {s \in SlotSet : IsUsed(disk[d][s])}
        BY <2>2, <2>6, DiskIs
    <2>8. ASSUME NEW name \in DOMAIN inode[a].kids
          PROVE  /\ Agrees(inode[a].kids[name])
                 /\ \E s \in Used(d) : name = disk[d][s].name
        <3> DEFINE n == inode[inode[a].kids[name]]
        <3>1. IsChild(inode, a, name)
            BY <2>5 DEF Family
        <3>2. n.slot \in SlotSet /\ n.dir = d /\ n.name = name /\ Fits(d, n)
            BY <3>1 DEF IsChild
        <3>3. disk[d][n.slot] = EntryOf(n)
            BY <2>5 DEF Known
        <3>4. n.slot \in Used(d) /\ disk[d][n.slot].name = name
            BY <2>7, <3>2, <3>3 DEF EntryOf, Fits, IsUsed
        <3>5. Agrees(inode[a].kids[name])
            BY <3>2, <3>3 DEF Agrees, EntryOf
        <3> QED BY <3>4, <3>5
    <2>9. \A s \in Used(d) : disk[d][s].name \in DOMAIN inode[a].kids
        BY <2>5, <2>7 DEF Covers
    <2>10. DOMAIN inode[a].kids = {disk[d][s].name : s \in Used(d)}
        BY <2>8, <2>9
    <2> QED BY <2>8, <2>10
<1> QED BY <1>1, FilesAreATree, PTL

\* The inode behind every open descriptor has the entry of its file as it is
\* on the disk (FAT32Archive::write and truncate, flushEntry).
THEOREM OpenFilesTrue == Spec => []OpenFilesAgree
<1>1. ASSUME FilesInv PROVE OpenFilesAgree
    <2> SUFFICES ASSUME ~Dangling, ~orphaned, ~crossed, NEW d \in FileDescriptors, ~Busy(inode[d.at].dir),
                        inode[d.at].kind = "file"
                 PROVE  Agrees(d.at)
        BY Zenon DEF OpenFilesAgree, Agrees
    <2>1. FilesBody
        BY <1>1 DEF FilesInv
    <2>2. d.at \in DOMAIN inode
        BY DEF Dangling, Held
    <2>3. Good(inode, disk, call) /\ InTree(inode, d.at)
        BY <2>1, <2>2, BodyIs
    <2>4. Pending(call, inode[d.at].dir) = {}
        BY NotBusyIs
    <2>5. disk[inode[d.at].dir][inode[d.at].slot] = EntryOf(inode[d.at])
        BY <2>3, <2>4, FileIs
    <2> QED BY <2>5 DEF Agrees, EntryOf
<1> QED BY <1>1, FilesAreATree, PTL
=============================================================================
