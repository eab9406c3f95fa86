----------------------------- MODULE Heap_proofs -----------------------------
(***************************************************************************)
(* The heap gives disjoint blocks, tiles its pages and implements the      *)
(* store of blocks, for every size of the pages and of the header, every   *)
(* set of pages and of requests, and any number of blocks.                 *)
(*                                                                         *)
(* The theorems are about one context: Heap_interrupted shows that the     *)
(* heap is not correct when an interrupt allocates as well.                *)
(*                                                                         *)
(* HeapInv says what is true between any two steps of a call: the headers  *)
(* in some set C form one list, their chunks tile the pages, every block   *)
(* that is held lies in an allocated chunk of its own, and a call points   *)
(* to headers in C only.  The order of the list is hidden in Chain, an     *)
(* existential: every step inserts a header behind another (split, growth) *)
(* or takes out the one behind another (merging).                          *)
(***************************************************************************)
EXTENDS Heap, TLAPS, FiniteSetTheorems, FunctionTheorems, WellFoundedInduction

OneContext == \E c : Contexts = {c}

\* The addresses in C, from the head on, in the order L; next and prev are its links.
IsList(L, n, ch, head, C) ==
    /\ \A a \in C : \E i \in 1 .. n : L[i] = a
    /\ \A i, j \in 1 .. n : L[i] = L[j] => i = j
    /\ head = IF n = 0 THEN Null ELSE L[1]
    /\ \A i \in 1 .. n : /\ ch[L[i]].next = IF i = n THEN Null ELSE L[i + 1]
                         /\ ch[L[i]].prev = IF i = 1 THEN Null ELSE L[i - 1]
Chain(ch, head, C) == \E n \in Nat : \E L \in [1 .. n -> C] : IsList(L, n, ch, head, C)

\* Every byte of a page is in one chunk.
InPages(x, pg) == \E p \in pg : x \in PageBytes(p)
InChunks(x, ch, C) == \E a \in C : a <= x /\ x < End(ch, a)
Tiles(ch, C, pg) ==
    /\ \A a \in C : ch[a].size >= 1
    /\ \A a, b \in C : a # b => End(ch, a) <= b \/ End(ch, b) <= a
    /\ \A x \in Int : InChunks(x, ch, C) <=> InPages(x, pg)

Chunk == [size : Nat, isAllocated : BOOLEAN, next : Nat, prev : Nat]
Calls == [op : {"idle", "find", "mark", "merge", "coalesce"}, size : Nat,
          cursor : Nat, best : Nat, grown : BOOLEAN]
TypeInv ==
    /\ chunks \in [Addresses -> Chunk] /\ heapList \in Nat /\ pages \subseteq Pages
    /\ held \in [Slots -> [at : Nat, size : Nat]] /\ call \in [Contexts -> Calls]

\* The chunk a call has chosen: free, and large enough.
Chosen(k, C) == k.best \in C /\ Free(k.best) /\ k.size <= chunks[k.best].size
CallsInv(C) ==
    \A c \in Contexts :
        /\ call[c].op \in {"find", "mark"} => call[c].size \in RequestSizes
        /\ call[c].op \in {"find", "coalesce"} => call[c].cursor \in C \cup {Null}
        /\ call[c].op = "find" /\ call[c].best # Null => Chosen(call[c], C)
        /\ call[c].op = "mark" => Chosen(call[c], C)
        /\ call[c].op = "merge" => call[c].cursor \in C /\ Free(call[c].cursor)

\* A block that is held is what an allocated chunk was allocated for.
NoBlock == [at |-> Null, size |-> 0]
InChunk(b, C) ==
    \E a \in C : /\ b.at = a + HeaderSize /\ ~Free(a)
                 /\ b.size \in RequestSizes /\ b.size <= chunks[a].size
BlocksInv(C) ==
    /\ \A s \in Slots : held[s] = NoBlock \/ InChunk(held[s], C)
    /\ \A s, t \in Slots : s # t /\ held[s].at # Null => held[s].at # held[t].at

Sound(C) ==
    /\ Chain(chunks, heapList, C) /\ Tiles(chunks, C, pages)
    /\ CallsInv(C) /\ BlocksInv(C)
HeapInv == TypeInv /\ \E C \in SUBSET Addresses : Sound(C)

-----------------------------------------------------------------------------
(* Pages and addresses.                                                    *)

\* A page is a non-empty interval, and two of them share no byte.
LEMMA PageRange ==
    ASSUME NEW p \in Nat
    PROVE  /\ p * PageSize \in Nat /\ (p + 1) * PageSize = p * PageSize + PageSize
           /\ p >= 1 => p * PageSize >= PageSize
           /\ PageSize \in Nat /\ HeaderSize \in Nat \ {0} /\ PageSize > HeaderSize
           /\ PageBytes(p) = p * PageSize .. p * PageSize + PageSize - 1
<1>1. PageSize \in Nat /\ HeaderSize \in Nat \ {0} /\ PageSize > HeaderSize
    BY HeapAssumption
<1>2. /\ p * PageSize \in Nat /\ (p + 1) * PageSize = p * PageSize + PageSize
      /\ p >= 1 => p * PageSize >= PageSize
    BY <1>1
<1> QED BY <1>1, <1>2 DEF PageBytes

LEMMA InPage ==
    ASSUME NEW p \in Nat, NEW x
    PROVE  x \in PageBytes(p) <=>
              x \in Int /\ p * PageSize <= x /\ x < p * PageSize + PageSize
<1>1. p * PageSize \in Nat /\ PageSize \in Nat
    BY PageRange
<1>2. PageBytes(p) = p * PageSize .. p * PageSize + PageSize - 1
    BY PageRange
<1> QED BY <1>1, <1>2

LEMMA PagesInOrder ==
    ASSUME NEW p \in Nat, NEW q \in Nat, p < q
    PROVE  p * PageSize + PageSize <= q * PageSize
<1>1. PageSize \in Nat
    BY HeapAssumption
<1>2. \A d, s \in Nat : (p + 1 + d) * s >= p * s + s
    OBVIOUS
<1>3. q - (p + 1) \in Nat /\ p + 1 + (q - (p + 1)) = q
    OBVIOUS
<1> QED BY <1>1, <1>2, <1>3

LEMMA PagesApart ==
    ASSUME NEW p \in Nat, NEW q \in Nat, NEW x \in PageBytes(p), x \in PageBytes(q)
    PROVE  p = q
<1>1. /\ p * PageSize \in Nat /\ q * PageSize \in Nat /\ PageSize \in Nat /\ x \in Int
      /\ p * PageSize <= x /\ x < p * PageSize + PageSize
      /\ q * PageSize <= x /\ x < q * PageSize + PageSize
    BY PageRange, InPage
<1>2. ASSUME p < q PROVE FALSE
    BY <1>1, <1>2, PagesInOrder
<1>3. ASSUME q < p PROVE FALSE
    BY <1>1, <1>3, PagesInOrder
<1> QED BY <1>2, <1>3

\* A run of pages is one interval.
LEMMA PagesInRow ==
    ASSUME NEW p \in Nat, NEW n \in Nat, NEW x \in Int
    PROVE  (p * PageSize <= x /\ x < p * PageSize + n * PageSize)
              <=> \E q \in p .. p + n - 1 : x \in PageBytes(q)
<1>1. PageSize \in Nat \ {0}
    BY HeapAssumption
<1>2. ASSUME p * PageSize <= x, x < p * PageSize + n * PageSize
      PROVE  \E q \in p .. p + n - 1 : x \in PageBytes(q)
    <2> DEFINE q == x \div PageSize
    <2>1. q \in Int /\ q * PageSize <= x /\ x < q * PageSize + PageSize
        BY <1>1
    <2>2. x \in Nat /\ q \in Nat
        BY <1>1, <1>2, <2>1
    <2> HIDE DEF q
    <2>3. ~(q < p)
        BY <1>1, <1>2, <2>1, <2>2, PagesInOrder
    <2>4. (p + n) * PageSize = p * PageSize + n * PageSize
        BY <1>1
    <2>5. ~(q > p + n)
        <3>1. q > p + n => (p + n) * PageSize + PageSize <= q * PageSize
            BY <2>2, PagesInOrder
        <3> QED BY <1>1, <1>2, <2>1, <2>2, <2>4, <3>1
    <2>6. q # p + n
        BY <1>1, <1>2, <2>1, <2>2, <2>4
    <2>7. q \in p .. p + n - 1
        BY <2>2, <2>3, <2>5, <2>6
    <2> QED BY <2>1, <2>2, <2>7, InPage
<1>3. ASSUME NEW q \in p .. p + n - 1, x \in PageBytes(q)
      PROVE  p * PageSize <= x /\ x < p * PageSize + n * PageSize
    <2>1. q \in Nat /\ q * PageSize <= x /\ x < q * PageSize + PageSize
          /\ p * PageSize \in Nat /\ q * PageSize \in Nat /\ n * PageSize \in Nat
        BY <1>1, <1>3, PageRange, InPage
    <2>2. p = q \/ p * PageSize + PageSize <= q * PageSize
        BY <2>1, PagesInOrder
    <2>3. (p + n) * PageSize = p * PageSize + n * PageSize
        BY <1>1
    <2>4. q * PageSize + PageSize <= (p + n) * PageSize
        BY <2>1, PagesInOrder
    <2> QED BY <1>1, <2>1, <2>2, <2>3, <2>4
<1> QED BY <1>2, <1>3

\* Addresses are those of the bytes of the pages; there are finitely many, and Null is none.
LEMMA AddressRange ==
    /\ Addresses \subseteq Nat \ {0} /\ IsFiniteSet(Addresses)
    /\ Pages \subseteq Nat \ {0}
    /\ HeaderSize \in Nat \ {0} /\ PageSize \in Nat \ {0} /\ PageSize > HeaderSize
    /\ RequestSizes \subseteq Nat \ {0}
<1>1. Pages \subseteq Nat \ {0} /\ IsFiniteSet(Pages) /\ HeaderSize \in Nat \ {0}
      /\ PageSize \in Nat \ {0} /\ PageSize > HeaderSize /\ RequestSizes \subseteq Nat \ {0}
    BY HeapAssumption
<1>2. ASSUME NEW p \in Pages PROVE PageBytes(p) \subseteq Nat \ {0} /\ IsFiniteSet(PageBytes(p))
    <2>1. /\ p * PageSize \in Nat \ {0} /\ PageSize \in Nat
          /\ PageBytes(p) = p * PageSize .. p * PageSize + PageSize - 1
        BY <1>1, PageRange
    <2>2. IsFiniteSet(p * PageSize .. p * PageSize + PageSize - 1)
        BY <2>1, FS_Interval
    <2> QED BY <2>1, <2>2
<1>3. IsFiniteSet({PageBytes(p) : p \in Pages})
    <2> DEFINE f == [p \in Pages |-> PageBytes(p)]
               T == {PageBytes(p) : p \in Pages}
    <2>1. f \in Surjection(Pages, T)
        BY DEF Surjection
    <2> HIDE DEF f, T
    <2>2. IsFiniteSet(T)
        BY <1>1, <2>1, FS_Surjection
    <2> QED BY <2>2 DEF T
<1>4. Addresses \subseteq Nat \ {0}
    BY <1>2 DEF Addresses
<1>5. IsFiniteSet(Addresses)
    BY <1>2, <1>3, FS_UNION DEF Addresses
<1> QED BY <1>1, <1>4, <1>5

-----------------------------------------------------------------------------
(* The list.                                                               *)

\* What next and prev of a header in the list can be.
LEMMA ChainLinks ==
    ASSUME NEW ch, NEW head, NEW C, C \subseteq Nat \ {0}, Chain(ch, head, C)
    PROVE  /\ head \in C \cup {Null} /\ (head = Null <=> C = {})
           /\ \A a \in C : /\ ch[a].next \in C \cup {Null} /\ ch[a].next # a
                           /\ ch[a].prev \in C \cup {Null} /\ ch[a].prev # a
                           /\ ch[a].next # Null => ch[ch[a].next].prev = a
                           /\ ch[a].prev # Null => ch[ch[a].prev].next = a
           /\ \A a, b \in C : ch[a].next = Null /\ ch[b].next = Null => a = b
           /\ C # {} => \E a \in C : ch[a].next = Null
<1>1. PICK n \in Nat : \E L \in [1 .. n -> C] : IsList(L, n, ch, head, C)
    BY DEF Chain
<1>2. PICK L \in [1 .. n -> C] : IsList(L, n, ch, head, C)
    BY <1>1
<1>3. Null \notin C /\ \A i \in 1 .. n : L[i] \in C
    BY <1>2 DEF Null
<1>4. head \in C \cup {Null} /\ (head = Null <=> C = {})
    <2>1. CASE n = 0
        <3>1. C = {}
            BY <1>2, <2>1 DEF IsList
        <3> QED BY <1>2, <2>1, <3>1 DEF IsList
    <2>2. CASE n # 0
        <3>1. 1 \in 1 .. n
            BY <2>2
        <3>2. head = L[1]
            BY <1>2, <2>2 DEF IsList
        <3>3. L[1] \in C
            BY <1>3, <3>1
        <3> QED BY <1>3, <3>2, <3>3
    <2> QED BY <2>1, <2>2
<1>5. ASSUME NEW a \in C
      PROVE  /\ ch[a].next \in C \cup {Null} /\ ch[a].next # a
             /\ ch[a].prev \in C \cup {Null} /\ ch[a].prev # a
             /\ ch[a].next # Null => ch[ch[a].next].prev = a
             /\ ch[a].prev # Null => ch[ch[a].prev].next = a
    <2>1. PICK i \in 1 .. n : L[i] = a
        BY <1>2 DEF IsList
    <2>2. /\ ch[a].next = IF i = n THEN Null ELSE L[i + 1]
          /\ ch[a].prev = IF i = 1 THEN Null ELSE L[i - 1]
        BY <1>2, <2>1 DEF IsList
    <2>3. /\ i # n => i + 1 \in 1 .. n /\ i + 1 # i /\ i + 1 # 1 /\ (i + 1) - 1 = i
          /\ i # 1 => i - 1 \in 1 .. n /\ i - 1 # i /\ i - 1 # n /\ (i - 1) + 1 = i
        OBVIOUS
    <2>4. i # n => L[i + 1] \in C /\ L[i + 1] # a /\ ch[L[i + 1]].prev = a
        BY <1>2, <1>3, <2>1, <2>3 DEF IsList
    <2>5. i # 1 => L[i - 1] \in C /\ L[i - 1] # a /\ ch[L[i - 1]].next = a
        BY <1>2, <1>3, <2>1, <2>3 DEF IsList
    <2> QED BY <1>3, <2>2, <2>4, <2>5
<1>6. \A a \in C : ch[a].next = Null => a = L[n]
    <2>1. ASSUME NEW a \in C, ch[a].next = Null PROVE a = L[n]
        <3>1. PICK i \in 1 .. n : L[i] = a
            BY <1>2 DEF IsList
        <3>2. i # n => i + 1 \in 1 .. n
            OBVIOUS
        <3>3. ch[a].next = IF i = n THEN Null ELSE L[i + 1]
            BY <1>2, <3>1 DEF IsList
        <3> QED BY <1>3, <2>1, <3>1, <3>2, <3>3
    <2> QED BY <2>1
<1>7. C # {} => n \in 1 .. n /\ L[n] \in C /\ ch[L[n]].next = Null
    <2>1. C # {} => n \in 1 .. n
        BY <1>2 DEF IsList
    <2> QED BY <1>2, <1>3, <2>1 DEF IsList
<1> QED BY <1>4, <1>5, <1>6, <1>7

\* The list does not turn back.
LEMMA ChainForward ==
    ASSUME NEW ch, NEW head, NEW C, C \subseteq Nat \ {0}, Chain(ch, head, C),
           NEW a \in C, NEW b \in C, ch[a].next = b
    PROVE  ch[b].next # a
<1>1. PICK n \in Nat : \E L \in [1 .. n -> C] : IsList(L, n, ch, head, C)
    BY DEF Chain
<1>2. PICK L \in [1 .. n -> C] : IsList(L, n, ch, head, C)
    BY <1>1
<1>3. Null \notin C /\ \A i \in 1 .. n : L[i] \in C
    BY <1>2 DEF Null
<1>4. PICK i \in 1 .. n : L[i] = a
    BY <1>2 DEF IsList
<1>5. i # n /\ L[i + 1] = b /\ i + 1 \in 1 .. n
    <2>1. ch[a].next = IF i = n THEN Null ELSE L[i + 1]
        BY <1>2, <1>4 DEF IsList
    <2> QED BY <1>3, <2>1
<1>6. ch[b].next = IF i + 1 = n THEN Null ELSE L[(i + 1) + 1]
    BY <1>2, <1>5 DEF IsList
<1>7. i + 1 # n => (i + 1) + 1 \in 1 .. n /\ (i + 1) + 1 # i
    BY <1>5
<1>8. i + 1 # n => L[(i + 1) + 1] # a
    BY <1>2, <1>4, <1>7 DEF IsList
<1> QED BY <1>3, <1>4, <1>6, <1>8

\* A header that is alone is a list.
LEMMA ChainFirst ==
    ASSUME NEW ch, NEW r, ch[r].next = Null, ch[r].prev = Null
    PROVE  Chain(ch, r, {r})
<1> DEFINE L == [i \in 1 .. 1 |-> r]
<1>1. L \in [1 .. 1 -> {r}] /\ L[1] = r
    OBVIOUS
<1>2. IsList(L, 1, ch, r, {r})
    BY DEF IsList
<1> QED BY <1>1, <1>2 DEF Chain

LEMMA ChainEmpty ==
    ASSUME NEW ch
    PROVE  Chain(ch, Null, {})
<1> DEFINE L == [i \in 1 .. 0 |-> Null]
<1>1. L \in [1 .. 0 -> {}]
    OBVIOUS
<1>2. IsList(L, 0, ch, Null, {})
    BY DEF IsList
<1> QED BY <1>1, <1>2 DEF Chain

\* The links of the same headers do not change.
LEMMA ChainSame ==
    ASSUME NEW ch, NEW new, NEW head, NEW C, Chain(ch, head, C),
           \A a \in C : new[a].next = ch[a].next /\ new[a].prev = ch[a].prev
    PROVE  Chain(new, head, C)
<1>1. PICK n \in Nat : \E L \in [1 .. n -> C] : IsList(L, n, ch, head, C)
    BY DEF Chain
<1>2. PICK L \in [1 .. n -> C] : IsList(L, n, ch, head, C)
    BY <1>1
<1>3. IsList(L, n, new, head, C)
    <2>1. \A i \in 1 .. n : L[i] \in C
        OBVIOUS
    <2> QED BY <1>2, <2>1 DEF IsList
<1> QED BY <1>3 DEF Chain

\* r is put behind a.
Behind(ch, new, C, a, r) ==
    /\ new[r].next = ch[a].next /\ new[r].prev = a
    /\ new[a].next = r /\ new[a].prev = ch[a].prev
    /\ \A x \in C \ {a} : /\ new[x].next = ch[x].next
                         /\ new[x].prev = IF x = ch[a].next THEN r ELSE ch[x].prev

LEMMA ChainInsert ==
    ASSUME NEW ch, NEW new, NEW head, NEW C, C \subseteq Nat \ {0}, Chain(ch, head, C),
           NEW a \in C, NEW r \in Nat \ {0}, r \notin C, Behind(ch, new, C, a, r)
    PROVE  Chain(new, head, C \cup {r})
<1>0. /\ new[r].next = ch[a].next /\ new[r].prev = a
      /\ new[a].next = r /\ new[a].prev = ch[a].prev
      /\ \A x \in C \ {a} : /\ new[x].next = ch[x].next
                           /\ new[x].prev = IF x = ch[a].next THEN r ELSE ch[x].prev
    BY DEF Behind
<1>1. PICK n \in Nat : \E L \in [1 .. n -> C] : IsList(L, n, ch, head, C)
    BY DEF Chain
<1>2. PICK L \in [1 .. n -> C] : IsList(L, n, ch, head, C)
    BY <1>1
<1>3. PICK k \in 1 .. n : L[k] = a
    BY <1>2 DEF IsList
<1> DEFINE M == [i \in 1 .. n + 1 |-> IF i <= k THEN L[i] ELSE IF i = k + 1 THEN r ELSE L[i - 1]]
           D == C \cup {r}
<1>4. Null \notin C /\ \A i \in 1 .. n : L[i] \in C /\ L[i] # r /\ L[i] # Null
    BY <1>2 DEF Null
<1>5. /\ n + 1 \in Nat /\ k \in 1 .. n + 1 /\ k + 1 \in 1 .. n + 1 /\ 1 <= k /\ k <= n /\ n \in Nat /\ k \in Nat
    BY <1>3
<1>6. \A i \in 1 .. n + 1 :
         \/ i <= k /\ i \in 1 .. n /\ M[i] = L[i]
         \/ i = k + 1 /\ M[i] = r
         \/ i > k + 1 /\ i - 1 \in 1 .. n /\ i - 1 > k /\ M[i] = L[i - 1]
    BY <1>5
<1>7. M \in [1 .. n + 1 -> D]
    <2>1. \A i \in 1 .. n + 1 : M[i] \in D
        BY <1>4, <1>6
    <2> QED BY <2>1
<1>8. \A i \in 1 .. n : (i <= k => i \in 1 .. n + 1 /\ M[i] = L[i]) /\ (i > k => i + 1 \in 1 .. n + 1 /\ M[i + 1] = L[i])
    BY <1>5
<1>9. M[k + 1] = r /\ M[k] = a
    BY <1>3, <1>5
<1> HIDE DEF M
<1>10. \A d \in D : \E i \in 1 .. n + 1 : M[i] = d
    <2>1. ASSUME NEW d \in C PROVE \E i \in 1 .. n + 1 : M[i] = d
        <3>1. PICK i \in 1 .. n : L[i] = d
            BY <1>2 DEF IsList
        <3> QED BY <1>8, <3>1
    <2> QED BY <1>5, <1>9, <2>1
<1>11. \A i, j \in 1 .. n + 1 : M[i] = M[j] => i = j
    <2> SUFFICES ASSUME NEW i \in 1 .. n + 1, NEW j \in 1 .. n + 1, M[i] = M[j] PROVE i = j
        OBVIOUS
    <2>1. \A u, v \in 1 .. n : L[u] = L[v] => u = v
        BY <1>2 DEF IsList
    <2>2. (i = k + 1) <=> (j = k + 1)
        BY <1>4, <1>6
    <2>3. CASE i # k + 1 /\ j # k + 1
        BY <1>6, <2>1, <2>3
    <2> QED BY <2>2, <2>3
<1>12. head = IF n + 1 = 0 THEN Null ELSE M[1]
    <2>1. head = L[1] /\ 1 \in 1 .. n
        BY <1>2, <1>5 DEF IsList
    <2> QED BY <1>5, <1>8, <2>1
<1>13. /\ ch[a].next = IF k = n THEN Null ELSE L[k + 1]
       /\ ch[a].prev = IF k = 1 THEN Null ELSE L[k - 1]
    BY <1>2, <1>3 DEF IsList
<1>14. \A i \in 1 .. n : L[i] = a <=> i = k
    BY <1>2, <1>3 DEF IsList
<1>15. \A i \in 1 .. n : i # k => (L[i] = ch[a].next <=> i = k + 1)
    <2> SUFFICES ASSUME NEW i \in 1 .. n, i # k PROVE L[i] = ch[a].next <=> i = k + 1
        OBVIOUS
    <2>1. CASE k = n
        BY <1>4, <1>5, <1>13, <2>1
    <2>2. CASE k # n
        <3>1. k + 1 \in 1 .. n
            BY <1>5, <2>2
        <3> QED BY <1>2, <1>13, <2>2, <3>1 DEF IsList
    <2> QED BY <2>1, <2>2
<1>16. ASSUME NEW i \in 1 .. n + 1
       PROVE  /\ new[M[i]].next = IF i = n + 1 THEN Null ELSE M[i + 1]
              /\ new[M[i]].prev = IF i = 1 THEN Null ELSE M[i - 1]
    <2>1. CASE i = k + 1
        <3>1. new[M[i]].next = ch[a].next /\ new[M[i]].prev = a
            BY <1>0, <1>9, <2>1
        <3>2. i # n + 1 => M[i + 1] = L[k + 1]
            <4>1. k # n => k + 1 \in 1 .. n /\ k + 1 > k
                BY <1>5
            <4> QED BY <1>5, <1>8, <2>1, <4>1
        <3>3. (i = n + 1 <=> k = n) /\ i # 1 /\ i - 1 = k
            BY <1>5, <2>1
        <3> QED BY <1>9, <1>13, <3>1, <3>2, <3>3
    <2>2. CASE i = k
        <3>1. new[M[i]].next = r /\ new[M[i]].prev = ch[a].prev
            BY <1>0, <1>9, <2>2
        <3>2. i # n + 1 /\ i + 1 = k + 1
            BY <1>5, <2>2
        <3>3. i # 1 => M[i - 1] = L[k - 1]
            <4>1. k # 1 => k - 1 \in 1 .. n /\ k - 1 <= k
                BY <1>5
            <4> QED BY <1>8, <2>2, <4>1
        <3> QED BY <1>9, <1>13, <2>2, <3>1, <3>2, <3>3
    <2>3. CASE i < k
        <3>1. i \in 1 .. n /\ M[i] = L[i] /\ i # k /\ i # k + 1 /\ i # n /\ i # n + 1
            BY <1>5, <1>6, <2>3
        <3>2. new[L[i]].next = ch[L[i]].next /\ new[L[i]].prev = ch[L[i]].prev
            BY <1>0, <1>4, <1>14, <1>15, <3>1
        <3>3. i + 1 \in 1 .. n /\ i + 1 <= k /\ M[i + 1] = L[i + 1]
            BY <1>5, <1>8, <2>3
        <3>4. i # 1 => M[i - 1] = L[i - 1]
            <4>1. i # 1 => i - 1 \in 1 .. n /\ i - 1 <= k
                BY <1>5, <2>3
            <4> QED BY <1>8, <4>1
        <3> QED BY <1>2, <3>1, <3>2, <3>3, <3>4 DEF IsList
    <2>4. CASE i > k + 1
        <3>1. /\ i - 1 \in 1 .. n /\ M[i] = L[i - 1] /\ i - 1 # k /\ i # 1 /\ i - 1 # 1
              /\ (i = n + 1 <=> i - 1 = n) /\ (i - 1) + 1 = i
            BY <1>5, <1>6, <2>4
        <3>2. /\ new[L[i - 1]].next = ch[L[i - 1]].next
              /\ new[L[i - 1]].prev = IF i - 1 = k + 1 THEN r ELSE ch[L[i - 1]].prev
            BY <1>0, <1>4, <1>14, <1>15, <3>1
        <3>3. /\ ch[L[i - 1]].next = IF i - 1 = n THEN Null ELSE L[i]
              /\ ch[L[i - 1]].prev = L[(i - 1) - 1]
            BY <1>2, <3>1 DEF IsList
        <3>4. i # n + 1 => M[i + 1] = L[i]
            <4>1. i # n + 1 => i \in 1 .. n /\ i > k
                BY <1>5, <2>4
            <4> QED BY <1>8, <4>1
        <3>5. i - 1 = k + 1 => M[i - 1] = r
            BY <1>9
        <3>6. i - 1 # k + 1 => M[i - 1] = L[(i - 1) - 1]
            <4>1. i - 1 # k + 1 => i - 1 \in 1 .. n + 1 /\ i - 1 > k + 1
                BY <1>5, <2>4
            <4> QED BY <1>6, <4>1
        <3> QED BY <3>1, <3>2, <3>3, <3>4, <3>5, <3>6
    <2> QED BY <1>5, <2>1, <2>2, <2>3, <2>4
<1>17. IsList(M, n + 1, new, head, D)
    BY <1>10, <1>11, <1>12, <1>16 DEF IsList
<1> QED BY <1>5, <1>7, <1>17 DEF Chain

\* b, the header behind a, is taken out.
Bypassed(ch, new, C, a, b) ==
    /\ new[a].next = ch[b].next /\ new[a].prev = ch[a].prev
    /\ \A x \in C \ {a, b} :
          /\ new[x].next = ch[x].next
          /\ new[x].prev = IF x = ch[b].next THEN a ELSE ch[x].prev

LEMMA ChainRemove ==
    ASSUME NEW ch, NEW new, NEW head, NEW C, C \subseteq Nat \ {0}, Chain(ch, head, C),
           NEW a \in C, NEW b \in C, ch[a].next = b, Bypassed(ch, new, C, a, b)
    PROVE  Chain(new, head, C \ {b})
<1>0. /\ new[a].next = ch[b].next /\ new[a].prev = ch[a].prev
      /\ \A x \in C \ {a, b} : /\ new[x].next = ch[x].next
                              /\ new[x].prev = IF x = ch[b].next THEN a ELSE ch[x].prev
    BY DEF Bypassed
<1>1. PICK n \in Nat : \E L \in [1 .. n -> C] : IsList(L, n, ch, head, C)
    BY DEF Chain
<1>2. PICK L \in [1 .. n -> C] : IsList(L, n, ch, head, C)
    BY <1>1
<1>3. PICK k \in 1 .. n : L[k] = a
    BY <1>2 DEF IsList
<1> DEFINE M == [i \in 1 .. n - 1 |-> IF i <= k THEN L[i] ELSE L[i + 1]]
           D == C \ {b}
<1>4. Null \notin C /\ \A i \in 1 .. n : L[i] \in C /\ L[i] # Null
    BY <1>2 DEF Null
<1>5. k # n /\ L[k + 1] = b
    <2>1. ch[a].next = IF k = n THEN Null ELSE L[k + 1]
        BY <1>2, <1>3 DEF IsList
    <2> QED BY <1>4, <2>1
<1>6. /\ n - 1 \in Nat /\ k \in 1 .. n - 1 /\ k + 1 \in 1 .. n /\ 1 <= k /\ k < n
      /\ n \in Nat /\ k \in Nat
    BY <1>3, <1>5
<1>7. \A i \in 1 .. n : (L[i] = a <=> i = k) /\ (L[i] = b <=> i = k + 1)
    BY <1>2, <1>3, <1>5, <1>6 DEF IsList
<1>8. \A i \in 1 .. n - 1 :
         \/ i <= k /\ i \in 1 .. n /\ i # k + 1 /\ M[i] = L[i]
         \/ i > k /\ i + 1 \in 1 .. n /\ i + 1 # k + 1 /\ i + 1 # k /\ M[i] = L[i + 1]
    BY <1>6
<1>9. M \in [1 .. n - 1 -> D]
    <2>1. \A i \in 1 .. n - 1 : M[i] \in D
        BY <1>4, <1>7, <1>8
    <2> QED BY <2>1
<1>10. \A i \in 1 .. n : /\ i <= k => i \in 1 .. n - 1 /\ M[i] = L[i]
                         /\ i > k + 1 => i - 1 \in 1 .. n - 1 /\ M[i - 1] = L[i]
    BY <1>6
<1> HIDE DEF M
<1>11. \A d \in D : \E i \in 1 .. n - 1 : M[i] = d
    <2> SUFFICES ASSUME NEW d \in D PROVE \E i \in 1 .. n - 1 : M[i] = d
        OBVIOUS
    <2>1. PICK i \in 1 .. n : L[i] = d
        BY <1>2 DEF IsList
    <2>2. i # k + 1
        BY <1>7, <2>1
    <2>3. i <= k \/ i > k + 1
        BY <1>6, <2>2
    <2> QED BY <1>10, <2>1, <2>3
<1>12. \A i, j \in 1 .. n - 1 : M[i] = M[j] => i = j
    <2> SUFFICES ASSUME NEW i \in 1 .. n - 1, NEW j \in 1 .. n - 1, M[i] = M[j] PROVE i = j
        OBVIOUS
    <2>1. \A u, v \in 1 .. n : L[u] = L[v] => u = v
        BY <1>2 DEF IsList
    <2> QED BY <1>6, <1>8, <2>1
<1>13. head = IF n - 1 = 0 THEN Null ELSE M[1]
    <2>1. head = L[1] /\ 1 \in 1 .. n
        BY <1>2, <1>6 DEF IsList
    <2> QED BY <1>6, <1>10, <2>1
<1>14. /\ ch[a].prev = IF k = 1 THEN Null ELSE L[k - 1]
       /\ ch[b].next = IF k + 1 = n THEN Null ELSE L[k + 2]
    <2>1. (k + 1) + 1 = k + 2
        BY <1>6
    <2> QED BY <1>2, <1>3, <1>5, <1>6, <2>1 DEF IsList
<1>15. \A i \in 1 .. n : i # k => (L[i] = ch[b].next <=> i = k + 2)
    <2> SUFFICES ASSUME NEW i \in 1 .. n, i # k PROVE L[i] = ch[b].next <=> i = k + 2
        OBVIOUS
    <2>1. CASE k + 1 = n
        BY <1>4, <1>6, <1>14, <2>1
    <2>2. CASE k + 1 # n
        <3>1. k + 2 \in 1 .. n
            BY <1>6, <2>2
        <3> QED BY <1>2, <1>14, <2>2, <3>1 DEF IsList
    <2> QED BY <2>1, <2>2
<1>16. ASSUME NEW i \in 1 .. n - 1
       PROVE  /\ new[M[i]].next = IF i = n - 1 THEN Null ELSE M[i + 1]
              /\ new[M[i]].prev = IF i = 1 THEN Null ELSE M[i - 1]
    <2>1. CASE i = k
        <3>1. M[i] = a /\ new[M[i]].next = ch[b].next /\ new[M[i]].prev = ch[a].prev
            BY <1>0, <1>3, <1>6, <1>10, <2>1
        <3>2. i # n - 1 => M[i + 1] = L[k + 2]
            <4>1. i # n - 1 => k + 2 \in 1 .. n /\ k + 2 > k + 1 /\ (k + 2) - 1 = i + 1
                BY <1>6, <2>1
            <4> QED BY <1>10, <4>1
        <3>3. i # 1 => M[i - 1] = L[k - 1]
            <4>1. k # 1 => k - 1 \in 1 .. n /\ k - 1 <= k
                BY <1>6
            <4> QED BY <1>10, <2>1, <4>1
        <3>4. i = n - 1 <=> k + 1 = n
            BY <1>6, <2>1
        <3> QED BY <1>14, <2>1, <3>1, <3>2, <3>3, <3>4
    <2>2. CASE i < k
        <3>1. i \in 1 .. n /\ M[i] = L[i] /\ i # k /\ i # k + 1 /\ i # k + 2 /\ i # n /\ i # n - 1
            BY <1>6, <1>10, <2>2
        <3>2. new[L[i]].next = ch[L[i]].next /\ new[L[i]].prev = ch[L[i]].prev
            BY <1>0, <1>4, <1>7, <1>15, <3>1
        <3>3. i + 1 \in 1 .. n /\ i + 1 <= k /\ M[i + 1] = L[i + 1]
            BY <1>6, <1>10, <2>2
        <3>4. i # 1 => M[i - 1] = L[i - 1]
            <4>1. i # 1 => i - 1 \in 1 .. n /\ i - 1 <= k
                BY <1>6, <2>2
            <4> QED BY <1>10, <4>1
        <3> QED BY <1>2, <3>1, <3>2, <3>3, <3>4 DEF IsList
    <2>3. CASE i > k
        <3>1. /\ i + 1 \in 1 .. n /\ M[i] = L[i + 1] /\ i + 1 # k /\ i + 1 # k + 1
              /\ i # 1 /\ i + 1 # 1 /\ (i = n - 1 <=> i + 1 = n) /\ (i + 1) - 1 = i
              /\ (i + 1 = k + 2 <=> i = k + 1)
            BY <1>6, <1>8, <2>3
        <3>2. /\ new[L[i + 1]].next = ch[L[i + 1]].next
              /\ new[L[i + 1]].prev = IF i = k + 1 THEN a ELSE ch[L[i + 1]].prev
            BY <1>0, <1>4, <1>7, <1>15, <3>1
        <3>3. /\ ch[L[i + 1]].next = IF i + 1 = n THEN Null ELSE L[(i + 1) + 1]
              /\ ch[L[i + 1]].prev = L[i]
            BY <1>2, <3>1 DEF IsList
        <3>4. i # n - 1 => M[i + 1] = L[(i + 1) + 1]
            <4>1. i # n - 1 => (i + 1) + 1 \in 1 .. n /\ (i + 1) + 1 > k + 1 /\ ((i + 1) + 1) - 1 = i + 1
                BY <1>6, <2>3
            <4> QED BY <1>10, <4>1
        <3>5. i = k + 1 => M[i - 1] = a
            BY <1>3, <1>6, <1>10
        <3>6. i # k + 1 => M[i - 1] = L[i]
            <4>1. i # k + 1 => i \in 1 .. n /\ i > k + 1
                BY <1>6, <2>3
            <4> QED BY <1>10, <4>1
        <3> QED BY <3>1, <3>2, <3>3, <3>4, <3>5, <3>6
    <2> QED BY <1>6, <2>1, <2>2, <2>3
<1>17. IsList(M, n - 1, new, head, D)
    BY <1>11, <1>12, <1>13, <1>16 DEF IsList
<1> QED BY <1>6, <1>9, <1>17 DEF Chain

\* A set of numbers that is not empty has a least one.
LEMMA LeastNumber ==
    ASSUME NEW T, T \subseteq Nat, T # {}
    PROVE  \E x \in T : \A y \in T : x <= y
<1> DEFINE R == StrictSubsetOrdering(Nat)
           I == {1 .. n : n \in T}
<1>1. IsWellFoundedOn(R, FiniteSubsetsOf(Nat))
    BY FS_StrictSubsetOrderingWellFounded
<1>2. I \subseteq FiniteSubsetsOf(Nat) /\ I # {}
    <2>1. \A n \in T : IsFiniteSet(1 .. n) /\ 1 .. n \subseteq Nat
        BY FS_Interval
    <2> QED BY <2>1 DEF FiniteSubsetsOf
<1>3. PICK X \in I : \A Y \in I : ~(<<Y, X>> \in R)
    <2> HIDE DEF I, R
    <2> QED BY <1>1, <1>2, WFMin
<1>4. PICK x \in T : X = 1 .. x
    OBVIOUS
<1>5. ASSUME NEW y \in T, y < x PROVE FALSE
    <2>1. 1 .. y \subseteq 1 .. x /\ x \in 1 .. x /\ x \notin 1 .. y
        BY <1>5
    <2>2. <<1 .. y, X>> \in R
        BY <2>1, <1>4 DEF StrictSubsetOrdering
    <2> QED BY <1>3, <2>2
<1> QED BY <1>5

\* Linked, which follows the links from the head, finds the headers of the list.
LEMMA LinkedIs ==
    ASSUME NEW C, C \subseteq Addresses, Chain(chunks, heapList, C)
    PROVE  Linked = C
<1>1. PICK n \in Nat : \E L \in [1 .. n -> C] : IsList(L, n, chunks, heapList, C)
    BY DEF Chain
<1>2. PICK L \in [1 .. n -> C] : IsList(L, n, chunks, heapList, C)
    BY <1>1
<1>3. /\ IsFiniteSet(Addresses) /\ Cardinality(Addresses) \in Nat /\ Null \notin C
      /\ \A i \in 1 .. n : L[i] \in C
    BY AddressRange, FS_CardinalityType DEF Null
<1>4. n <= Cardinality(Addresses)
    <2>1. L \in Injection(1 .. n, Addresses)
        BY <1>2 DEF IsList, Injection, IsInjective
    <2>2. Cardinality(1 .. n) <= Cardinality(Addresses)
        BY <1>3, <2>1, FS_Injection
    <2>3. Cardinality(1 .. n) = n
        BY FS_Interval
    <2> QED BY <2>2, <2>3
<1> DEFINE F(w) == [m \in Depth |->
                       IF m = 0 THEN heapList
                       ELSE IF w[m - 1] = Null THEN Null ELSE chunks[w[m - 1]].next]
           v == [m \in Depth |-> IF m < n THEN L[m + 1] ELSE Null]
           walk == CHOOSE w : w = F(w)
<1>5. /\ \A m \in Depth : m \in Nat /\ (m # 0 => m - 1 \in Depth)
      /\ Depth = 0 .. Cardinality(Addresses)
    BY <1>3 DEF Depth
\* The list, followed by nothing, is such a walk ...
<1>6. v = F(v)
    <2>1. ASSUME NEW m \in Depth PROVE v[m] = F(v)[m]
        <3>1. CASE m = 0
            BY <1>2, <1>5, <3>1 DEF IsList
        <3>2. CASE m # 0
            <4>1. m - 1 \in Depth /\ m \in Nat /\ (m - 1) + 1 = m
                BY <1>5, <3>2
            <4>2. v[m - 1] = IF m - 1 < n THEN L[m] ELSE Null
                BY <4>1
            <4>3. CASE m - 1 < n
                <5>1. m \in 1 .. n
                    BY <3>2, <4>1, <4>3
                <5>2. v[m - 1] # Null /\ chunks[v[m - 1]].next = IF m = n THEN Null ELSE L[m + 1]
                    BY <1>2, <1>3, <4>2, <4>3, <5>1 DEF IsList
                <5>3. m < n <=> m # n
                    BY <5>1
                <5> QED BY <3>2, <5>2, <5>3
            <4>4. CASE ~(m - 1 < n)
                <5>1. ~(m < n)
                    BY <4>1, <4>4
                <5> QED BY <3>2, <4>2, <4>4, <5>1
            <4> QED BY <4>3, <4>4
        <3> QED BY <3>1, <3>2
    <2> QED BY <2>1
\* ... and the only one: another would differ from it first at some depth.
<1>7. walk = F(walk)
    <2> HIDE DEF v, F
    <2> QED BY <1>6
<1> HIDE DEF walk
<1>8. \A m \in Depth : walk[m] = v[m]
    <2> DEFINE T == {m \in Depth : walk[m] # v[m]}
    <2>1. SUFFICES ASSUME T # {} PROVE FALSE
        OBVIOUS
    <2>2. T \subseteq Nat
        BY <1>5
    <2>3. PICK m \in T : \A y \in T : m <= y
        <3> HIDE DEF T
        <3> QED BY <2>1, <2>2, LeastNumber
    <2>4. m = 0 \/ walk[m - 1] = v[m - 1]
        BY <1>5, <2>3
    <2>5. F(walk)[m] = F(v)[m]
        <3> HIDE DEF v
        <3> QED BY <2>4
    <2> HIDE DEF v, F
    <2> QED BY <1>6, <1>7, <2>5
<1>9. Linked = {walk[m] : m \in Depth} \ {Null}
    BY DEF Linked, walk
<1>10. \A d : d \in Linked <=> \E i \in 1 .. n : L[i] = d
    <2>1. ASSUME NEW m \in Depth, v[m] # Null PROVE \E i \in 1 .. n : L[i] = v[m]
        <3>1. m < n /\ m + 1 \in 1 .. n
            BY <1>5, <2>1
        <3> QED BY <3>1
    <2>2. ASSUME NEW i \in 1 .. n PROVE i - 1 \in Depth /\ v[i - 1] = L[i] /\ L[i] # Null
        <3>1. i - 1 \in Depth /\ i - 1 < n /\ (i - 1) + 1 = i
            BY <1>3, <1>4, <1>5, <2>2
        <3> QED BY <1>3, <3>1
    <2> HIDE DEF v
    <2>3. ASSUME NEW d \in Linked PROVE \E i \in 1 .. n : L[i] = d
        <3>1. PICK m \in Depth : d = walk[m] /\ d # Null
            BY <1>9, <2>3
        <3> QED BY <1>8, <2>1, <3>1
    <2>4. ASSUME NEW i \in 1 .. n PROVE L[i] \in Linked
        <3>1. walk[i - 1] = L[i] /\ L[i] # Null /\ i - 1 \in Depth
            BY <1>8, <2>2
        <3> QED BY <1>9, <3>1
    <2> QED BY <2>3, <2>4
<1>11. \A a \in C : \E i \in 1 .. n : L[i] = a
    BY <1>2 DEF IsList
<1> HIDE DEF v, F
<1>12. \A d : d \in Linked <=> d \in C
    BY <1>3, <1>10, <1>11
<1> QED BY <1>12

-----------------------------------------------------------------------------
(* Merging and splitting.                                                  *)

\* A byte of a chunk is a byte of a page.
LEMMA ChunkInPages ==
    ASSUME NEW ch, NEW C, NEW pg, pg \subseteq Pages, Tiles(ch, C, pg), C \subseteq Int,
           NEW a \in C, ch[a].size \in Nat, NEW x \in a .. End(ch, a) - 1
    PROVE  InPages(x, pg) /\ x \in Addresses
<1>1. x \in Int /\ a <= x /\ x < End(ch, a)
    BY AddressRange DEF End
<1>2. InPages(x, pg)
    BY <1>1 DEF Tiles, InChunks
<1> QED BY <1>2 DEF InPages, Addresses

\* What merging b, the chunk behind a, into a writes.
LEMMA UnlinkIs ==
    ASSUME NEW ch \in [Addresses -> Chunk], NEW C \in SUBSET Addresses, NEW head,
           Chain(ch, head, C), NEW a \in C, NEW b \in C, ch[a].next = b
    PROVE  /\ Unlink(ch, a, b) \in [Addresses -> Chunk]
           /\ a # b /\ ch[b].next # a /\ ch[b].next # b
           /\ Unlink(ch, a, b)[a] = [size |-> ch[a].size + ch[b].size + HeaderSize,
                                     isAllocated |-> ch[a].isAllocated,
                                     next |-> ch[b].next, prev |-> ch[a].prev]
           /\ \A x \in Addresses \ {a} :
                 /\ Unlink(ch, a, b)[x].size = ch[x].size
                 /\ Unlink(ch, a, b)[x].isAllocated = ch[x].isAllocated
                 /\ Unlink(ch, a, b)[x].next = ch[x].next
                 /\ Unlink(ch, a, b)[x].prev = IF x = ch[b].next THEN a ELSE ch[x].prev
<1> DEFINE c == ch[b].next
           merged == [ch EXCEPT ![a].size = @ + ch[b].size + HeaderSize, ![a].next = ch[b].next]
<1>1. /\ C \subseteq Nat \ {0} /\ Addresses \subseteq Nat \ {0} /\ HeaderSize \in Nat /\ a \in Addresses
      /\ b \in Addresses
    BY AddressRange
<1>2. a # b /\ c # b /\ c # a /\ c \in C \cup {Null}
    <2>1. \A x \in C : ch[x].next \in C \cup {Null} /\ ch[x].next # x
        BY <1>1, ChainLinks
    <2>2. ch[b].next # a
        BY <1>1, ChainForward
    <2> QED BY <2>1, <2>2
<1>3. ch[a] \in Chunk /\ ch[b] \in Chunk
    BY <1>1
<1>4. /\ merged[a] = [size |-> ch[a].size + ch[b].size + HeaderSize,
                      isAllocated |-> ch[a].isAllocated, next |-> c, prev |-> ch[a].prev]
      /\ \A x \in Addresses \ {a} : merged[x] = ch[x]
      /\ DOMAIN merged = Addresses
    BY <1>1, <1>3 DEF Chunk
<1>5. merged \in [Addresses -> Chunk]
    <2>1. merged[a] \in Chunk
        BY <1>1, <1>3, <1>4 DEF Chunk
    <2> HIDE DEF c
    <2> QED BY <1>1, <1>3, <2>1
<1> HIDE DEF merged
<1>6. CASE c = Null
    <2>1. Unlink(ch, a, b) = merged
        BY <1>6 DEF Unlink, merged
    <2>2. \A x \in Addresses : x # c
        BY <1>1, <1>6 DEF Null
    <2> HIDE DEF c
    <2> QED BY <1>2, <1>4, <1>5, <2>1, <2>2 DEF c
<1>7. CASE c # Null
    <2>1. Unlink(ch, a, b) = [merged EXCEPT ![c].prev = a]
        BY <1>7 DEF Unlink, merged
    <2>2. c \in Addresses /\ a \in Nat
        BY <1>1, <1>2, <1>7
    <2> HIDE DEF c
    <2> DEFINE new == [merged EXCEPT ![c].prev = a]
    <2>3. /\ new \in [Addresses -> Chunk] /\ new[a] = merged[a]
          /\ \A x \in Addresses \ {c} : new[x] = merged[x]
          /\ new[c] = [merged[c] EXCEPT !.prev = a]
        BY <1>1, <1>2, <1>5, <2>2 DEF Chunk
    <2>4. merged[c] \in Chunk /\ merged[c] = ch[c]
        BY <1>2, <1>4, <1>5, <2>2
    <2>5. /\ new[c].size = ch[c].size /\ new[c].isAllocated = ch[c].isAllocated
          /\ new[c].next = ch[c].next /\ new[c].prev = a
        BY <2>3, <2>4 DEF Chunk
    <2> HIDE DEF new
    <2>6. \A x \in Addresses \ {a} :
                 /\ new[x].size = ch[x].size
                 /\ new[x].isAllocated = ch[x].isAllocated
                 /\ new[x].next = ch[x].next
                 /\ new[x].prev = IF x = c THEN a ELSE ch[x].prev
        BY <1>4, <2>3, <2>5
    <2>7. Unlink(ch, a, b) = new
        BY <2>1 DEF new
    <2> QED BY <1>2, <1>4, <2>3, <2>6, <2>7 DEF c
<1> QED BY <1>6, <1>7

LEMMA UnlinkKeeps ==
    ASSUME NEW ch \in [Addresses -> Chunk], NEW C \in SUBSET Addresses, NEW head, NEW pg,
           Chain(ch, head, C), Tiles(ch, C, pg),
           NEW a \in C, NEW b \in C, ch[a].next = b, End(ch, a) = b
    PROVE  /\ Unlink(ch, a, b) \in [Addresses -> Chunk]
           /\ a # b /\ ch[b].next \in (C \ {b}) \cup {Null}
           /\ Chain(Unlink(ch, a, b), head, C \ {b}) /\ Tiles(Unlink(ch, a, b), C \ {b}, pg)
           /\ Unlink(ch, a, b)[b].next = ch[b].next
           /\ \A x \in C : /\ Unlink(ch, a, b)[x].isAllocated = ch[x].isAllocated
                           /\ Unlink(ch, a, b)[x].size >= ch[x].size
<1>1. PICK new : new = Unlink(ch, a, b)
    OBVIOUS
<1>2. C \subseteq Nat \ {0} /\ C \subseteq Addresses /\ HeaderSize \in Nat \ {0}
    BY AddressRange
<1>3. /\ new \in [Addresses -> Chunk]
      /\ a # b /\ ch[b].next # a /\ ch[b].next # b
      /\ new[a].size = ch[a].size + ch[b].size + HeaderSize
      /\ new[a].isAllocated = ch[a].isAllocated
      /\ new[a].next = ch[b].next /\ new[a].prev = ch[a].prev
      /\ \A x \in C \ {a} :
            /\ new[x].size = ch[x].size /\ new[x].isAllocated = ch[x].isAllocated
            /\ new[x].next = ch[x].next
            /\ new[x].prev = IF x = ch[b].next THEN a ELSE ch[x].prev
    <2>1. /\ new \in [Addresses -> Chunk]
          /\ a # b /\ ch[b].next # a /\ ch[b].next # b
          /\ new[a] = [size |-> ch[a].size + ch[b].size + HeaderSize,
                       isAllocated |-> ch[a].isAllocated,
                       next |-> ch[b].next, prev |-> ch[a].prev]
          /\ \A x \in Addresses \ {a} :
                /\ new[x].size = ch[x].size
                /\ new[x].isAllocated = ch[x].isAllocated
                /\ new[x].next = ch[x].next
                /\ new[x].prev = IF x = ch[b].next THEN a ELSE ch[x].prev
        BY <1>1, UnlinkIs
    <2> QED BY <1>2, <2>1
<1>4. ch[b].next \in (C \ {b}) \cup {Null}
    BY <1>2, <1>3, ChainLinks
<1>5. Chain(new, head, C \ {b})
    <2>1. \A x \in C \ {a, b} :
             /\ new[x].next = ch[x].next
             /\ new[x].prev = IF x = ch[b].next THEN a ELSE ch[x].prev
        BY <1>3
    <2>2. new[a].next = ch[b].next /\ new[a].prev = ch[a].prev
        BY <1>3
    <2>3. C \subseteq Nat \ {0} /\ Bypassed(ch, new, C, a, b)
        BY <1>2, <2>1, <2>2 DEF Bypassed
    <2> QED BY <2>3, ChainRemove
<1>6. \A x \in C : ch[x].size \in Nat /\ x \in Nat
    BY <1>2 DEF Chunk
<1>7. /\ End(new, a) = End(ch, b) /\ \A x \in C \ {a} : End(new, x) = End(ch, x)
      /\ \A x \in C : End(ch, x) \in Int /\ End(ch, x) > x
    BY <1>2, <1>3, <1>6 DEF End
<1>8. ASSUME NEW x \in C \ {a, b} PROVE End(new, a) <= x \/ End(new, x) <= a
    <2>1. /\ End(ch, a) <= x \/ End(ch, x) <= a
          /\ End(ch, b) <= x \/ End(ch, x) <= b
        BY DEF Tiles
    <2> QED BY <1>2, <1>6, <1>7, <2>1
<1>9. \A x, y \in C \ {b} : x # y => End(new, x) <= y \/ End(new, y) <= x
    BY <1>7, <1>8 DEF Tiles
<1>10. ASSUME NEW x \in Int PROVE InChunks(x, new, C \ {b}) <=> InChunks(x, ch, C)
    <2>1. ASSUME NEW y \in C, y <= x, x < End(ch, y) PROVE InChunks(x, new, C \ {b})
        <3>1. CASE y \notin {a, b}
            BY <1>7, <2>1, <3>1 DEF InChunks
        <3>2. CASE y = a \/ y = b
            <4>1. a <= x /\ x < End(new, a)
                <5>1. b = End(ch, a) /\ a \in Nat /\ b \in Nat /\ a < b /\ b < End(ch, b)
                      /\ End(ch, b) \in Int
                    BY <1>6, <1>7
                <5> QED BY <1>7, <2>1, <3>2, <5>1
            <4> QED BY <1>3, <4>1 DEF InChunks
        <3> QED BY <3>1, <3>2
    <2>2. ASSUME NEW y \in C \ {b}, y <= x, x < End(new, y) PROVE InChunks(x, ch, C)
        <3>1. CASE y # a
            BY <1>7, <2>2, <3>1 DEF InChunks
        <3>2. CASE y = a
            <4>1. (a <= x /\ x < End(ch, a)) \/ (b <= x /\ x < End(ch, b))
                BY <1>6, <1>7, <2>2, <3>2
            <4> QED BY <4>1 DEF InChunks
        <3> QED BY <3>1, <3>2
    <2> QED BY <2>1, <2>2 DEF InChunks
<1>11. \A x \in C : new[x].size >= ch[x].size /\ new[x].size >= 1
    BY <1>2, <1>3, <1>6 DEF Tiles
<1>12. Tiles(new, C \ {b}, pg)
    BY <1>9, <1>10, <1>11 DEF Tiles
<1> QED BY <1>1, <1>3, <1>4, <1>5, <1>11, <1>12

\* A merge leaves a list, tiles, and every header that is in use.
Merged(ch, C, new, D, head, pg) ==
    /\ new \in [Addresses -> Chunk] /\ D \subseteq C
    /\ Chain(new, head, D) /\ Tiles(new, D, pg)
    /\ \A x \in C : /\ new[x].isAllocated = ch[x].isAllocated /\ new[x].size >= ch[x].size
                    /\ x \notin D => ~ch[x].isAllocated

\* tryMerge: also the header that was merged away still points into the list.
LEMMA TryMergeKeeps ==
    ASSUME chunks \in [Addresses -> Chunk], NEW C \in SUBSET Addresses,
           Chain(chunks, heapList, C), Tiles(chunks, C, pages),
           NEW a \in C, Free(a)
    PROVE  \E D : /\ Merged(chunks, C, TryMerge(a), D, heapList, pages)
                  /\ TryMerge(a)[a].next \in D \cup {Null}
<1>1. C \subseteq Nat \ {0} /\ \A x \in C : chunks[x].size \in Nat
    BY AddressRange DEF Chunk
\* With the next chunk.
<1>2. PICK ch : ch = MergeNext(chunks, a)
    OBVIOUS
<1>3. PICK E : a \in E /\ Merged(chunks, C, ch, E, heapList, pages)
    <2>1. CASE Joins(chunks, a, chunks[a].next) /\ ~chunks[chunks[a].next].isAllocated
        <3>1. PICK b \in C : chunks[a].next = b
            <4>1. \A x \in C : chunks[x].next \in C \cup {Null}
                BY <1>1, ChainLinks
            <4>2. chunks[a].next # Null
                BY <2>1 DEF Joins
            <4> QED BY <4>1, <4>2
        <3>0. End(chunks, a) = b
            BY <2>1, <3>1 DEF Joins
        <3>2. End(chunks, a) = b /\ ~chunks[b].isAllocated /\ ch = Unlink(chunks, a, b)
            BY <1>2, <2>1, <3>1 DEF Joins, MergeNext
        <3>3. /\ ch \in [Addresses -> Chunk] /\ a # b
              /\ Chain(ch, heapList, C \ {b}) /\ Tiles(ch, C \ {b}, pages)
              /\ \A x \in C : /\ ch[x].isAllocated = chunks[x].isAllocated
                              /\ ch[x].size >= chunks[x].size
            <4>1. /\ Unlink(chunks, a, b) \in [Addresses -> Chunk] /\ a # b
                  /\ Chain(Unlink(chunks, a, b), heapList, C \ {b})
                  /\ Tiles(Unlink(chunks, a, b), C \ {b}, pages)
                  /\ \A x \in C : /\ Unlink(chunks, a, b)[x].isAllocated = chunks[x].isAllocated
                                  /\ Unlink(chunks, a, b)[x].size >= chunks[x].size
                BY <3>0, <3>1, UnlinkKeeps
            <4> QED BY <3>2, <4>1
        <3> QED BY <3>2, <3>3 DEF Merged
    <2>2. CASE ~(Joins(chunks, a, chunks[a].next) /\ ~chunks[chunks[a].next].isAllocated)
        <3>1. ch = chunks
            BY <1>2, <2>2 DEF MergeNext
        <3> QED BY <1>1, <3>1 DEF Merged
    <2> QED BY <2>1, <2>2
<1>4. /\ ch \in [Addresses -> Chunk] /\ E \in SUBSET Addresses /\ E \subseteq Nat \ {0}
      /\ Chain(ch, heapList, E) /\ Tiles(ch, E, pages)
      /\ \A x \in E : ch[x].size \in Nat
    BY <1>1, <1>3 DEF Merged, Chunk
<1>5. \A x \in E : /\ ch[x].next \in E \cup {Null} /\ ch[x].prev \in E \cup {Null}
                   /\ ch[x].prev # Null => ch[ch[x].prev].next = x
    BY <1>4, ChainLinks
\* Then with the previous one.
<1>6. PICK new : new = TryMerge(a)
    OBVIOUS
<1>7. CASE Joins(ch, ch[a].prev, a) /\ ~ch[ch[a].prev].isAllocated
    <2>0. ch[a].prev \in E \cup {Null} /\ (ch[a].prev # Null => ch[ch[a].prev].next = a)
        BY <1>3, <1>5
    <2>1. PICK b \in E : ch[a].prev = b
        BY <1>7, <2>0 DEF Joins
    <2>2. ch[b].next = a /\ b # Null
        BY <1>7, <2>0, <2>1 DEF Joins
    <2>3. End(ch, b) = a /\ new = Unlink(ch, b, a)
        BY <1>2, <1>6, <1>7, <2>1 DEF Joins, TryMerge, MergePrev
    <2>4. /\ new \in [Addresses -> Chunk]
          /\ Chain(new, heapList, E \ {a}) /\ Tiles(new, E \ {a}, pages)
          /\ new[a].next \in (E \ {a}) \cup {Null}
          /\ \A x \in E : new[x].isAllocated = ch[x].isAllocated /\ new[x].size >= ch[x].size
        BY <1>3, <1>4, <2>2, <2>3, UnlinkKeeps
    <2>5. \A x \in C \ E : new[x].isAllocated = ch[x].isAllocated /\ new[x].size >= ch[x].size
        <3>1. C \subseteq Addresses /\ \A x \in C \ E : x # b /\ x # a
            BY <1>3
        <3>2. \A x \in Addresses \ {b} :
                 new[x].size = ch[x].size /\ new[x].isAllocated = ch[x].isAllocated
            <4>1. \A x \in Addresses \ {b} :
                     /\ Unlink(ch, b, a)[x].size = ch[x].size
                     /\ Unlink(ch, b, a)[x].isAllocated = ch[x].isAllocated
                <5>1. b \in E /\ a \in E /\ ch[b].next = a /\ E \in SUBSET Addresses
                    BY <1>3, <1>4, <2>2
                <5>2. ch \in [Addresses -> Chunk] /\ Chain(ch, heapList, E)
                    BY <1>4
                <5>3. /\ Unlink(ch, b, a) \in [Addresses -> Chunk]
                      /\ b # a /\ ch[a].next # b /\ ch[a].next # a
                      /\ Unlink(ch, b, a)[b] = [size |-> ch[b].size + ch[a].size + HeaderSize,
                                                isAllocated |-> ch[b].isAllocated,
                                                next |-> ch[a].next, prev |-> ch[b].prev]
                      /\ \A x \in Addresses \ {b} :
                            /\ Unlink(ch, b, a)[x].size = ch[x].size
                            /\ Unlink(ch, b, a)[x].isAllocated = ch[x].isAllocated
                            /\ Unlink(ch, b, a)[x].next = ch[x].next
                            /\ Unlink(ch, b, a)[x].prev = IF x = ch[a].next THEN b ELSE ch[x].prev
                    BY <5>1, <5>2, UnlinkIs
                <5> QED BY <5>3
            <4> QED BY <2>3, <4>1
        <3>3. \A x \in C : ch[x].size \in Nat
            BY <1>4 DEF Chunk
        <3> QED BY <3>1, <3>2, <3>3
    <2>6. ASSUME NEW x \in C
          PROVE  /\ new[x].isAllocated = chunks[x].isAllocated /\ new[x].size >= chunks[x].size
                 /\ x \notin E \ {a} => ~chunks[x].isAllocated
        <3>1. new[x].isAllocated = ch[x].isAllocated /\ new[x].size >= ch[x].size
            BY <2>4, <2>5
        <3>2. ch[x].isAllocated = chunks[x].isAllocated /\ ch[x].size >= chunks[x].size
            BY <1>3 DEF Merged
        <3>3. new[x].size \in Nat /\ ch[x].size \in Nat /\ chunks[x].size \in Nat
            BY <1>1, <1>4, <2>4 DEF Chunk
        <3>4. x \notin E \ {a} => ~chunks[x].isAllocated
            BY <1>3 DEF Merged, Free
        <3> QED BY <3>1, <3>2, <3>3, <3>4
    <2>7. E \ {a} \subseteq C
        BY <1>3 DEF Merged
    <2>8. Merged(chunks, C, new, E \ {a}, heapList, pages)
        BY <2>4, <2>6, <2>7 DEF Merged
    <2> QED BY <1>6, <2>4, <2>8
<1>8. CASE ~(Joins(ch, ch[a].prev, a) /\ ~ch[ch[a].prev].isAllocated)
    <2>1. new = ch
        BY <1>2, <1>6, <1>8 DEF TryMerge, MergePrev
    <2>2. ch[a].next \in E \cup {Null}
        BY <1>3, <1>5
    <2> QED BY <1>3, <1>6, <2>1, <2>2
<1> QED BY <1>7, <1>8

\* What split writes, when the chunk is larger than what is asked for and a header.
LEMMA SplitIs ==
    ASSUME chunks \in [Addresses -> Chunk], NEW C \in SUBSET Addresses,
           Chain(chunks, heapList, C), Tiles(chunks, C, pages), pages \subseteq Pages,
           NEW a \in C, NEW size \in Nat \ {0}, chunks[a].size > size + HeaderSize,
           NEW r, r = Remainder(a, size)
    PROVE  /\ r \in Addresses /\ r \notin C
           /\ Split(a, size) \in [Addresses -> Chunk]
           /\ Split(a, size)[r] = [size |-> chunks[a].size - size - HeaderSize,
                                   isAllocated |-> FALSE, next |-> chunks[a].next, prev |-> a]
           /\ Split(a, size)[a] = [size |-> size, isAllocated |-> chunks[a].isAllocated,
                                   next |-> r, prev |-> chunks[a].prev]
           /\ \A x \in C \ {a} :
                 /\ Split(a, size)[x].size = chunks[x].size
                 /\ Split(a, size)[x].isAllocated = chunks[x].isAllocated
                 /\ Split(a, size)[x].next = chunks[x].next
                 /\ Split(a, size)[x].prev = IF x = chunks[a].next THEN r ELSE chunks[x].prev
<1> DEFINE c == chunks[a].next
<1>1. C \subseteq Nat \ {0} /\ Addresses \subseteq Nat \ {0} /\ HeaderSize \in Nat \ {0}
    BY AddressRange
<1>2. \A x \in C : chunks[x] \in Chunk /\ chunks[x].size \in Nat
    BY DEF Chunk
<1>3. r \in Nat /\ a < r /\ r < End(chunks, a)
    BY <1>1, <1>2 DEF Remainder, End
<1>4. r \in Addresses
    <2>1. r \in a .. End(chunks, a) - 1 /\ C \subseteq Int
        BY <1>1, <1>2, <1>3 DEF End
    <2> QED BY <1>2, <2>1, ChunkInPages
<1>5. r \notin C
    <2> SUFFICES ASSUME r \in C PROVE FALSE
        OBVIOUS
    <2>1. r # a /\ r \in Nat /\ a \in Nat
        BY <1>1, <1>3
    <2>2. End(chunks, a) <= r \/ End(chunks, r) <= a
        BY <2>1 DEF Tiles
    <2>3. End(chunks, r) > r /\ End(chunks, a) \in Int /\ End(chunks, r) \in Int
        BY <1>1, <1>2 DEF End
    <2> QED BY <1>3, <2>1, <2>2, <2>3
<1>6. c \in C \cup {Null} /\ c # a
    BY <1>1, ChainLinks
<1> DEFINE new == [size |-> chunks[a].size - size - HeaderSize, isAllocated |-> FALSE,
                   next |-> c, prev |-> a]
           S == [x \in Addresses |->
                   IF x = r THEN new
                   ELSE IF x = a THEN [chunks[a] EXCEPT !.next = r, !.size = size]
                   ELSE IF x = c THEN [chunks[x] EXCEPT !.prev = r]
                   ELSE chunks[x]]
<1>7. Split(a, size) = S
    <2>1. ~(chunks[a].size <= size + HeaderSize)
        BY <1>1, <1>2
    <2>2. DOMAIN chunks = Addresses
        OBVIOUS
    <2> QED BY <2>1, <2>2 DEF Split
<1>8. /\ S[r] = new /\ new \in Chunk
      /\ S[a] = [chunks[a] EXCEPT !.next = r, !.size = size]
      /\ \A x \in Addresses \ {a, r} :
            S[x] = IF x = c THEN [chunks[x] EXCEPT !.prev = r] ELSE chunks[x]
    <2>1. c \in Nat
        BY <1>2 DEF Chunk
    <2>2. chunks[a].size - size - HeaderSize \in Nat
        BY <1>1, <1>2
    <2>3. new \in Chunk
        <3> HIDE DEF c
        <3> QED BY <1>1, <2>1, <2>2 DEF Chunk
    <2> HIDE DEF new, c
    <2> QED BY <1>1, <1>3, <1>4, <1>5, <2>3
<1>9. S[a] = [size |-> size, isAllocated |-> chunks[a].isAllocated, next |-> r,
              prev |-> chunks[a].prev]
    BY <1>2, <1>8 DEF Chunk
<1>10. \A x \in C \ {a} :
          /\ S[x].size = chunks[x].size /\ S[x].isAllocated = chunks[x].isAllocated
          /\ S[x].next = chunks[x].next /\ S[x].prev = IF x = c THEN r ELSE chunks[x].prev
    <2> SUFFICES ASSUME NEW x \in C \ {a}
                 PROVE  /\ S[x].size = chunks[x].size /\ S[x].isAllocated = chunks[x].isAllocated
                        /\ S[x].next = chunks[x].next
                        /\ S[x].prev = IF x = c THEN r ELSE chunks[x].prev
        OBVIOUS
    <2>1. S[x] = IF x = c THEN [chunks[x] EXCEPT !.prev = r] ELSE chunks[x]
        BY <1>5, <1>8
    <2> HIDE DEF S, c
    <2> QED BY <1>2, <2>1 DEF Chunk
<1>11. S \in [Addresses -> Chunk]
    <2> SUFFICES ASSUME NEW x \in Addresses PROVE S[x] \in Chunk
        OBVIOUS
    <2>1. chunks[x] \in Chunk /\ chunks[a] \in Chunk
        OBVIOUS
    <2>2. CASE x = r
        BY <1>8, <2>2
    <2>3. CASE x = a
        <3> HIDE DEF S
        <3> QED BY <1>3, <1>9, <2>1, <2>3 DEF Chunk
    <2>4. CASE x \notin {a, r}
        <3>1. S[x] = IF x = c THEN [chunks[x] EXCEPT !.prev = r] ELSE chunks[x]
            BY <1>8, <2>4
        <3> HIDE DEF S, c
        <3> QED BY <1>3, <2>1, <3>1 DEF Chunk
    <2> QED BY <2>2, <2>3, <2>4
<1> HIDE DEF S
<1> QED BY <1>4, <1>5, <1>7, <1>8, <1>9, <1>10, <1>11

\* Splitting puts the remainder behind the chunk.
LEMMA SplitKeeps ==
    ASSUME chunks \in [Addresses -> Chunk], NEW C \in SUBSET Addresses,
           Chain(chunks, heapList, C), Tiles(chunks, C, pages), pages \subseteq Pages,
           NEW a \in C, NEW size \in Nat \ {0}, chunks[a].size >= size
    PROVE  \E D \in SUBSET Addresses :
              /\ C \subseteq D
              /\ Split(a, size) \in [Addresses -> Chunk]
              /\ Chain(Split(a, size), heapList, D) /\ Tiles(Split(a, size), D, pages)
              /\ Split(a, size)[a].size >= size
              /\ \A x \in C : Split(a, size)[x].isAllocated = chunks[x].isAllocated
              /\ \A x \in C \ {a} : Split(a, size)[x].size = chunks[x].size
<1>1. C \subseteq Nat \ {0} /\ Addresses \subseteq Nat \ {0} /\ HeaderSize \in Nat \ {0}
      /\ \A x \in C : chunks[x].size \in Nat
    BY AddressRange DEF Chunk
<1>2. CASE chunks[a].size <= size + HeaderSize
    BY <1>2 DEF Split
<1>3. CASE chunks[a].size > size + HeaderSize
    <2>1. PICK r : r = Remainder(a, size)
        OBVIOUS
    <2>2. PICK new : new = Split(a, size)
        OBVIOUS
    <2>3. /\ r \in Addresses /\ r \notin C /\ new \in [Addresses -> Chunk]
          /\ new[r] = [size |-> chunks[a].size - size - HeaderSize,
                       isAllocated |-> FALSE, next |-> chunks[a].next, prev |-> a]
          /\ new[a] = [size |-> size, isAllocated |-> chunks[a].isAllocated,
                       next |-> r, prev |-> chunks[a].prev]
          /\ \A x \in C \ {a} :
                 /\ new[x].size = chunks[x].size
                 /\ new[x].isAllocated = chunks[x].isAllocated
                 /\ new[x].next = chunks[x].next
                 /\ new[x].prev = IF x = chunks[a].next THEN r ELSE chunks[x].prev
        BY <1>3, <2>1, <2>2, SplitIs
    <2> DEFINE D == C \cup {r}
    <2>4. Chain(new, heapList, D)
        <3>1. /\ new[r].next = chunks[a].next /\ new[r].prev = a
              /\ new[a].next = r /\ new[a].prev = chunks[a].prev
            BY <2>3
        <3>2. \A x \in C \ {a} :
                 /\ new[x].next = chunks[x].next
                 /\ new[x].prev = IF x = chunks[a].next THEN r ELSE chunks[x].prev
            BY <2>3
        <3>3. r \in Nat \ {0} /\ r \notin C /\ C \subseteq Nat \ {0}
            BY <1>1, <2>3
        <3>4. Behind(chunks, new, C, a, r)
            BY <3>1, <3>2 DEF Behind
        <3> HIDE DEF D
        <3>5. Chain(new, heapList, C \cup {r})
            BY <3>3, <3>4, ChainInsert
        <3> QED BY <3>5 DEF D
    <2>5. /\ End(new, a) = r /\ End(new, r) = End(chunks, a)
          /\ \A x \in C \ {a} : End(new, x) = End(chunks, x)
          /\ \A x \in C : End(chunks, x) \in Int /\ End(chunks, x) > x
          /\ r \in Nat /\ a < r /\ r < End(chunks, a)
        BY <1>1, <1>3, <2>1, <2>3 DEF End, Remainder
    <2>6. \A x \in D : new[x].size >= 1
        <3>1. \A x \in C \ {a} : new[x].size >= 1
            BY <2>3 DEF Tiles
        <3>2. new[a].size >= 1 /\ new[r].size >= 1
            BY <1>1, <1>3, <2>3
        <3> QED BY <3>1, <3>2
    <2>7. ASSUME NEW x \in D, NEW y \in D, x # y PROVE End(new, x) <= y \/ End(new, y) <= x
        <3>1. \A u, v \in C : u # v => End(chunks, u) <= v \/ End(chunks, v) <= u
            BY DEF Tiles
        <3>2. \A u \in C \ {a} : /\ End(chunks, u) <= a \/ End(chunks, a) <= u
                                 /\ u \in Nat /\ u < End(chunks, u)
            BY <1>1, <2>5, <3>1
        <3>3. \A u \in C \ {a} : /\ End(new, a) <= u \/ End(new, u) <= a
                                 /\ End(new, r) <= u \/ End(new, u) <= r
            BY <1>1, <2>5, <3>2
        <3>4. CASE x \in C \ {a} /\ y \in C \ {a}
            BY <2>5, <2>7, <3>1, <3>4
        <3>5. CASE x \in {a, r} \/ y \in {a, r}
            BY <1>1, <2>3, <2>5, <2>7, <3>3, <3>5
        <3> QED BY <3>4, <3>5
    <2>8. ASSUME NEW x \in Int PROVE InChunks(x, new, D) <=> InChunks(x, chunks, C)
        <3>1. ASSUME NEW y \in C, y <= x, x < End(chunks, y) PROVE InChunks(x, new, D)
            <4>1. CASE y # a
                BY <2>5, <3>1, <4>1 DEF InChunks
            <4>2. CASE y = a
                <5>1. (a <= x /\ x < End(new, a)) \/ (r <= x /\ x < End(new, r))
                    BY <1>1, <2>5, <3>1, <4>2
                <5> QED BY <5>1 DEF InChunks
            <4> QED BY <4>1, <4>2
        <3>2. ASSUME NEW y \in D, y <= x, x < End(new, y) PROVE InChunks(x, chunks, C)
            <4>1. CASE y \in C \ {a}
                BY <2>5, <3>2, <4>1 DEF InChunks
            <4>2. CASE y = a \/ y = r
                <5>1. a <= x /\ x < End(chunks, a)
                    BY <1>1, <2>5, <3>2, <4>2
                <5> QED BY <5>1 DEF InChunks
            <4> QED BY <4>1, <4>2
        <3> HIDE DEF D
        <3> QED BY <3>1, <3>2 DEF InChunks
    <2>9. Tiles(new, D, pages)
        <3> HIDE DEF D
        <3> QED BY <2>6, <2>7, <2>8 DEF Tiles
    <2>10. D \in SUBSET Addresses /\ C \subseteq D /\ new[a].size >= size
        BY <1>1, <2>3
    <2>11. /\ \A x \in C : new[x].isAllocated = chunks[x].isAllocated
           /\ \A x \in C \ {a} : new[x].size = chunks[x].size
        BY <2>3
    <2> HIDE DEF D
    <2> QED BY <2>2, <2>3, <2>4, <2>9, <2>10, <2>11
<1> QED BY <1>1, <1>2, <1>3

-----------------------------------------------------------------------------
(* The steps of a call.                                                    *)

\* What one call tells of the headers in C, when there is one context.
LEMMA CallIs ==
    ASSUME OneContext, TypeInv, NEW C \in SUBSET Addresses, CallsInv(C), NEW c \in Contexts
    PROVE  /\ Contexts = {c} /\ call[c] \in Calls
           /\ call[c].op \in {"find", "mark"} => call[c].size \in RequestSizes
           /\ call[c].op \in {"find", "coalesce"} => call[c].cursor \in C \cup {Null}
           /\ call[c].op = "find" /\ call[c].best # Null => Chosen(call[c], C)
           /\ call[c].op = "mark" => Chosen(call[c], C)
           /\ call[c].op = "merge" => call[c].cursor \in C /\ Free(call[c].cursor)
<1>1. Contexts = {c}
    BY DEF OneContext
<1>2. call[c] \in Calls
    BY DEF TypeInv
<1> QED BY <1>1, <1>2 DEF CallsInv

\* Sizes are numbers, and the headers of the list are addresses.
LEMMA Numbers ==
    ASSUME NEW ch \in [Addresses -> Chunk], NEW C \in SUBSET Addresses
    PROVE  /\ C \subseteq Nat \ {0} /\ Null \notin C
           /\ \A x \in C : ch[x] \in Chunk /\ ch[x].size \in Nat
<1>1. C \subseteq Nat \ {0}
    BY AddressRange
<1> QED BY <1>1 DEF Null, Chunk

\* The blocks keep their chunks when these stay in the list, allocated and as large.
LEMMA BlocksStay ==
    ASSUME TypeInv, TypeInv', NEW C \in SUBSET Addresses, NEW D \in SUBSET Addresses,
           BlocksInv(C), held' = held,
           \A x \in C : ~Free(x) => /\ x \in D /\ chunks'[x].isAllocated
                                    /\ chunks'[x].size >= chunks[x].size
    PROVE  BlocksInv(D)'
<1>1. \A x \in C : chunks[x].size \in Nat /\ chunks'[x].size \in Nat
    <2>1. chunks \in [Addresses -> Chunk] /\ chunks' \in [Addresses -> Chunk]
        BY DEF TypeInv
    <2> QED BY <2>1 DEF Chunk
<1>2. ASSUME NEW s \in Slots, held[s] # NoBlock PROVE InChunk(held[s], D)'
    <2>1. PICK a \in C : /\ held[s].at = a + HeaderSize /\ ~Free(a)
                         /\ held[s].size \in RequestSizes /\ held[s].size <= chunks[a].size
        BY <1>2 DEF BlocksInv, InChunk
    <2>2. held[s].size \in Nat
        BY <2>1, AddressRange
    <2>3. held'[s].size <= chunks'[a].size
        <3>1. chunks'[a].size >= chunks[a].size /\ chunks[a].size \in Nat /\ chunks'[a].size \in Nat
            BY <1>1, <2>1
        <3> QED BY <2>1, <2>2, <3>1
    <2> QED BY <2>1, <2>3 DEF InChunk, Free
<1>3. \A s \in Slots : held'[s] = NoBlock \/ InChunk(held[s], D)'
    BY <1>2
<1>4. \A s, t \in Slots : s # t /\ held'[s].at # Null => held'[s].at # held'[t].at
    BY DEF BlocksInv
<1> QED BY <1>3, <1>4 DEF BlocksInv

\* The invariant holds again when a step leaves a list of headers D and the blocks.
LEMMA Kept ==
    ASSUME TypeInv, TypeInv', NEW C \in SUBSET Addresses, NEW D \in SUBSET Addresses,
           BlocksInv(C), held' = held, Chain(chunks', heapList', D), Tiles(chunks', D, pages'),
           CallsInv(D)',
           \A x \in C : ~Free(x) => /\ x \in D /\ chunks'[x].isAllocated
                                    /\ chunks'[x].size >= chunks[x].size
    PROVE  HeapInv'
<1>1. BlocksInv(D)'
    BY BlocksStay
<1>2. Chain(chunks, heapList, D)' /\ Tiles(chunks, D, pages)'
    OBVIOUS
<1>3. Sound(D)'
    BY <1>1, <1>2 DEF Sound
<1> QED BY <1>3 DEF HeapInv
\* alloc begins: the search starts at the head of the list.
LEMMA AllocStep ==
    ASSUME OneContext, HeapInv, NEW c \in Contexts, NEW size \in RequestSizes, Alloc(c, size)
    PROVE  HeapInv'
<1>1. PICK C \in SUBSET Addresses : Sound(C)
    BY DEF HeapInv
<1>2. TypeInv /\ Chain(chunks, heapList, C) /\ Tiles(chunks, C, pages) /\ CallsInv(C) /\ BlocksInv(C)
    BY <1>1 DEF HeapInv, Sound
<1>3. Contexts = {c} /\ chunks \in [Addresses -> Chunk] /\ heapList \in Nat
    BY <1>2, CallIs DEF TypeInv
<1>4. C \subseteq Nat \ {0} /\ size \in Nat /\ \A x \in C : chunks[x].size \in Nat
    BY <1>3, Numbers, AddressRange
<1>5. heapList \in C \cup {Null}
    BY <1>2, <1>4, ChainLinks
<1>6. call'[c] = [op |-> "find", size |-> size, cursor |-> heapList, best |-> Null, grown |-> FALSE]
      /\ DOMAIN call' = {c}
    BY <1>2, <1>3 DEF Alloc, Idle, TypeInv
<1>7. TypeInv'
    <2>0. call'[c] \in Calls
        BY <1>3, <1>4, <1>6 DEF Calls, Null
    <2>1. call' \in [Contexts -> Calls]
        BY <1>2, <1>3, <2>0 DEF Alloc, TypeInv
    <2> QED BY <1>2, <2>1 DEF Alloc, TypeInv
<1>8. CallsInv(C)'
    BY <1>3, <1>5, <1>6 DEF CallsInv
<1> QED BY <1>2, <1>4, <1>7, <1>8, Kept DEF Alloc, Free

\* One turn of findSmallestHole: what it chooses is free and large enough.
LEMMA FindStep ==
    ASSUME OneContext, HeapInv, NEW c \in Contexts, Find(c)
    PROVE  HeapInv'
<1>1. PICK C \in SUBSET Addresses : Sound(C)
    BY DEF HeapInv
<1>2. TypeInv /\ Chain(chunks, heapList, C) /\ Tiles(chunks, C, pages) /\ CallsInv(C) /\ BlocksInv(C)
    BY <1>1 DEF HeapInv, Sound
<1>3. /\ Contexts = {c} /\ chunks \in [Addresses -> Chunk] /\ call[c] \in Calls
      /\ call[c].op = "find" /\ call[c].size \in RequestSizes /\ call[c].cursor \in C
      /\ call[c].best # Null => Chosen(call[c], C)
    BY <1>2, CallIs DEF TypeInv, Find, At
<1>4. C \subseteq Nat \ {0} /\ \A x \in C : chunks[x] \in Chunk /\ chunks[x].size \in Nat
    BY <1>3, Numbers
<1>5. PICK best : best = IF Fits(call[c].cursor, call[c].size) /\ Better(call[c].cursor, call[c].best)
                         THEN call[c].cursor ELSE call[c].best
    OBVIOUS
<1>6. PICK next : next = chunks[call[c].cursor].next
    OBVIOUS
<1>7. next \in C \cup {Null} /\ next \in Nat
    <2>1. \A x \in C : chunks[x].next \in C \cup {Null}
        BY <1>2, <1>4, ChainLinks
    <2>2. next \in C \cup {Null} /\ call[c].cursor \in C
        BY <1>3, <1>6, <2>1
    <2> QED BY <1>4, <2>2 DEF Null
<1>8. call'[c] = [call[c] EXCEPT !.best = best, !.cursor = next] /\ DOMAIN call' = {c}
    BY <1>2, <1>3, <1>5, <1>6 DEF Find, TypeInv
<1>9. best \in Nat /\ (best # Null => best \in C /\ Free(best) /\ call[c].size <= chunks[best].size)
    BY <1>3, <1>4, <1>5, AddressRange DEF Fits, Chosen, Calls
<1>10. /\ call'[c] \in Calls /\ call'[c].op = "find" /\ call'[c].size = call[c].size
       /\ call'[c].cursor = next /\ call'[c].best = best
    BY <1>3, <1>7, <1>8, <1>9 DEF Calls
<1>11. TypeInv'
    <2>1. call' \in [Contexts -> Calls]
        BY <1>2, <1>3, <1>10 DEF Find, TypeInv
    <2> QED BY <1>2, <2>1 DEF Find, TypeInv
<1>12. CallsInv(C)'
    BY <1>3, <1>7, <1>9, <1>10 DEF CallsInv, Chosen, Free, Find
<1> QED BY <1>2, <1>4, <1>11, <1>12, Kept DEF Find, Free

\* A call that returns is idle.
LEMMA ReturnedIs ==
    ASSUME TypeInv, NEW c \in Contexts, Contexts = {c}, NEW D, call' = [call EXCEPT ![c] = Idle]
    PROVE  call' \in [Contexts -> Calls] /\ CallsInv(D)'
<1>1. call'[c] = [op |-> "idle", size |-> 0, cursor |-> Null, best |-> Null, grown |-> FALSE]
    BY DEF TypeInv, Idle
<1> QED BY <1>1 DEF TypeInv, CallsInv, Calls, Null, Idle

LEMMA AllocFailsStep ==
    ASSUME OneContext, HeapInv, NEW c \in Contexts, AllocFails(c)
    PROVE  HeapInv'
<1>1. PICK C \in SUBSET Addresses : Sound(C)
    BY DEF HeapInv
<1>2. TypeInv /\ Chain(chunks, heapList, C) /\ Tiles(chunks, C, pages) /\ CallsInv(C) /\ BlocksInv(C)
    BY <1>1 DEF HeapInv, Sound
<1>3. Contexts = {c} /\ chunks \in [Addresses -> Chunk]
    BY <1>2, CallIs DEF TypeInv
<1>4. \A x \in C : chunks[x].size \in Nat
    BY <1>3, Numbers
<1>5. call' \in [Contexts -> Calls] /\ CallsInv(C)'
    BY <1>2, <1>3, ReturnedIs DEF AllocFails
<1>6. TypeInv'
    BY <1>2, <1>5 DEF AllocFails, TypeInv
<1> QED BY <1>2, <1>4, <1>5, <1>6, Kept DEF AllocFails, Free
\* SplitChunk: the chunk that was chosen stays free and large enough.
LEMMA SplitChunkStep ==
    ASSUME OneContext, HeapInv, NEW c \in Contexts, SplitChunk(c)
    PROVE  HeapInv'
<1>1. PICK C \in SUBSET Addresses : Sound(C)
    BY DEF HeapInv
<1>2. TypeInv /\ Chain(chunks, heapList, C) /\ Tiles(chunks, C, pages) /\ CallsInv(C) /\ BlocksInv(C)
    BY <1>1 DEF HeapInv, Sound
<1>3. /\ Contexts = {c} /\ chunks \in [Addresses -> Chunk] /\ call[c] \in Calls /\ pages \subseteq Pages
      /\ call[c].size \in RequestSizes /\ Chosen(call[c], C)
    BY <1>2, CallIs DEF TypeInv, SplitChunk, At
<1>4. \A x \in C : chunks[x].size \in Nat
    BY <1>3, Numbers
<1>5. PICK a \in C : a = call[c].best /\ Free(a) /\ chunks[a].size >= call[c].size
    BY <1>3, <1>4, AddressRange DEF Chosen
<1>6. PICK size \in Nat \ {0} : size = call[c].size
    BY <1>3, AddressRange
<1>7. PICK D \in SUBSET Addresses :
         /\ C \subseteq D /\ chunks' \in [Addresses -> Chunk]
         /\ Chain(chunks', heapList, D) /\ Tiles(chunks', D, pages)
         /\ chunks'[a].size >= size
         /\ \A x \in C : chunks'[x].isAllocated = chunks[x].isAllocated
         /\ \A x \in C \ {a} : chunks'[x].size = chunks[x].size
    <2>1. chunks' = Split(a, size) /\ chunks[a].size >= size
        BY <1>5, <1>6 DEF SplitChunk
    <2>2. \E D \in SUBSET Addresses :
              /\ C \subseteq D
              /\ Split(a, size) \in [Addresses -> Chunk]
              /\ Chain(Split(a, size), heapList, D) /\ Tiles(Split(a, size), D, pages)
              /\ Split(a, size)[a].size >= size
              /\ \A x \in C : Split(a, size)[x].isAllocated = chunks[x].isAllocated
              /\ \A x \in C \ {a} : Split(a, size)[x].size = chunks[x].size
        BY <1>2, <1>3, <2>1, SplitKeeps
    <2> QED BY <2>1, <2>2
<1>8. call' = [call EXCEPT ![c].op = "mark"]
    BY DEF SplitChunk
<1>9. /\ call'[c] \in Calls /\ call'[c].op = "mark" /\ call'[c].size = size /\ call'[c].best = a
      /\ call' \in [Contexts -> Calls]
    BY <1>2, <1>3, <1>5, <1>6, <1>8 DEF TypeInv, Calls
<1>10. TypeInv'
    BY <1>2, <1>7, <1>9 DEF SplitChunk, TypeInv
<1>11. chunks'[a].size \in Nat
    BY <1>7, Numbers
<1>12. CallsInv(D)'
    BY <1>3, <1>5, <1>6, <1>7, <1>9, <1>11 DEF CallsInv, Chosen, Free
<1>13. \A x \in C : ~Free(x) => /\ x \in D /\ chunks'[x].isAllocated
                                /\ chunks'[x].size >= chunks[x].size
    BY <1>4, <1>5, <1>7 DEF Free
<1>14. held' = held /\ Chain(chunks', heapList', D) /\ Tiles(chunks', D, pages')
    BY <1>7 DEF SplitChunk
<1> QED BY <1>2, <1>10, <1>12, <1>13, <1>14, Kept

\* MarkChunk: the block is given away in a chunk that had no block.
LEMMA MarkChunkStep ==
    ASSUME OneContext, HeapInv, NEW c \in Contexts, MarkChunk(c)
    PROVE  HeapInv'
<1>1. PICK C \in SUBSET Addresses : Sound(C)
    BY DEF HeapInv
<1>2. TypeInv /\ Chain(chunks, heapList, C) /\ Tiles(chunks, C, pages) /\ CallsInv(C) /\ BlocksInv(C)
    BY <1>1 DEF HeapInv, Sound
<1>3. /\ Contexts = {c} /\ chunks \in [Addresses -> Chunk] /\ call[c] \in Calls /\ pages \subseteq Pages
      /\ call[c].size \in RequestSizes /\ Chosen(call[c], C)
    BY <1>2, CallIs DEF TypeInv, MarkChunk, At
<1>4. C \subseteq Nat \ {0} /\ \A x \in C : chunks[x] \in Chunk /\ chunks[x].size \in Nat
    BY <1>3, Numbers
<1>5. PICK a \in C : a = call[c].best /\ Free(a) /\ call[c].size <= chunks[a].size
    BY <1>3 DEF Chosen
<1>6. /\ chunks' \in [Addresses -> Chunk] /\ chunks'[a].isAllocated
      /\ \A x \in C : /\ chunks'[x].size = chunks[x].size /\ chunks'[x].next = chunks[x].next
                      /\ chunks'[x].prev = chunks[x].prev
                      /\ x # a => chunks'[x].isAllocated = chunks[x].isAllocated
    <2>1. chunks' = [chunks EXCEPT ![a].isAllocated = TRUE]
        BY <1>5 DEF MarkChunk
    <2> QED BY <1>3, <1>4, <2>1 DEF Chunk
<1>7. call' \in [Contexts -> Calls] /\ CallsInv(C)'
    BY <1>2, <1>3, ReturnedIs DEF MarkChunk
<1>8. PICK s \in Slots : held' = [held EXCEPT ![s] = [at |-> a + HeaderSize, size |-> call[c].size]]
    BY <1>5 DEF MarkChunk
<1>9. /\ held \in [Slots -> [at : Nat, size : Nat]]
      /\ HeaderSize \in Nat \ {0} /\ a \in Nat \ {0} /\ call[c].size \in Nat \ {0}
    BY <1>2, <1>3, <1>4, AddressRange DEF TypeInv
<1>10. /\ held' \in [Slots -> [at : Nat, size : Nat]]
       /\ held'[s].at = a + HeaderSize /\ held'[s].size = call[c].size
       /\ \A t \in Slots \ {s} : held'[t] = held[t]
    BY <1>8, <1>9
<1>11. TypeInv'
    BY <1>2, <1>6, <1>7, <1>10 DEF MarkChunk, TypeInv
<1>12. ASSUME NEW t \in Slots \ {s}
       PROVE  /\ held'[t].at # a + HeaderSize
              /\ held'[t] = NoBlock \/ InChunk(held[t], C)'
    <2>1. CASE held[t] = NoBlock
        BY <1>9, <1>10, <2>1 DEF NoBlock, Null
    <2>2. CASE InChunk(held[t], C)
        <3>1. PICK x \in C : /\ held[t].at = x + HeaderSize /\ ~Free(x)
                             /\ held[t].size \in RequestSizes /\ held[t].size <= chunks[x].size
            BY <2>2 DEF InChunk
        <3>2. x # a /\ x \in Nat
            BY <1>4, <1>5, <3>1
        <3>3. held[t].at # a + HeaderSize
            BY <1>9, <3>1, <3>2
        <3> QED BY <1>6, <1>10, <3>1, <3>2, <3>3 DEF InChunk, Free
    <2> QED BY <1>2, <2>1, <2>2 DEF BlocksInv
<1>13. InChunk(held[s], C)'
    BY <1>3, <1>5, <1>6, <1>10 DEF InChunk, Free
<1>14. BlocksInv(C)'
    <2>1. \A t, u \in Slots : t # u /\ held'[t].at # Null => held'[t].at # held'[u].at
        BY <1>2, <1>10, <1>12 DEF BlocksInv
    <2> QED BY <1>12, <1>13, <2>1 DEF BlocksInv
<1>15. Chain(chunks', heapList', C)
    BY <1>2, <1>6, ChainSame DEF MarkChunk
<1>16. Tiles(chunks', C, pages')
    <2>1. pages' = pages
        BY DEF MarkChunk
    <2> QED BY <1>2, <1>6, <2>1 DEF Tiles, InChunks, End
<1>17. Sound(C)'
    BY <1>7, <1>14, <1>15, <1>16 DEF Sound
<1> QED BY <1>11, <1>17 DEF HeapInv
\* free begins: the chunk of the block is free, and no other block lies in it.
LEMMA FreeBlockStep ==
    ASSUME OneContext, HeapInv, NEW c \in Contexts, NEW s \in Slots, FreeBlock(c, s)
    PROVE  HeapInv'
<1>1. PICK C \in SUBSET Addresses : Sound(C)
    BY DEF HeapInv
<1>2. TypeInv /\ Chain(chunks, heapList, C) /\ Tiles(chunks, C, pages) /\ CallsInv(C) /\ BlocksInv(C)
    BY <1>1 DEF HeapInv, Sound
<1>3. Contexts = {c} /\ chunks \in [Addresses -> Chunk]
    BY <1>2, CallIs DEF TypeInv
<1>4. C \subseteq Nat \ {0} /\ \A x \in C : chunks[x] \in Chunk /\ chunks[x].size \in Nat
    BY <1>3, Numbers
<1>5. held[s] # NoBlock
    BY DEF FreeBlock, NoBlock
<1>6. PICK a \in C : held[s].at = a + HeaderSize /\ ~Free(a)
    BY <1>2, <1>5 DEF BlocksInv, InChunk
<1>7. a \in Nat \ {0} /\ HeaderSize \in Nat \ {0} /\ held[s].at - HeaderSize = a
    BY <1>4, <1>6, AddressRange
<1>8. /\ chunks' \in [Addresses -> Chunk] /\ ~chunks'[a].isAllocated
      /\ \A x \in C : /\ chunks'[x].size = chunks[x].size /\ chunks'[x].next = chunks[x].next
                      /\ chunks'[x].prev = chunks[x].prev
                      /\ x # a => chunks'[x].isAllocated = chunks[x].isAllocated
    <2>1. chunks' = [chunks EXCEPT ![a].isAllocated = FALSE]
        BY <1>7 DEF FreeBlock
    <2> QED BY <1>3, <1>4, <2>1 DEF Chunk
<1>9. call' = [call EXCEPT ![c] = [Idle EXCEPT !.op = "merge", !.cursor = a]]
    BY <1>7 DEF FreeBlock
<1>10. call'[c] = [op |-> "merge", size |-> 0, cursor |-> a, best |-> Null, grown |-> FALSE]
    BY <1>2, <1>9 DEF Idle, TypeInv
<1>11. call' \in [Contexts -> Calls] /\ CallsInv(C)'
    <2>1. call'[c] \in Calls
        BY <1>7, <1>10 DEF Calls, Null
    <2>2. call' \in [Contexts -> Calls]
        BY <1>2, <1>3, <1>9, <2>1 DEF TypeInv
    <2> QED BY <1>3, <1>8, <1>10, <2>2 DEF CallsInv, Free
<1>12. /\ held' \in [Slots -> [at : Nat, size : Nat]] /\ held'[s] = NoBlock
       /\ \A t \in Slots \ {s} : held'[t] = held[t]
    BY <1>2 DEF FreeBlock, TypeInv, NoBlock, Null
<1>13. TypeInv'
    BY <1>2, <1>8, <1>11, <1>12 DEF FreeBlock, TypeInv
<1>14. ASSUME NEW t \in Slots \ {s} PROVE held'[t] = NoBlock \/ InChunk(held[t], C)'
    <2>1. CASE held[t] = NoBlock
        BY <1>12, <2>1
    <2>2. CASE InChunk(held[t], C)
        <3>1. PICK x \in C : /\ held[t].at = x + HeaderSize /\ ~Free(x)
                             /\ held[t].size \in RequestSizes /\ held[t].size <= chunks[x].size
            BY <2>2 DEF InChunk
        <3>2. x # a
            <4>1. held[s].at # Null
                BY <1>6, <1>7 DEF Null
            <4>2. held[s].at # held[t].at
                BY <1>2, <4>1 DEF BlocksInv
            <4> QED BY <1>6, <3>1, <4>2
        <3> QED BY <1>8, <1>12, <3>1, <3>2 DEF InChunk, Free
    <2> QED BY <1>2, <2>1, <2>2 DEF BlocksInv
<1>15. BlocksInv(C)'
    <2>1. \A t, u \in Slots : t # u /\ held'[t].at # Null => held'[t].at # held'[u].at
        BY <1>2, <1>12 DEF BlocksInv, NoBlock
    <2> QED BY <1>12, <1>14, <2>1 DEF BlocksInv
<1>16. Chain(chunks', heapList', C)
    BY <1>2, <1>8, ChainSame DEF FreeBlock
<1>17. Tiles(chunks', C, pages')
    <2>1. pages' = pages
        BY DEF FreeBlock
    <2> QED BY <1>2, <1>8, <2>1 DEF Tiles, InChunks, End
<1>18. Sound(C)'
    BY <1>11, <1>15, <1>16, <1>17 DEF Sound
<1> QED BY <1>13, <1>18 DEF HeapInv

\* A merge of a free chunk and a cursor that is in the list keep the invariant.
LEMMA MergedKept ==
    ASSUME TypeInv, NEW C \in SUBSET Addresses, Sound(C), NEW c \in Contexts, Contexts = {c},
           NEW D, Merged(chunks, C, chunks', D, heapList, pages),
           NEW at \in D \cup {Null},
           call' \in [Contexts -> Calls], call'[c].op = "coalesce", call'[c].cursor = at,
           UNCHANGED <<heapList, pages, held>>
    PROVE  HeapInv'
<1>1. Chain(chunks, heapList, C) /\ Tiles(chunks, C, pages) /\ CallsInv(C) /\ BlocksInv(C)
    BY DEF Sound
<1>2. /\ chunks' \in [Addresses -> Chunk] /\ D \in SUBSET Addresses
      /\ Chain(chunks', heapList', D) /\ Tiles(chunks', D, pages')
      /\ \A x \in C : /\ chunks'[x].isAllocated = chunks[x].isAllocated
                      /\ chunks'[x].size >= chunks[x].size
                      /\ x \notin D => ~chunks[x].isAllocated
    BY DEF Merged
<1>3. CallsInv(D)'
    BY DEF CallsInv
<1>4. TypeInv'
    BY <1>2 DEF TypeInv
<1>5. \A x \in C : ~Free(x) => /\ x \in D /\ chunks'[x].isAllocated
                               /\ chunks'[x].size >= chunks[x].size
    BY <1>2 DEF Free
<1> QED BY <1>1, <1>2, <1>3, <1>4, <1>5, Kept

LEMMA MergeStep ==
    ASSUME OneContext, HeapInv, NEW c \in Contexts, Merge(c)
    PROVE  HeapInv'
<1>1. PICK C \in SUBSET Addresses : Sound(C)
    BY DEF HeapInv
<1>2. TypeInv /\ Chain(chunks, heapList, C) /\ Tiles(chunks, C, pages) /\ CallsInv(C)
    BY <1>1 DEF HeapInv, Sound
<1>3. /\ Contexts = {c} /\ chunks \in [Addresses -> Chunk]
      /\ call[c].cursor \in C /\ Free(call[c].cursor)
    BY <1>2, CallIs DEF TypeInv, Merge, At
<1>4. PICK a \in C : a = call[c].cursor /\ Free(a) /\ chunks' = TryMerge(a)
    BY <1>3 DEF Merge
<1>5. PICK D : Merged(chunks, C, chunks', D, heapList, pages)
    <2>1. \E D : Merged(chunks, C, TryMerge(a), D, heapList, pages)
        BY <1>2, <1>3, <1>4, TryMergeKeeps
    <2> QED BY <1>4, <2>1
<1>6. heapList \in D \cup {Null}
    <2>1. Chain(chunks', heapList, D) /\ D \subseteq Nat \ {0}
        BY <1>5, AddressRange DEF Merged
    <2> QED BY <2>1, ChainLinks
<1>7. /\ call' \in [Contexts -> Calls] /\ call'[c].op = "coalesce" /\ call'[c].cursor = heapList
      /\ UNCHANGED <<heapList, pages, held>>
    BY <1>2 DEF Merge, TypeInv, Calls
<1> QED BY <1>1, <1>2, <1>3, <1>5, <1>6, <1>7, MergedKept

\* coalesceFreeBlocks goes on from the chunk it is at, also when that has been merged away:
\* its header, which no call overwrites, still points into the list.
LEMMA CoalesceStep ==
    ASSUME OneContext, HeapInv, NEW c \in Contexts, Coalesce(c)
    PROVE  HeapInv'
<1>1. PICK C \in SUBSET Addresses : Sound(C)
    BY DEF HeapInv
<1>2. TypeInv /\ Chain(chunks, heapList, C) /\ Tiles(chunks, C, pages) /\ CallsInv(C)
    BY <1>1 DEF HeapInv, Sound
<1>3. /\ Contexts = {c} /\ chunks \in [Addresses -> Chunk] /\ call[c] \in Calls
      /\ call[c].cursor \in C /\ call[c].op = "coalesce"
    BY <1>2, CallIs DEF TypeInv, Coalesce, At
<1>4. PICK a \in C : a = call[c].cursor
    BY <1>3
<1>5. PICK D : /\ Merged(chunks, C, chunks', D, heapList, pages)
               /\ chunks'[a].next \in D \cup {Null}
    <2>1. CASE Free(a)
        <3>1. \E D : /\ Merged(chunks, C, TryMerge(a), D, heapList, pages)
                     /\ TryMerge(a)[a].next \in D \cup {Null}
            BY <1>2, <1>3, <2>1, TryMergeKeeps
        <3>2. chunks' = TryMerge(a)
            BY <1>4, <2>1 DEF Coalesce
        <3> QED BY <3>1, <3>2
    <2>2. CASE ~Free(a)
        <3>1. chunks' = chunks
            BY <1>4, <2>2 DEF Coalesce
        <3>2. C \subseteq Nat \ {0} /\ \A x \in C : chunks[x].size \in Nat
            BY <1>3, Numbers
        <3>3. Merged(chunks, C, chunks, C, heapList, pages)
            BY <1>2, <1>3, <3>2 DEF Merged
        <3>4. chunks[a].next \in C \cup {Null}
            BY <1>2, <3>2, ChainLinks
        <3> QED BY <3>1, <3>3, <3>4
    <2> QED BY <2>1, <2>2
<1>6. PICK at \in D \cup {Null} : at = chunks'[a].next
    BY <1>5
<1>7. at \in Nat
    BY <1>5, <1>6, AddressRange DEF Merged, Null
<1>8. /\ call' \in [Contexts -> Calls] /\ call'[c].op = "coalesce" /\ call'[c].cursor = at
      /\ UNCHANGED <<heapList, pages, held>>
    <2>1. call' = [call EXCEPT ![c].cursor = at]
        BY <1>4, <1>6 DEF Coalesce
    <2> QED BY <1>2, <1>3, <1>7, <2>1 DEF Coalesce, TypeInv, Calls
<1> QED BY <1>1, <1>2, <1>3, <1>5, <1>8, MergedKept

\* free returns; the headers of the list are not those that are forgotten.
LEMMA FreeReturnsStep ==
    ASSUME OneContext, HeapInv, NEW c \in Contexts, FreeReturns(c)
    PROVE  HeapInv'
<1>1. PICK C \in SUBSET Addresses : Sound(C)
    BY DEF HeapInv
<1>2. TypeInv /\ Chain(chunks, heapList, C) /\ Tiles(chunks, C, pages) /\ CallsInv(C) /\ BlocksInv(C)
    BY <1>1 DEF HeapInv, Sound
<1>3. Contexts = {c} /\ chunks \in [Addresses -> Chunk]
    BY <1>2, CallIs DEF TypeInv
<1>4. C \subseteq Nat \ {0} /\ \A x \in C : chunks[x].size \in Nat
    BY <1>3, Numbers
<1>5. Linked = C
    BY <1>2, LinkedIs
<1>6. chunks' = [a \in Addresses |-> IF a \in C THEN chunks[a] ELSE Blank]
    <2>1. chunks' = Forgotten
        BY <1>3 DEF FreeReturns
    <2>2. DOMAIN chunks = Addresses
        BY <1>3
    <2> QED BY <1>5, <2>1, <2>2 DEF Forgotten
<1>7. chunks' \in [Addresses -> Chunk] /\ \A x \in C : chunks'[x] = chunks[x]
    <2>1. Blank \in Chunk
        BY DEF Blank, Chunk, Null
    <2> QED BY <1>3, <1>6, <2>1
<1>8. call' \in [Contexts -> Calls] /\ CallsInv(C)'
    BY <1>2, <1>3, ReturnedIs DEF FreeReturns
<1>9. TypeInv'
    BY <1>2, <1>7, <1>8 DEF FreeReturns, TypeInv
<1>10. Chain(chunks', heapList', C)
    BY <1>2, <1>7, ChainSame DEF FreeReturns
<1>11. Tiles(chunks', C, pages')
    <2>1. pages' = pages
        BY DEF FreeReturns
    <2> QED BY <1>2, <1>7, <2>1 DEF Tiles, InChunks, End
<1>12. \A x \in C : ~Free(x) => /\ x \in C /\ chunks'[x].isAllocated
                                /\ chunks'[x].size >= chunks[x].size
    BY <1>4, <1>7 DEF Free
<1>13. held' = held
    BY DEF FreeReturns
<1> QED BY <1>2, <1>8, <1>9, <1>10, <1>11, <1>12, <1>13, Kept
-----------------------------------------------------------------------------
(* Growth.                                                                 *)

\* requestMoreMemory asks for pages enough for the header and the size.
LEMMA PagesForIs ==
    ASSUME NEW size \in Nat \ {0}
    PROVE  /\ PagesFor(size) \in Nat \ {0} /\ PagesFor(size) * PageSize \in Nat
           /\ PagesFor(size) * PageSize - HeaderSize >= size
<1> DEFINE x == size + HeaderSize + PageSize - 1
           n == x \div PageSize
<1>1. PageSize \in Nat \ {0} /\ HeaderSize \in Nat \ {0} /\ x \in Nat
    BY AddressRange
<1>2. n \in Int /\ n * PageSize <= x /\ x < n * PageSize + PageSize /\ n * PageSize \in Int
    BY <1>1
<1>3. PagesFor(size) = n
    BY DEF PagesFor
<1>4. n * PageSize >= size + HeaderSize
    <2> HIDE DEF n
    <2> QED BY <1>1, <1>2
<1> HIDE DEF n
<1>5. n \in Nat \ {0}
    <2>1. n * PageSize >= 1
        BY <1>1, <1>2, <1>4
    <2>2. \A d \in Int : d <= 0 => d * PageSize <= 0
        BY <1>1
    <2> QED BY <1>1, <1>2, <2>1, <2>2
<1> QED BY <1>1, <1>2, <1>3, <1>4, <1>5

\* From a to e lie n pages, from p on, that the heap does not have.
NewRow(pg, p, n, a, e) ==
    p .. p + n - 1 \subseteq Pages \ pg /\ a = p * PageSize /\ e = a + n * PageSize

\* A chunk from a to e starts and stays outside every chunk there is.
Apart(ch, C, p, n, a, e) ==
    /\ a \in Nat /\ e \in Nat /\ a < e /\ a \in Addresses /\ a \notin C
    /\ \A x \in Int : (a <= x /\ x < e) <=> \E q \in p .. p + n - 1 : x \in PageBytes(q)
    /\ \A x \in C : End(ch, x) <= a \/ e <= x

LEMMA GrownApart ==
    ASSUME NEW ch \in [Addresses -> Chunk], NEW C \in SUBSET Addresses,
           NEW pg \in SUBSET Pages, Tiles(ch, C, pg),
           NEW p \in Pages, NEW n \in Nat \ {0}, NEW a, NEW e, NewRow(pg, p, n, a, e)
    PROVE  Apart(ch, C, p, n, a, e)
<1>0. p .. p + n - 1 \subseteq Pages \ pg /\ a = p * PageSize /\ e = a + n * PageSize
    BY DEF NewRow
<1>1. /\ Pages \subseteq Nat \ {0} /\ PageSize \in Nat \ {0} /\ HeaderSize \in Nat \ {0}
      /\ C \subseteq Nat \ {0} /\ p \in Nat /\ a \in Nat /\ n * PageSize \in Nat \ {0}
      /\ \A x \in C : ch[x].size \in Nat
    <2>1. Pages \subseteq Nat \ {0} /\ PageSize \in Nat \ {0} /\ HeaderSize \in Nat \ {0}
        BY AddressRange
    <2>2. C \subseteq Nat \ {0} /\ \A x \in C : ch[x].size \in Nat
        BY Numbers
    <2> QED BY <1>0, <2>1, <2>2
<1>2. \A x \in Int : (a <= x /\ x < e) <=> \E q \in p .. p + n - 1 : x \in PageBytes(q)
    BY <1>0, <1>1, PagesInRow
<1>3. a \in Nat /\ e \in Nat /\ a < e
    BY <1>0, <1>1
<1>4. ASSUME NEW x \in Int, a <= x, x < e PROVE ~InChunks(x, ch, C)
    <2> SUFFICES ASSUME InChunks(x, ch, C) PROVE FALSE
        OBVIOUS
    <2>1. PICK q \in pg : x \in PageBytes(q)
        BY DEF Tiles, InPages
    <2>2. PICK r \in p .. p + n - 1 : x \in PageBytes(r)
        BY <1>2, <1>4
    <2>3. q \in Nat /\ r \in Nat /\ r \notin pg
        BY <1>0, <1>1
    <2> QED BY <2>1, <2>2, <2>3, PagesApart
<1>5. \A x \in C : End(ch, x) \in Int /\ x < End(ch, x) /\ x \in Int
    BY <1>1 DEF End
<1>6. ASSUME NEW x \in C PROVE End(ch, x) <= a \/ e <= x
    <2> SUFFICES ASSUME a < End(ch, x), x < e PROVE FALSE
        BY <1>3, <1>5
    <2>1. CASE x <= a
        <3>1. InChunks(a, ch, C)
            BY <2>1 DEF InChunks
        <3> QED BY <1>3, <1>4, <3>1
    <2>2. CASE a < x
        <3>1. InChunks(x, ch, C)
            BY <1>5 DEF InChunks
        <3> QED BY <1>3, <1>4, <1>5, <2>2, <3>1
    <2> QED BY <1>3, <1>5, <2>1, <2>2
<1>7. a \notin C
    BY <1>3, <1>5, <1>6
<1>8. a \in Addresses
    <2>1. PICK q \in p .. p + n - 1 : a \in PageBytes(q)
        BY <1>2, <1>3
    <2> QED BY <1>0, <2>1 DEF Addresses
<1> QED BY <1>2, <1>3, <1>6, <1>7, <1>8 DEF Apart

\* With it the chunks tile the pages and the new ones.
LEMMA GrownTiles ==
    ASSUME NEW ch \in [Addresses -> Chunk], NEW new, NEW C \in SUBSET Addresses,
           NEW pg \in SUBSET Pages, Tiles(ch, C, pg),
           NEW p \in Pages, NEW n \in Nat \ {0}, p .. p + n - 1 \subseteq Pages \ pg,
           NEW a, a = p * PageSize, n * PageSize - HeaderSize >= 1,
           new[a].size = n * PageSize - HeaderSize, \A x \in C : new[x].size = ch[x].size
    PROVE  Tiles(new, C \cup {a}, pg \cup (p .. p + n - 1))
<1>1. PICK e : e = a + n * PageSize
    OBVIOUS
<1>2. /\ a \in Nat /\ e \in Nat /\ a < e /\ a \in Addresses /\ a \notin C
      /\ \A x \in Int : (a <= x /\ x < e) <=> \E q \in p .. p + n - 1 : x \in PageBytes(q)
      /\ \A x \in C : End(ch, x) <= a \/ e <= x
    <2>1. NewRow(pg, p, n, a, e)
        BY <1>1 DEF NewRow
    <2>2. Apart(ch, C, p, n, a, e)
        BY <2>1, GrownApart
    <2> QED BY <2>2 DEF Apart
<1>3. HeaderSize \in Nat /\ n * PageSize \in Nat
    BY AddressRange
<1>4. \A x \in C : End(new, x) = End(ch, x)
    BY DEF End
<1>5. End(new, a) = e
    BY <1>1, <1>2, <1>3 DEF End
<1> DEFINE D == C \cup {a}
           bigger == pg \cup (p .. p + n - 1)
<1>6. \A x \in D : new[x].size >= 1
    BY DEF Tiles
<1>7. \A x, y \in D : x # y => End(new, x) <= y \/ End(new, y) <= x
    <2>1. \A x, y \in C : x # y => End(new, x) <= y \/ End(new, y) <= x
        BY <1>4 DEF Tiles
    <2> QED BY <1>2, <1>4, <1>5, <2>1
<1>8. ASSUME NEW x \in Int PROVE InChunks(x, new, D) <=> InPages(x, bigger)
    <2>1. InChunks(x, new, D) <=> InChunks(x, ch, C) \/ (a <= x /\ x < e)
        BY <1>4, <1>5 DEF InChunks
    <2>2. InPages(x, bigger) <=> InPages(x, pg) \/ \E q \in p .. p + n - 1 : x \in PageBytes(q)
        BY DEF InPages
    <2>3. InChunks(x, ch, C) <=> InPages(x, pg)
        BY DEF Tiles
    <2> HIDE DEF D, bigger
    <2> QED BY <1>2, <2>1, <2>2, <2>3
<1> HIDE DEF D, bigger
<1>9. Tiles(new, D, bigger)
    BY <1>6, <1>7, <1>8 DEF Tiles
<1> QED BY <1>9 DEF D, bigger

LEMMA RequestMoreMemoryStep ==
    ASSUME OneContext, HeapInv, NEW c \in Contexts, NEW p \in Pages, RequestMoreMemory(c, p)
    PROVE  HeapInv'
<1>1. PICK C \in SUBSET Addresses : Sound(C)
    BY DEF HeapInv
<1>2. TypeInv /\ Chain(chunks, heapList, C) /\ Tiles(chunks, C, pages) /\ CallsInv(C) /\ BlocksInv(C)
    BY <1>1 DEF HeapInv, Sound
<1>3. /\ Contexts = {c} /\ chunks \in [Addresses -> Chunk] /\ call[c] \in Calls
      /\ pages \in SUBSET Pages /\ heapList \in Nat
      /\ call[c].size \in RequestSizes /\ call[c].op = "find" /\ call[c].best = Null
    BY <1>2, CallIs DEF TypeInv, RequestMoreMemory, At
<1>4. /\ C \subseteq Nat \ {0} /\ Null \notin C
      /\ \A x \in C : chunks[x] \in Chunk /\ chunks[x].size \in Nat
    BY <1>3, Numbers
<1>5. call[c].size \in Nat \ {0}
    BY <1>3, AddressRange
<1>6. PICK n \in Nat \ {0} : n = PagesFor(call[c].size) /\ n * PageSize - HeaderSize >= 1
                             /\ n * PageSize \in Nat
    <2>1. /\ PagesFor(call[c].size) \in Nat \ {0} /\ PagesFor(call[c].size) * PageSize \in Nat
          /\ PagesFor(call[c].size) * PageSize - HeaderSize >= call[c].size
        BY <1>5, PagesForIs
    <2>2. HeaderSize \in Nat
        BY AddressRange
    <2> QED BY <1>5, <2>1, <2>2
<1>7. PICK a : a = p * PageSize
    OBVIOUS
<1>8. PICK last : last = IF heapList = Null THEN Null ELSE CHOOSE x \in Linked : chunks[x].next = Null
    OBVIOUS
<1>9. /\ heapList = Null <=> C = {}
      /\ heapList \in C \cup {Null}
      /\ C # {} => last \in C /\ chunks[last].next = Null
      /\ C = {} => last = Null
      /\ \A x \in C : chunks[x].prev \in C \cup {Null}
    <2>1. Linked = C
        BY <1>2, LinkedIs
    <2>2. /\ heapList \in C \cup {Null} /\ (heapList = Null <=> C = {})
          /\ \A x \in C : chunks[x].prev \in C \cup {Null}
          /\ C # {} => \E x \in C : chunks[x].next = Null
        BY <1>2, <1>4, ChainLinks
    <2> QED BY <1>8, <2>1, <2>2
<1> DEFINE row == p .. p + n - 1
           size == n * PageSize - HeaderSize
           new == [size |-> size, isAllocated |-> FALSE, next |-> Null, prev |-> last]
<1>10. row \subseteq Pages \ pages /\ pages' = pages \cup row
    BY <1>6 DEF RequestMoreMemory
<1>11. chunks' = [x \in Addresses |->
                    IF x = a THEN new
                    ELSE IF x = last THEN [chunks[x] EXCEPT !.next = a] ELSE chunks[x]]
    <2>1. DOMAIN chunks = Addresses
        BY <1>3
    <2> QED BY <1>6, <1>7, <1>8, <2>1 DEF RequestMoreMemory, Appended
<1>12. a \in Addresses /\ a \notin C /\ a \in Nat \ {0}
    <2>1. PICK e : e = a + n * PageSize
        OBVIOUS
    <2>2. NewRow(pages, p, n, a, e)
        BY <1>7, <1>10, <2>1 DEF NewRow
    <2>3. Apart(chunks, C, p, n, a, e)
        BY <1>2, <1>3, <2>2, GrownApart
    <2>4. a \in Addresses /\ a \notin C
        BY <2>3 DEF Apart
    <2> QED BY <2>4, AddressRange
<1> HIDE DEF row
<1>13. a # last /\ last \in Nat
    <2>1. CASE C = {}
        BY <1>9, <1>12, <2>1 DEF Null
    <2>2. CASE C # {}
        BY <1>4, <1>9, <1>12, <2>2
    <2> QED BY <2>1, <2>2
<1>14. size \in Nat
    BY <1>6, AddressRange
<1> HIDE DEF size
<1>15. /\ chunks'[a] = new /\ new \in Chunk
       /\ chunks' \in [Addresses -> Chunk]
       /\ \A x \in C : /\ chunks'[x].size = chunks[x].size /\ chunks'[x].prev = chunks[x].prev
                       /\ chunks'[x].isAllocated = chunks[x].isAllocated
                       /\ chunks'[x].next = IF x = last THEN a ELSE chunks[x].next
    <2>1. new \in Chunk
        BY <1>13, <1>14 DEF Chunk, Null
    <2>2. chunks'[a] = new
        <3> HIDE DEF new
        <3> QED BY <1>11, <1>12
    <2>3. ASSUME NEW x \in Addresses, x # a
          PROVE  /\ chunks'[x] \in Chunk
                 /\ chunks'[x].size = chunks[x].size /\ chunks'[x].prev = chunks[x].prev
                 /\ chunks'[x].isAllocated = chunks[x].isAllocated
                 /\ chunks'[x].next = IF x = last THEN a ELSE chunks[x].next
        <3>1. chunks[x] \in Chunk
            BY <1>3
        <3>2. chunks'[x] = IF x = last THEN [chunks[x] EXCEPT !.next = a] ELSE chunks[x]
            <4> HIDE DEF new
            <4> QED BY <1>11, <2>3
        <3> QED BY <1>12, <3>1, <3>2 DEF Chunk
    <2>4. chunks' \in [Addresses -> Chunk]
        <3>1. \A x \in Addresses : chunks'[x] \in Chunk
            BY <2>1, <2>2, <2>3
        <3>2. chunks' = [x \in Addresses |-> chunks'[x]]
            <4> HIDE DEF new
            <4> QED BY <1>11
        <3> QED BY <3>1, <3>2
    <2> HIDE DEF new
    <2> QED BY <1>12, <2>1, <2>2, <2>3, <2>4
<1>16. chunks'[a].size = size /\ chunks'[a].next = Null /\ chunks'[a].prev = last
    BY <1>15
<1> DEFINE D == C \cup {a}
<1>17. D \in SUBSET Addresses
    BY <1>12
<1>18. heapList' = (IF heapList = Null THEN a ELSE heapList)
    BY <1>6, <1>7 DEF RequestMoreMemory
<1>19. Chain(chunks', heapList', D)
    <2>1. CASE C = {}
        <3>1. heapList' = a /\ D = {a} /\ last = Null
            BY <1>9, <1>18, <2>1
        <3>2. Chain(chunks', a, {a})
            BY <1>16, <3>1, ChainFirst
        <3> QED BY <3>1, <3>2
    <2>2. CASE C # {}
        <3>1. last \in C /\ chunks[last].next = Null /\ heapList' = heapList
            BY <1>9, <1>18, <2>2
        <3>2. Behind(chunks, chunks', C, last, a)
            <4>1. chunks'[a].next = chunks[last].next /\ chunks'[a].prev = last
                BY <1>16, <3>1
            <4>2. chunks'[last].next = a /\ chunks'[last].prev = chunks[last].prev
                BY <1>15, <3>1
            <4>3. ASSUME NEW x \in C \ {last}
                  PROVE  /\ chunks'[x].next = chunks[x].next
                         /\ chunks'[x].prev = IF x = chunks[last].next THEN a ELSE chunks[x].prev
                BY <1>4, <1>15, <3>1
            <4> QED BY <4>1, <4>2, <4>3 DEF Behind
        <3>3. Chain(chunks', heapList, C \cup {a})
            BY <1>2, <1>4, <1>12, <3>1, <3>2, ChainInsert
        <3> QED BY <3>1, <3>3
    <2> QED BY <2>1, <2>2
<1>20. Tiles(chunks', D, pages')
    <2>1. \A x \in C : chunks'[x].size = chunks[x].size
        BY <1>15
    <2>2. chunks'[a].size = n * PageSize - HeaderSize
        BY <1>16 DEF size
    <2>3. p .. p + n - 1 \subseteq Pages \ pages
        BY <1>10 DEF row
    <2>4. Tiles(chunks', C \cup {a}, pages \cup (p .. p + n - 1))
        BY <1>2, <1>3, <1>6, <1>7, <2>1, <2>2, <2>3, GrownTiles
    <2> QED BY <1>10, <2>4 DEF row
<1>21. call' = [call EXCEPT ![c].grown = TRUE, ![c].cursor = heapList']
    BY DEF RequestMoreMemory
<1>22. heapList' \in Nat /\ heapList' \in D
    BY <1>9, <1>12, <1>18, <1>3
<1>23. /\ call' \in [Contexts -> Calls] /\ call'[c].op = "find" /\ call'[c].best = Null
       /\ call'[c].size = call[c].size /\ call'[c].cursor = heapList'
    <2> HIDE DEF D
    <2> QED BY <1>2, <1>3, <1>21, <1>22 DEF TypeInv, Calls
<1>24. CallsInv(D)'
    BY <1>3, <1>22, <1>23 DEF CallsInv
<1>25. TypeInv'
    <2>1. held' = held /\ pages' \subseteq Pages
        BY <1>3, <1>10 DEF RequestMoreMemory
    <2> QED BY <1>2, <1>15, <1>22, <1>23, <2>1 DEF TypeInv
<1>26. \A x \in C : ~Free(x) => /\ x \in D /\ chunks'[x].isAllocated
                                /\ chunks'[x].size >= chunks[x].size
    BY <1>4, <1>15 DEF Free
<1>27. held' = held
    BY DEF RequestMoreMemory
<1> HIDE DEF D
<1> QED BY <1>2, <1>17, <1>19, <1>20, <1>24, <1>25, <1>26, <1>27, Kept
-----------------------------------------------------------------------------
(* The theorems.                                                           *)

LEMMA HeapInit ==
    ASSUME OneContext, Init
    PROVE  HeapInv
<1>1. Chain(chunks, heapList, {})
    BY ChainEmpty DEF Init
<1>2. Tiles(chunks, {}, pages)
    BY DEF Init, Tiles, InChunks, InPages
<1>3. CallsInv({})
    BY DEF Init, CallsInv, Idle
<1>4. BlocksInv({})
    BY DEF Init, BlocksInv, NoBlock
<1>5. TypeInv
    <2>1. Blank \in Chunk /\ Idle \in Calls
        BY DEF Blank, Idle, Chunk, Calls, Null
    <2>2. chunks \in [Addresses -> Chunk] /\ call \in [Contexts -> Calls]
        BY <2>1 DEF Init
    <2> QED BY <2>2 DEF Init, TypeInv, Null
<1>6. Sound({}) /\ {} \in SUBSET Addresses
    BY <1>1, <1>2, <1>3, <1>4 DEF Sound
<1> QED BY <1>5, <1>6 DEF HeapInv

LEMMA HeapStep ==
    ASSUME OneContext, HeapInv, [Next]_vars
    PROVE  HeapInv'
<1>1. ASSUME NEW c \in Contexts, NEW size \in RequestSizes, Alloc(c, size) PROVE HeapInv'
    BY <1>1, AllocStep
<1>2. ASSUME NEW c \in Contexts, NEW s \in Slots, FreeBlock(c, s) PROVE HeapInv'
    BY <1>2, FreeBlockStep
<1>3. ASSUME NEW c \in Contexts, Find(c) PROVE HeapInv'
    BY <1>3, FindStep
<1>4. ASSUME NEW c \in Contexts, NEW p \in Pages, RequestMoreMemory(c, p) PROVE HeapInv'
    BY <1>4, RequestMoreMemoryStep
<1>5. ASSUME NEW c \in Contexts, AllocFails(c) PROVE HeapInv'
    BY <1>5, AllocFailsStep
<1>6. ASSUME NEW c \in Contexts, SplitChunk(c) PROVE HeapInv'
    BY <1>6, SplitChunkStep
<1>7. ASSUME NEW c \in Contexts, MarkChunk(c) PROVE HeapInv'
    BY <1>7, MarkChunkStep
<1>8. ASSUME NEW c \in Contexts, Merge(c) PROVE HeapInv'
    BY <1>8, MergeStep
<1>9. ASSUME NEW c \in Contexts, Coalesce(c) PROVE HeapInv'
    BY <1>9, CoalesceStep
<1>10. ASSUME NEW c \in Contexts, FreeReturns(c) PROVE HeapInv'
    BY <1>10, FreeReturnsStep
<1>11. ASSUME UNCHANGED vars PROVE HeapInv'
    <2>1. PICK C \in SUBSET Addresses : Sound(C)
        BY DEF HeapInv
    <2>2. /\ chunks' = chunks /\ heapList' = heapList /\ pages' = pages
          /\ held' = held /\ call' = call
        BY <1>11 DEF vars
    <2>3. TypeInv' /\ Chain(chunks', heapList', C) /\ Tiles(chunks', C, pages')
        BY <2>1, <2>2 DEF HeapInv, TypeInv, Sound
    <2>4. CallsInv(C)' /\ BlocksInv(C)'
        BY <2>1, <2>2 DEF Sound, CallsInv, Chosen, BlocksInv, InChunk, Free
    <2>5. Sound(C)'
        BY <2>3, <2>4 DEF Sound
    <2> QED BY <2>3, <2>5 DEF HeapInv
<1> QED BY <1>1, <1>2, <1>3, <1>4, <1>5, <1>6, <1>7, <1>8, <1>9, <1>10, <1>11 DEF Next, Step

\* Between any two steps of a call, of alloc or of free, the headers form one list whose
\* chunks tile the pages, and every block lies in an allocated chunk of its own.
THEOREM InvTheorem == ASSUME OneContext PROVE Spec => []HeapInv
<1>1. Init => HeapInv
    BY HeapInit
<1>2. HeapInv /\ [Next]_vars => HeapInv'
    BY HeapStep
<1> QED BY <1>1, <1>2, PTL DEF Spec

\* Where a block lies.
LEMMA BlockPlace ==
    ASSUME TypeInv, NEW C \in SUBSET Addresses, BlocksInv(C), NEW s \in Slots
    PROVE  \/ held[s] = NoBlock /\ Bytes(held[s]) = {}
           \/ \E a \in C : /\ held[s].at = a + HeaderSize /\ held[s].at # Null
                           /\ \A x \in Bytes(held[s]) :
                                 x \in Int /\ a + HeaderSize <= x /\ x < End(chunks, a)
<1>1. CASE held[s] = NoBlock
    BY <1>1 DEF NoBlock, Bytes, Null
<1>2. CASE InChunk(held[s], C)
    <2>1. PICK a \in C : /\ held[s].at = a + HeaderSize
                         /\ held[s].size \in RequestSizes /\ held[s].size <= chunks[a].size
        BY <1>2 DEF InChunk
    <2>2. /\ a \in Nat \ {0} /\ HeaderSize \in Nat \ {0} /\ held[s].size \in Nat
          /\ chunks[a].size \in Nat
        BY <2>1, AddressRange, Numbers DEF TypeInv
    <2>3. \A x \in Bytes(held[s]) : x \in Int /\ a + HeaderSize <= x /\ x < End(chunks, a)
        BY <2>1, <2>2 DEF Bytes, End
    <2> QED BY <2>1, <2>2, <2>3 DEF Null
<1> QED BY <1>1, <1>2 DEF BlocksInv

\* Two bytes of one address are in one chunk.
LEMMA OneChunk ==
    ASSUME NEW ch \in [Addresses -> Chunk], NEW C \in SUBSET Addresses, NEW pg, Tiles(ch, C, pg),
           NEW a \in C, NEW b \in C, NEW x \in Int,
           a <= x, x < End(ch, a), b <= x, x < End(ch, b)
    PROVE  a = b
<1>1. a \in Nat /\ b \in Nat /\ HeaderSize \in Nat /\ ch[a].size \in Nat /\ ch[b].size \in Nat
    <2>1. C \subseteq Nat \ {0} /\ \A y \in C : ch[y].size \in Nat
        BY Numbers
    <2> QED BY <2>1, AddressRange
<1>2. End(ch, a) \in Int /\ End(ch, b) \in Int
    BY <1>1 DEF End
<1>3. a # b => End(ch, a) <= b \/ End(ch, b) <= a
    BY DEF Tiles
<1> QED BY <1>1, <1>2, <1>3

LEMMA DisjointInv == HeapInv => BlocksDisjoint
<1> SUFFICES ASSUME HeapInv PROVE BlocksDisjoint
    OBVIOUS
<1>1. PICK C \in SUBSET Addresses : Sound(C)
    BY DEF HeapInv
<1>2. TypeInv /\ Chain(chunks, heapList, C) /\ Tiles(chunks, C, pages) /\ BlocksInv(C)
    BY <1>1 DEF HeapInv, Sound
<1>3. Linked = C /\ chunks \in [Addresses -> Chunk]
    BY <1>2, LinkedIs DEF TypeInv
<1>4. /\ HeaderSize \in Nat \ {0} /\ C \subseteq Nat \ {0}
      /\ \A x \in C : chunks[x].size \in Nat
    BY <1>3, Numbers, AddressRange
<1> SUFFICES ASSUME NEW s \in Slots
             PROVE  /\ \A t \in Slots \ {s} : Bytes(held[s]) \cap Bytes(held[t]) = {}
                    /\ \A a \in Linked : Bytes(held[s]) \cap (a .. a + HeaderSize - 1) = {}
    BY DEF BlocksDisjoint
<1>5. CASE held[s] = NoBlock /\ Bytes(held[s]) = {}
    BY <1>5
<1>6. ASSUME NEW b \in C, held[s].at = b + HeaderSize, held[s].at # Null,
             \A x \in Bytes(held[s]) : x \in Int /\ b + HeaderSize <= x /\ x < End(chunks, b)
      PROVE  /\ \A t \in Slots \ {s} : Bytes(held[s]) \cap Bytes(held[t]) = {}
             /\ \A a \in Linked : Bytes(held[s]) \cap (a .. a + HeaderSize - 1) = {}
    <2>1. ASSUME NEW t \in Slots \ {s}, NEW x \in Bytes(held[s]), x \in Bytes(held[t]) PROVE FALSE
        <3>1. PICK d \in C : /\ held[t].at = d + HeaderSize
                             /\ x \in Int /\ d + HeaderSize <= x /\ x < End(chunks, d)
            BY <1>2, <2>1, BlockPlace
        <3>2. b + HeaderSize <= x /\ x < End(chunks, b)
            BY <1>6
        <3>3. b <= x /\ d <= x
            BY <1>4, <3>1, <3>2
        <3>4. b = d
            BY <1>2, <1>3, <3>1, <3>2, <3>3, OneChunk
        <3> QED BY <1>2, <1>6, <3>1, <3>4 DEF BlocksInv
    <2>2. ASSUME NEW a \in C, NEW x \in Bytes(held[s]), x \in a .. a + HeaderSize - 1 PROVE FALSE
        <3>1. /\ a <= x /\ x < a + HeaderSize /\ x < End(chunks, a)
              /\ b <= x /\ b + HeaderSize <= x /\ x < End(chunks, b) /\ x \in Int
            BY <1>4, <1>6, <2>2 DEF End
        <3>2. a = b
            BY <1>2, <1>3, <3>1, OneChunk
        <3> QED BY <1>4, <3>1, <3>2
    <2> QED BY <1>3, <2>1, <2>2
<1> QED BY <1>2, <1>5, <1>6, BlockPlace

\* Heap.h:57, with one context: no two blocks that alloc gave share a byte, and none overlaps
\* the header of a chunk, in every state of every call.
THEOREM DisjointTheorem == ASSUME OneContext PROVE Spec => []BlocksDisjoint
<1> QED BY InvTheorem, DisjointInv, PTL

LEMMA TileInv == HeapInv => ChunksTile
<1> SUFFICES ASSUME HeapInv PROVE ChunksTile
    OBVIOUS
<1>1. PICK C \in SUBSET Addresses : Sound(C)
    BY DEF HeapInv
<1>2. TypeInv /\ Chain(chunks, heapList, C) /\ Tiles(chunks, C, pages)
    BY <1>1 DEF HeapInv, Sound
<1>3. Linked = C /\ chunks \in [Addresses -> Chunk]
    BY <1>2, LinkedIs DEF TypeInv
<1>4. HeaderSize \in Nat \ {0} /\ C \subseteq Nat \ {0} /\ \A x \in C : chunks[x].size \in Nat
    BY <1>3, Numbers, AddressRange
<1>5. ASSUME NEW a \in C, NEW x
      PROVE  x \in ChunkBytes(a) <=> x \in Int /\ a <= x /\ x < End(chunks, a)
    BY <1>4 DEF ChunkBytes, End
<1>6. UNION {ChunkBytes(a) : a \in Linked} = UNION {PageBytes(p) : p \in pages}
    <2>1. ASSUME NEW x, NEW a \in C, x \in ChunkBytes(a) PROVE \E p \in pages : x \in PageBytes(p)
        <3>1. x \in Int /\ InChunks(x, chunks, C)
            BY <1>5, <2>1 DEF InChunks
        <3> QED BY <1>2, <3>1 DEF Tiles, InPages
    <2>2. ASSUME NEW x, NEW p \in pages, x \in PageBytes(p) PROVE \E a \in C : x \in ChunkBytes(a)
        <3>1. x \in Int
            BY <1>2, <2>2, AddressRange, InPage DEF TypeInv
        <3>2. InChunks(x, chunks, C)
            BY <1>2, <2>2, <3>1 DEF Tiles, InPages
        <3> QED BY <1>5, <3>1, <3>2 DEF InChunks
    <2> QED BY <1>3, <2>1, <2>2
<1>7. \A a, b \in Linked : a # b => ChunkBytes(a) \cap ChunkBytes(b) = {}
    <2>1. ASSUME NEW a \in C, NEW b \in C, NEW x \in ChunkBytes(a), x \in ChunkBytes(b) PROVE a = b
        <3>1. x \in Int /\ a <= x /\ x < End(chunks, a) /\ b <= x /\ x < End(chunks, b)
            BY <1>5, <2>1
        <3> QED BY <1>2, <1>3, <3>1, OneChunk
    <2> QED BY <1>3, <2>1
<1>8. \A a \in C : /\ chunks[a].next # Null => chunks[chunks[a].next].prev = a
                   /\ chunks[a].prev # Null => chunks[chunks[a].prev].next = a
    BY <1>2, <1>4, ChainLinks
<1> QED BY <1>3, <1>6, <1>7, <1>8 DEF ChunksTile

\* Splitting, merging and growing, whatever their order, lose no byte of the pages and share
\* none, and the links that tryMerge goes back by are those forwards.
THEOREM TileTheorem == ASSUME OneContext PROVE Spec => []ChunksTile
<1> QED BY InvTheorem, TileInv, PTL
\* A step of the heap is one of the abstract store, or changes no block.
LEMMA StoreStep ==
    ASSUME OneContext, HeapInv, HeapInv', [Next]_vars
    PROVE  [Store!Next]_held
<1>1. CASE held' = held
    BY <1>1
<1>2. ASSUME NEW c \in Contexts, MarkChunk(c) PROVE Store!Next
    <2>1. PICK C \in SUBSET Addresses : Sound(C)
        BY DEF HeapInv
    <2>2. TypeInv /\ Tiles(chunks, C, pages) /\ CallsInv(C) /\ BlocksInv(C)
        BY <2>1 DEF HeapInv, Sound
    <2>3. /\ call[c].size \in RequestSizes /\ Chosen(call[c], C)
          /\ chunks \in [Addresses -> Chunk] /\ pages \subseteq Pages
        BY <1>2, <2>2, CallIs DEF MarkChunk, At, TypeInv
    <2>4. PICK a \in C : a = call[c].best /\ Free(a) /\ call[c].size <= chunks[a].size
        BY <2>3 DEF Chosen
    <2>5. PICK size \in RequestSizes : size = call[c].size
        BY <2>3
    <2>6. /\ a \in Nat \ {0} /\ HeaderSize \in Nat \ {0} /\ size \in Nat \ {0}
          /\ chunks[a].size \in Nat /\ C \subseteq Int /\ C \subseteq Nat \ {0}
        <3>1. C \subseteq Nat \ {0} /\ \A x \in C : chunks[x].size \in Nat
            BY <2>3, Numbers
        <3>2. HeaderSize \in Nat \ {0} /\ RequestSizes \subseteq Nat \ {0}
            BY AddressRange
        <3> QED BY <3>1, <3>2
    <2>7. PICK s \in Slots : /\ held[s].at = Null
                             /\ held' = [held EXCEPT ![s] = [at |-> a + HeaderSize, size |-> size]]
        BY <1>2, <2>4, <2>5 DEF MarkChunk
    <2>8. PICK b : b = [at |-> a + HeaderSize, size |-> size]
        OBVIOUS
    <2>9. Bytes(b) = a + HeaderSize .. a + HeaderSize + size - 1
        BY <2>8 DEF Bytes
    <2>10. \A x \in Bytes(b) : x \in Int /\ a <= x /\ x < End(chunks, a) /\ x \in Addresses
        <3>1. \A x \in Bytes(b) : x \in a .. End(chunks, a) - 1
            <4>1. size <= chunks[a].size /\ End(chunks, a) = a + HeaderSize + chunks[a].size
                BY <2>4, <2>5 DEF End
            <4> QED BY <2>6, <2>9, <4>1
        <3>2. \A x \in a .. End(chunks, a) - 1 : x \in Addresses
            BY <2>2, <2>3, <2>6, ChunkInPages
        <3> QED BY <2>6, <3>1, <3>2 DEF End
    <2>11. a + HeaderSize \in Addresses \ {Null}
        <3>1. a + HeaderSize \in Bytes(b)
            BY <2>6, <2>9
        <3> QED BY <2>6, <2>10, <3>1 DEF Null
    <2>12. ASSUME NEW t \in Slots PROVE Bytes(b) \cap Bytes(held[t]) = {}
        <3>1. CASE held[t] = NoBlock
            BY <3>1 DEF Bytes, NoBlock, Null
        <3>2. CASE InChunk(held[t], C)
            <4>1. PICK d \in C : /\ held[t].at = d + HeaderSize /\ ~Free(d)
                                 /\ held[t].size \in RequestSizes /\ held[t].size <= chunks[d].size
                BY <3>2 DEF InChunk
            <4>2. /\ d \in Nat /\ held[t].size \in Nat /\ chunks[d].size \in Nat
                BY <2>3, <4>1, AddressRange, Numbers
            <4>3. \A x \in Bytes(held[t]) : x \in Int /\ d <= x /\ x < End(chunks, d)
                BY <2>6, <4>1, <4>2 DEF Bytes, End
            <4>4. ASSUME NEW x \in Bytes(b), x \in Bytes(held[t]) PROVE FALSE
                <5>1. a = d
                    BY <2>2, <2>3, <2>10, <4>3, <4>4, OneChunk
                <5> QED BY <2>4, <4>1, <5>1
            <4> QED BY <4>4
        <3> QED BY <2>2, <3>1, <3>2 DEF BlocksInv
    <2>13. held[s] = Store!Empty
        <3>1. held[s] = NoBlock
            BY <2>2, <2>6, <2>7 DEF BlocksInv, InChunk, Null
        <3> QED BY <3>1 DEF NoBlock, Store!Empty
    <2>14. /\ Store!Bytes(b) \subseteq Addresses
           /\ \A t \in Slots : Store!Bytes(b) \cap Store!Bytes(held[t]) = {}
           /\ held' = [held EXCEPT ![s] = b]
        BY <2>7, <2>8, <2>10, <2>12 DEF Bytes, Store!Bytes
    <2>15. Store!Alloc(s)
        BY <2>8, <2>11, <2>13, <2>14 DEF Store!Alloc
    <2> QED BY <2>15 DEF Store!Next
<1>3. ASSUME NEW c \in Contexts, NEW s \in Slots, FreeBlock(c, s) PROVE Store!Next
    <2>1. held[s] # Store!Empty
        BY <1>3 DEF FreeBlock, Store!Empty
    <2>2. Store!Free(s)
        BY <1>3, <2>1 DEF FreeBlock, Store!Free, Store!Empty
    <2> QED BY <2>2 DEF Store!Next
<1>4. ASSUME NEW c \in Contexts, NEW size \in RequestSizes, Alloc(c, size) PROVE held' = held
    BY <1>4 DEF Alloc
<1>5. ASSUME NEW c \in Contexts, NEW p \in Pages, RequestMoreMemory(c, p) PROVE held' = held
    BY <1>5 DEF RequestMoreMemory
<1>6. ASSUME NEW c \in Contexts,
             Find(c) \/ AllocFails(c) \/ SplitChunk(c) \/ Merge(c) \/ Coalesce(c) \/ FreeReturns(c)
      PROVE  held' = held
    BY <1>6 DEF Find, AllocFails, SplitChunk, Merge, Coalesce, FreeReturns
<1>7. ASSUME UNCHANGED vars PROVE held' = held
    BY <1>7 DEF vars
<1> QED BY <1>1, <1>2, <1>3, <1>4, <1>5, <1>6, <1>7 DEF Next, Step

\* With one context the heap implements the store of blocks that Heap.h promises: alloc gives
\* contiguous bytes of the heap that belong to nobody, and only free takes them back.
THEOREM StoreTheorem == ASSUME OneContext PROVE Spec => IsStore
<1>1. Init => Store!Init
    BY DEF Init, Store!Init, Store!Empty
<1>2. HeapInv /\ HeapInv' /\ [Next]_vars => [Store!Next]_held
    BY StoreStep
<1>3. Spec => []HeapInv
    BY InvTheorem
<1> QED BY <1>1, <1>2, <1>3, PTL DEF Spec, IsStore, Store!Spec
=============================================================================
