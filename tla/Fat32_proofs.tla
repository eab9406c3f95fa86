------------------------------ MODULE Fat32_proofs ------------------------------
(***************************************************************************)
(* Chains and reads of FAT32Partition, for every size of the partition and *)
(* of a cluster, all names, offsets, sizes and bytes.                      *)
(*                                                                         *)
(* A disk is Sound if each entry in the clusters of the directories, also  *)
(* one behind an early end of its directory, is blank or has a whole chain *)
(* that its size fits into, and no two of them share a cluster.  In the    *)
(* middle of a call the disk need not be: an entry still names the chain   *)
(* that is being freed, and a cluster that was linked to a directory still *)
(* holds what some file left there.  So the invariant asks it of the View  *)
(* of a call: the disk with the slot the call takes away, or the cluster   *)
(* it has linked, blanked out.  The rest of the invariant is what the call *)
(* has read and still uses: the image of a directory, the entry of a file, *)
(* a cluster found free, one marked that nobody has, how far a write came. *)
(*                                                                         *)
(* Three hypotheses, each of which is needed.  OneCaller: two callers find *)
(* the same free cluster.  SixteenBits: an entry keeps its first cluster   *)
(* in a uint16_t, so that of a larger partition's file is cut.             *)
(* CrashesAdd: a crash between the freeing of a chain and the marking of   *)
(* its slots leaves an entry without clusters, and one between two writes  *)
(* to a directory can leave a linked cluster with old bytes in it.         *)
(***************************************************************************)
EXTENDS Fat32, TLAPS, FiniteSetTheorems, SequenceTheorems, WellFoundedInduction

\* Columns of a cluster, and the allocation table.
Cols == 1 .. CellsPerCluster
Table == [Clusters -> Clusters \cup {0, Eoc}]

-----------------------------------------------------------------------------
(* Cells of a chain: the cluster and the place in it.                      *)

\* The cluster of the j-th cell, its column, and the way back.
Which(j) == (j - 1) \div CellsPerCluster + 1
Where(j) == ((j - 1) % CellsPerCluster) + 1
Nth(k, i) == (k - 1) * CellsPerCluster + i

\* The constants in the form in which the proofs use them.
LEMMA Geometry ==
    /\ CellsPerCluster \in Nat /\ CellsPerCluster >= 3 /\ CellsPerCluster > 0
    /\ LastCluster \in Nat /\ LastCluster >= 2
    /\ Root \in Clusters /\ Clusters \subseteq Nat /\ 0 \notin Clusters /\ Eoc \notin Clusters
    /\ Eoc # 0 /\ Root = 2
BY GeometryAssumption DEF Root, Eoc, Clusters

\* A cell has one place, and a place one cell.
LEMMA Divided ==
    ASSUME NEW n \in Nat
    PROVE  \E q \in Nat, r \in 0 .. CellsPerCluster - 1 :
              /\ n \div CellsPerCluster = q /\ n % CellsPerCluster = r
              /\ n = q * CellsPerCluster + r
<1>1. CellsPerCluster \in Nat /\ CellsPerCluster > 0
    BY Geometry
<1>2. PICK q \in Nat : n \div CellsPerCluster = q
    BY <1>1
<1>3. PICK r \in 0 .. CellsPerCluster - 1 : n % CellsPerCluster = r
    BY <1>1
<1>4. n = q * CellsPerCluster + r
    BY <1>1, <1>2, <1>3
<1> QED BY <1>2, <1>3, <1>4

\* Multiples of the size of a cluster.
LEMMA Times ==
    ASSUME NEW a \in Nat, NEW b \in Nat
    PROVE  /\ a * CellsPerCluster \in Nat
           /\ (a + 1) * CellsPerCluster = a * CellsPerCluster + CellsPerCluster
           /\ a <= b => a * CellsPerCluster <= b * CellsPerCluster
           /\ a < b => a * CellsPerCluster + CellsPerCluster <= b * CellsPerCluster
<1>1. CellsPerCluster \in Nat
    BY Geometry
<1>2. a * CellsPerCluster \in Nat /\ (a + 1) * CellsPerCluster = a * CellsPerCluster + CellsPerCluster
    BY <1>1
<1>3. \A d, s \in Nat : (a + d) * s >= a * s
    OBVIOUS
<1>4. \A d, s \in Nat : (a + 1 + d) * s >= a * s + s
    OBVIOUS
<1>5. a <= b => b - a \in Nat /\ a + (b - a) = b
    OBVIOUS
<1>6. a < b => b - (a + 1) \in Nat /\ a + 1 + (b - (a + 1)) = b
    OBVIOUS
<1> QED BY <1>1, <1>2, <1>3, <1>4, <1>5, <1>6

\* The place of a cell.
LEMMA PlaceOfCell ==
    ASSUME NEW j \in Nat \ {0}
    PROVE  /\ Which(j) \in Nat \ {0} /\ Where(j) \in Cols
           /\ j = Nth(Which(j), Where(j))
<1>1. j - 1 \in Nat
    OBVIOUS
<1>2. PICK q \in Nat, r \in 0 .. CellsPerCluster - 1 :
         /\ (j - 1) \div CellsPerCluster = q /\ (j - 1) % CellsPerCluster = r
         /\ j - 1 = q * CellsPerCluster + r
    BY <1>1, Divided
<1>3. Which(j) = q + 1 /\ Where(j) = r + 1
    BY <1>2 DEF Which, Where
<1>4. j - 1 = q * CellsPerCluster + r
    BY <1>2
<1>5. q * CellsPerCluster \in Nat /\ (q + 1) - 1 = q
    BY <1>3, Geometry
<1> QED BY <1>3, <1>4, <1>5, Geometry DEF Nth, Cols

\* The cell of a place.
LEMMA CellOfPlace ==
    ASSUME NEW k \in Nat \ {0}, NEW i \in Cols
    PROVE  Nth(k, i) \in Nat \ {0} /\ Which(Nth(k, i)) = k /\ Where(Nth(k, i)) = i
<1>1. (k - 1) * CellsPerCluster \in Nat /\ k - 1 \in Nat /\ i \in Nat /\ i >= 1 /\ i <= CellsPerCluster
    BY Geometry, Times DEF Cols
<1>2. Nth(k, i) \in Nat \ {0}
    BY <1>1 DEF Nth
<1> DEFINE j == Nth(k, i)
<1>3. Which(j) \in Nat \ {0} /\ Where(j) \in Cols /\ j = Nth(Which(j), Where(j))
    BY <1>2, PlaceOfCell
<1> DEFINE a == Which(j) - 1
           b == k - 1
<1>4. a \in Nat /\ b \in Nat /\ a * CellsPerCluster \in Nat /\ b * CellsPerCluster \in Nat
    BY <1>1, <1>3, Times
<1>5. Where(j) \in Nat /\ Where(j) >= 1 /\ Where(j) <= CellsPerCluster
    BY <1>3, Geometry DEF Cols
<1>6. a * CellsPerCluster + Where(j) = b * CellsPerCluster + i
    BY <1>3 DEF Nth
<1>7. ~(a < b)
    <2>1. SUFFICES ASSUME a < b PROVE FALSE
        OBVIOUS
    <2>2. a * CellsPerCluster + CellsPerCluster <= b * CellsPerCluster
        <3> HIDE DEF a, b
        <3> QED BY <1>4, <2>1, Times
    <2> HIDE DEF a, b
    <2> QED BY <1>1, <1>4, <1>5, <1>6, <2>2, Geometry
<1>8. ~(b < a)
    <2>1. SUFFICES ASSUME b < a PROVE FALSE
        OBVIOUS
    <2>2. b * CellsPerCluster + CellsPerCluster <= a * CellsPerCluster
        <3> HIDE DEF a, b
        <3> QED BY <1>4, <2>1, Times
    <2> HIDE DEF a, b
    <2> QED BY <1>1, <1>4, <1>5, <1>6, <2>2, Geometry
<1>9. a = b
    BY <1>4, <1>7, <1>8
<1>10. Which(j) = k
    BY <1>3, <1>9
<1>11. Where(j) = i
    <2> HIDE DEF a, b
    <2> QED BY <1>1, <1>4, <1>5, <1>6, <1>9
<1> QED BY <1>2, <1>10, <1>11

\* A chain of n clusters has the cells up to n * CellsPerCluster.
LEMMA PlaceInChain ==
    ASSUME NEW j \in Nat \ {0}, NEW n \in Nat
    PROVE  j <= n * CellsPerCluster <=> Which(j) <= n
<1>1. Which(j) \in Nat \ {0} /\ Where(j) \in Cols /\ j = Nth(Which(j), Where(j))
    BY PlaceOfCell
<1> DEFINE a == Which(j) - 1
<1>2. a \in Nat /\ a * CellsPerCluster \in Nat /\ n * CellsPerCluster \in Nat
    BY <1>1, Times
<1>3. Where(j) \in Nat /\ Where(j) >= 1 /\ Where(j) <= CellsPerCluster /\ CellsPerCluster \in Nat
    BY <1>1, Geometry DEF Cols
<1>4. j = a * CellsPerCluster + Where(j)
    BY <1>1 DEF Nth
<1>5. Which(j) <= n <=> a < n
    BY <1>1
<1> HIDE DEF a
<1>6. a < n => a * CellsPerCluster + CellsPerCluster <= n * CellsPerCluster
    BY <1>2, Times
<1>7. ~(a < n) => n * CellsPerCluster <= a * CellsPerCluster
    BY <1>2, Times
<1> QED BY <1>2, <1>3, <1>4, <1>5, <1>6, <1>7

\* The rounding up of a size to clusters (Fat32.cpp's clustersNeeded).
LEMMA ClustersForIs ==
    ASSUME NEW n \in Nat, NEW m \in Nat
    PROVE  /\ ClustersFor(n) \in Nat
           /\ ClustersFor(n) <= m <=> n <= m * CellsPerCluster
<1> DEFINE x == n + CellsPerCluster - 1
<1>1. x \in Nat
    BY Geometry
<1>2. PICK q \in Nat, r \in 0 .. CellsPerCluster - 1 :
         x \div CellsPerCluster = q /\ x = q * CellsPerCluster + r
    <2> HIDE DEF x
    <2> QED BY <1>1, Divided
<1>3. ClustersFor(n) = q
    BY <1>2 DEF ClustersFor
<1>4. q * CellsPerCluster \in Nat /\ m * CellsPerCluster \in Nat
    BY <1>2, Times
<1>5. q <= m => q * CellsPerCluster <= m * CellsPerCluster
    BY <1>2, Times
<1>6. ~(q <= m) => m * CellsPerCluster + CellsPerCluster <= q * CellsPerCluster
    BY <1>2, Times
<1> QED BY <1>1, <1>2, <1>3, <1>4, <1>5, <1>6, Geometry

-----------------------------------------------------------------------------
(* Chains, of any allocation table.                                        *)

\* What readClusterChain does at each step of its walk.
WalkStep(f, first, w) ==
    [i \in 0 .. LastCluster |->
        IF i = 0 THEN IF first = 0 THEN <<>> ELSE <<first>>
        ELSE IF \/ w[i - 1] = <<>>
                \/ f[w[i - 1][Len(w[i - 1])]] \in {0, Eoc}
                \/ f[w[i - 1][Len(w[i - 1])]] \in ToSet(w[i - 1])
             THEN w[i - 1]
             ELSE Append(w[i - 1], f[w[i - 1][Len(w[i - 1])]])]
\* readClusterChain, of any table, and the clusters it finds.
ChainOf(f, first) ==
    LET next(s) == f[s[Len(s)]]
        walk[i \in 0 .. LastCluster] ==
            IF i = 0 THEN IF first = 0 THEN <<>> ELSE <<first>>
            ELSE LET s == walk[i - 1] IN
                 IF s = <<>> \/ next(s) \in {0, Eoc} \/ next(s) \in ToSet(s)
                 THEN s ELSE Append(s, next(s))
    IN  walk[LastCluster]
Own(f, first) == ToSet(ChainOf(f, first))

\* A list of clusters that the table links, to its end marker.
IsChain(f, first, s) ==
    /\ s \in Seq(Clusters) /\ s # <<>> /\ s[1] = first
    /\ \A i, j \in 1 .. Len(s) : s[i] = s[j] => i = j
    /\ \A i \in 1 .. Len(s) - 1 : f[s[i]] = s[i + 1]
    /\ f[s[Len(s)]] = Eoc
Whole(f, first) == IsChain(f, first, ChainOf(f, first))

\* The chain of the model is that of its present table.
LEMMA ChainIsOf == ASSUME NEW first PROVE Chain(first) = ChainOf(fat, first)
BY DEF Chain, ChainOf

\* A set of numbers has a least one: in place of an induction, as the inclusion
\* of finite sets is well founded.
LEMMA LeastNumber ==
    ASSUME NEW T, T \subseteq Nat, T # {}
    PROVE  \E x \in T : \A y \in T : x <= y
<1> DEFINE R == StrictSubsetOrdering(Nat)
           I == {1 .. n : n \in T}
<1>1. IsWellFoundedOn(R, FiniteSubsetsOf(Nat))
    BY FS_StrictSubsetOrderingWellFounded
<1>2. I \subseteq FiniteSubsetsOf(Nat) /\ I # {}
    <2>1. \A n \in T : IsFiniteSet(1 .. n) /\ 1 .. n \subseteq Nat
        BY FS_Interval
    <2> QED BY <2>1 DEF FiniteSubsetsOf
<1>3. PICK X \in I : \A Y \in I : ~(<<Y, X>> \in R)
    <2> HIDE DEF I, R
    <2> QED BY <1>1, <1>2, WFMin
<1>4. PICK x \in T : X = 1 .. x
    OBVIOUS
<1>5. ASSUME NEW y \in T, y < x PROVE FALSE
    <2>1. 1 .. y \subseteq 1 .. x /\ x \in 1 .. x /\ x \notin 1 .. y
        BY <1>5
    <2>2. <<1 .. y, X>> \in R
        BY <2>1, <1>4 DEF StrictSubsetOrdering
    <2> QED BY <1>3, <2>2
<1> QED BY <1>5

\* There is one walk: two would differ first at some step.
LEMMA WalkIs ==
    ASSUME NEW f, NEW first, NEW v, v = WalkStep(f, first, v)
    PROVE  ChainOf(f, first) = v[LastCluster]
<1> DEFINE walk == CHOOSE w : w = WalkStep(f, first, w)
           T == {m \in 0 .. LastCluster : walk[m] # v[m]}
<1>1. walk = WalkStep(f, first, walk) /\ ChainOf(f, first) = walk[LastCluster]
    <2>1. walk = WalkStep(f, first, walk)
        OBVIOUS
    <2>2. ChainOf(f, first) = walk[LastCluster]
        BY DEF ChainOf, WalkStep
    <2> QED BY <2>1, <2>2
<1> HIDE DEF walk
<1>2. SUFFICES ASSUME T # {} PROVE FALSE
    BY <1>1, Geometry
<1>3. T \subseteq Nat
    BY Geometry
<1>4. PICK m \in T : \A y \in T : m <= y
    <2> HIDE DEF T
    <2> QED BY <1>2, <1>3, LeastNumber
<1>5. m \in 0 .. LastCluster /\ (m = 0 \/ (m - 1 \in 0 .. LastCluster /\ m - 1 < m))
    BY Geometry, <1>4
<1>6. m = 0 \/ walk[m - 1] = v[m - 1]
    BY <1>4, <1>5
<1>7. WalkStep(f, first, walk)[m] = WalkStep(f, first, v)[m]
    BY <1>5, <1>6 DEF WalkStep
<1>8. walk[m] = v[m]
    BY <1>1, <1>7
<1> QED BY <1>4, <1>8

\* First cluster 0 has no chain.
LEMMA NoChain ==
    ASSUME NEW f
    PROVE  ChainOf(f, 0) = <<>> /\ Own(f, 0) = {}
<1> DEFINE v == [i \in 0 .. LastCluster |-> <<>>]
<1>1. v = WalkStep(f, 0, v)
    <2>1. ASSUME NEW i \in 0 .. LastCluster, i # 0 PROVE v[i - 1] = <<>>
        BY <2>1, Geometry
    <2> HIDE DEF v
    <2>2. \A i \in 0 .. LastCluster : WalkStep(f, 0, v)[i] = <<>>
        BY <2>1 DEF WalkStep
    <2>3. WalkStep(f, 0, v) = [i \in 0 .. LastCluster |-> WalkStep(f, 0, v)[i]]
        BY DEF WalkStep
    <2> QED BY <2>2, <2>3 DEF v
<1>2. v[LastCluster] = <<>>
    BY Geometry
<1>3. ChainOf(f, 0) = <<>>
    <2> HIDE DEF v
    <2> QED BY <1>1, <1>2, WalkIs
<1> QED BY <1>3 DEF Own, ToSet

\* A list of different clusters is not longer than the disk.
LEMMA ShortList ==
    ASSUME NEW s \in Seq(Clusters), \A i, j \in 1 .. Len(s) : s[i] = s[j] => i = j
    PROVE  Len(s) <= LastCluster
<1>1. s \in Injection(1 .. Len(s), Clusters)
    BY LenProperties DEF Injection, IsInjective
<1>2. /\ IsFiniteSet(Clusters)
      /\ Cardinality(Clusters) = LastCluster - 1
    BY Geometry, FS_Interval DEF Clusters
<1>3. Cardinality(1 .. Len(s)) <= Cardinality(Clusters)
    BY <1>1, <1>2, FS_Injection
<1>4. Len(s) \in Nat
    BY LenProperties
<1>5. Cardinality(1 .. Len(s)) = IF 1 > Len(s) THEN 0 ELSE Len(s) - 1 + 1
    BY <1>4, FS_Interval
<1> QED BY <1>2, <1>3, <1>4, <1>5, Geometry

\* The walk along a linked list is the list.
LEMMA ChainIs ==
    ASSUME NEW f, NEW first, NEW s, IsChain(f, first, s)
    PROVE  /\ ChainOf(f, first) = s /\ Whole(f, first)
           /\ Own(f, first) = {s[i] : i \in 1 .. Len(s)} /\ first \in Clusters
<1> DEFINE n == Len(s)
           Upto(i) == SubSeq(s, 1, i)
           top(i) == IF i < n THEN i + 1 ELSE n
           v == [i \in 0 .. LastCluster |-> Upto(top(i))]
<1>1. /\ s \in Seq(Clusters) /\ s # <<>> /\ s[1] = first
      /\ \A i, j \in 1 .. n : s[i] = s[j] => i = j
      /\ \A i \in 1 .. n - 1 : f[s[i]] = s[i + 1]
      /\ f[s[n]] = Eoc
    BY DEF IsChain
<1>2. n \in Nat /\ n >= 1 /\ \A i \in 1 .. n : s[i] \in Clusters
    <2>1. n \in Nat \ {0}
        BY <1>1, EmptySeq
    <2>2. s \in [1 .. n -> Clusters]
        BY <1>1, LenProperties
    <2> QED BY <2>1, <2>2
<1>3. n <= LastCluster
    BY <1>1, ShortList
<1>4. \A m \in 1 .. n : /\ Upto(m) \in Seq(Clusters) /\ Len(Upto(m)) = m
                        /\ \A i \in 1 .. m : Upto(m)[i] = s[i]
                        /\ Upto(m) # <<>>
                        /\ ToSet(Upto(m)) = {s[i] : i \in 1 .. m}
    <2>1. TAKE m \in 1 .. n
    <2>2. \A i \in 1 .. m : s[i] \in Clusters
        BY <1>2
    <2>3. /\ Upto(m) \in Seq(Clusters)
          /\ Len(Upto(m)) = IF 1 <= m THEN m - 1 + 1 ELSE 0
          /\ \A i \in 1 .. m - 1 + 1 : Upto(m)[i] = s[1 + i - 1]
        BY <2>1, <2>2, <1>2, SubSeqProperties
    <2> HIDE DEF Upto
    <2>4. Len(Upto(m)) = m /\ \A i \in 1 .. m : Upto(m)[i] = s[i]
        BY <1>2, <2>3
    <2>5. Upto(m) # <<>>
        BY <1>2, <2>3, <2>4, EmptySeq
    <2>6. DOMAIN Upto(m) = 1 .. m
        BY <2>3, <2>4, LenProperties
    <2> QED BY <2>3, <2>4, <2>5, <2>6 DEF ToSet
<1>5. \A i \in 0 .. LastCluster : v[i] = Upto(top(i)) /\ top(i) \in 1 .. n
    BY <1>2, Geometry
<1>6. v[0] = <<first>>
    <2>1. v[0] = Upto(1) /\ 1 \in 1 .. n
        BY <1>2, <1>3, <1>5, Geometry
    <2>2. Upto(1) \in Seq(Clusters) /\ Len(Upto(1)) = 1 /\ Upto(1)[1] = first
        BY <1>1, <1>4, <2>1
    <2>3. Upto(1) = <<first>>
        <3> HIDE DEF Upto
        <3> QED BY <2>2
    <2> QED BY <2>1, <2>3
<1>7. v = WalkStep(f, first, v)
    <2>1. ASSUME NEW i \in 0 .. LastCluster, i # 0 PROVE WalkStep(f, first, v)[i] = v[i]
        <3>1. i - 1 \in 0 .. LastCluster /\ i - 1 >= 0 /\ i \in Nat
            BY <2>1, Geometry
        <3> DEFINE m == top(i - 1)
        <3>2. m \in 1 .. n /\ v[i - 1] = Upto(m) /\ m = IF i <= n THEN i ELSE n
            BY <1>2, <1>5, <3>1
        <3>3. v[i - 1] # <<>> /\ v[i - 1][Len(v[i - 1])] = s[m] /\ ToSet(v[i - 1]) = {s[k] : k \in 1 .. m}
            <4> HIDE DEF v, m, Upto
            <4>1. Len(v[i - 1]) = m /\ m \in 1 .. m
                BY <1>2, <1>4, <3>2
            <4> QED BY <1>4, <3>2, <4>1
        <3>4. CASE i < n
            <4>1. m = i /\ i + 1 \in 1 .. n /\ i \in 1 .. n - 1 /\ v[i] = Upto(i + 1)
                BY <1>2, <1>5, <3>1, <3>2, <3>4
            <4>2. f[s[m]] = s[i + 1] /\ s[i + 1] \in Clusters
                BY <1>1, <1>2, <4>1
            <4>3. s[i + 1] \notin ToSet(v[i - 1])
                <5> HIDE DEF v, m
                <5> QED BY <1>1, <1>2, <3>3, <4>1
            <4>4. WalkStep(f, first, v)[i] = Append(v[i - 1], s[i + 1])
                <5> HIDE DEF v, m
                <5> QED BY <2>1, <3>3, <4>2, <4>3, Geometry DEF WalkStep
            <4>5. Append(Upto(i), s[i + 1]) = Upto(i + 1)
                <5>1. Upto(i) \in Seq(Clusters) /\ Len(Upto(i)) = i /\ \A k \in 1 .. i : Upto(i)[k] = s[k]
                    BY <1>4, <4>1
                <5>2. Upto(i + 1) \in Seq(Clusters) /\ Len(Upto(i + 1)) = i + 1
                      /\ \A k \in 1 .. i + 1 : Upto(i + 1)[k] = s[k]
                    BY <1>4, <4>1
                <5> HIDE DEF Upto
                <5>3. /\ Append(Upto(i), s[i + 1]) \in Seq(Clusters)
                      /\ Len(Append(Upto(i), s[i + 1])) = i + 1
                      /\ \A k \in 1 .. i : Append(Upto(i), s[i + 1])[k] = s[k]
                      /\ Append(Upto(i), s[i + 1])[i + 1] = s[i + 1]
                    BY <4>2, <5>1, AppendProperties
                <5>4. \A k \in 1 .. i + 1 : Append(Upto(i), s[i + 1])[k] = s[k]
                    BY <3>1, <5>3
                <5> QED BY <5>2, <5>3, <5>4, SeqEqual
            <4> HIDE DEF v, m
            <4> QED BY <3>2, <4>1, <4>4, <4>5
        <3>5. CASE ~(i < n)
            <4>1. m = n /\ v[i] = Upto(n)
                BY <1>2, <1>5, <3>1, <3>2, <3>5
            <4>2. WalkStep(f, first, v)[i] = v[i - 1]
                <5> HIDE DEF v, m
                <5> QED BY <1>1, <2>1, <3>3, <4>1 DEF WalkStep
            <4> HIDE DEF v, m
            <4> QED BY <3>2, <4>1, <4>2
        <3> QED BY <3>4, <3>5
    <2>2. WalkStep(f, first, v)[0] = v[0]
        <3>1. first # 0
            BY <1>1, <1>2, Geometry
        <3> HIDE DEF v
        <3> QED BY <1>6, <3>1, Geometry DEF WalkStep
    <2>3. \A i \in 0 .. LastCluster : v[i] = WalkStep(f, first, v)[i]
        BY <2>1, <2>2
    <2>4. v = [i \in 0 .. LastCluster |-> v[i]]
        OBVIOUS
    <2>5. WalkStep(f, first, v) = [i \in 0 .. LastCluster |-> WalkStep(f, first, v)[i]]
        <3> HIDE DEF v
        <3> QED BY DEF WalkStep
    <2> HIDE DEF v
    <2> QED BY <2>3, <2>4, <2>5
<1>8. ChainOf(f, first) = s
    <2>1. v[LastCluster] = Upto(n)
        BY <1>2, <1>3, <1>5, Geometry
    <2>2. Upto(n) = s
        BY <1>1, SubSeqFull
    <2> HIDE DEF v, Upto
    <2> QED BY <1>7, <2>1, <2>2, WalkIs
<1>9. Own(f, first) = {s[i] : i \in 1 .. n}
    BY <1>1, <1>8, LenProperties DEF Own, ToSet
<1> QED BY <1>1, <1>2, <1>8, <1>9 DEF Whole

\* What a whole chain is: its first and last cluster, its links, no cluster twice.
LEMMA WholeIs ==
    ASSUME NEW f, NEW a, Whole(f, a)
    PROVE  /\ a \in Clusters /\ a \in Own(f, a) /\ Own(f, a) \subseteq Clusters
           /\ ChainOf(f, a) \in Seq(Clusters) /\ ChainOf(f, a) # <<>>
           /\ Len(ChainOf(f, a)) \in Nat /\ Len(ChainOf(f, a)) >= 1
           /\ DOMAIN ChainOf(f, a) = 1 .. Len(ChainOf(f, a))
           /\ \A i \in 1 .. Len(ChainOf(f, a)) : ChainOf(f, a)[i] \in Own(f, a)
           /\ \A c \in Own(f, a) : \E i \in 1 .. Len(ChainOf(f, a)) : ChainOf(f, a)[i] = c
           /\ ChainOf(f, a)[1] = a /\ f[ChainOf(f, a)[Len(ChainOf(f, a))]] = Eoc
           /\ \A i, j \in 1 .. Len(ChainOf(f, a)) : ChainOf(f, a)[i] = ChainOf(f, a)[j] => i = j
           /\ \A i \in 1 .. Len(ChainOf(f, a)) - 1 : f[ChainOf(f, a)[i]] = ChainOf(f, a)[i + 1]
           /\ \A c \in Own(f, a) : f[c] # 0
<1> DEFINE s == ChainOf(f, a)
<1>1. IsChain(f, a, s)
    BY DEF Whole
<1>2. /\ s \in Seq(Clusters) /\ s # <<>> /\ s[1] = a
      /\ \A i, j \in 1 .. Len(s) : s[i] = s[j] => i = j
      /\ \A i \in 1 .. Len(s) - 1 : f[s[i]] = s[i + 1]
      /\ f[s[Len(s)]] = Eoc
    BY <1>1 DEF IsChain
<1>3. a \in Clusters /\ Own(f, a) = {s[i] : i \in 1 .. Len(s)}
    BY <1>1, ChainIs
<1> HIDE DEF s
<1>4. Len(s) \in Nat /\ Len(s) >= 1
    BY <1>2, EmptySeq
<1>5. s \in [1 .. Len(s) -> Clusters]
    BY <1>2, LenProperties
<1>6. ASSUME NEW i \in 1 .. Len(s) PROVE f[s[i]] # 0
    <2>1. i = Len(s) \/ (i \in 1 .. Len(s) - 1 /\ i + 1 \in 1 .. Len(s))
        BY <1>4
    <2>2. i + 1 \in 1 .. Len(s) => s[i + 1] \in Clusters
        BY <1>5
    <2> QED BY <1>2, <2>1, <2>2, Geometry
<1>7. a \in Own(f, a) /\ Own(f, a) \subseteq Clusters /\ \A c \in Own(f, a) : f[c] # 0
    BY <1>2, <1>3, <1>4, <1>5, <1>6
<1> QED BY <1>2, <1>3, <1>4, <1>5, <1>7 DEF s

\* A chain depends on the entries of its own clusters only.
LEMMA WholeFrame ==
    ASSUME NEW f, NEW g, NEW a, Whole(f, a), \A c \in Own(f, a) : g[c] = f[c]
    PROVE  Whole(g, a) /\ ChainOf(g, a) = ChainOf(f, a) /\ Own(g, a) = Own(f, a)
<1> DEFINE s == ChainOf(f, a)
<1>1. IsChain(f, a, s) /\ s \in Seq(Clusters) /\ s # <<>> /\ Len(s) \in Nat /\ Len(s) >= 1
      /\ \A i \in 1 .. Len(s) : s[i] \in Own(f, a)
    BY WholeIs DEF Whole
<1> HIDE DEF s
<1>2. \A i \in 1 .. Len(s) : g[s[i]] = f[s[i]]
    BY <1>1
<1>3. IsChain(g, a, s)
    <2>1. \A i \in 1 .. Len(s) - 1 : i \in 1 .. Len(s)
        BY <1>1
    <2> QED BY <1>1, <1>2, <2>1 DEF IsChain
<1>4. ChainOf(g, a) = s /\ Whole(g, a)
    BY <1>3, ChainIs
<1>5. Own(g, a) = Own(f, a)
    BY <1>4 DEF s, Own
<1> QED BY <1>4, <1>5 DEF s

\* A marked cluster that nothing follows is a chain by itself.
LEMMA WholeOne ==
    ASSUME NEW f, NEW a \in Clusters, f[a] = Eoc
    PROVE  Whole(f, a) /\ ChainOf(f, a) = <<a>> /\ Own(f, a) = {a}
<1> DEFINE s == <<a>>
<1>1. s \in Seq(Clusters) /\ Len(s) = 1 /\ s # <<>> /\ s[1] = a
    OBVIOUS
<1> HIDE DEF s
<1>2. IsChain(f, a, s)
    BY <1>1 DEF IsChain
<1>3. ChainOf(f, a) = s /\ Whole(f, a) /\ Own(f, a) = {s[i] : i \in 1 .. Len(s)}
    BY <1>2, ChainIs
<1>4. Own(f, a) = {a}
    BY <1>1, <1>3
<1> QED BY <1>3, <1>4 DEF s

\* A marked cluster is linked behind the last one.
LEMMA WholeLink ==
    ASSUME NEW f, NEW a, Whole(f, a), NEW new \in Clusters \ Own(f, a), f[new] = Eoc,
           NEW g, g[ChainOf(f, a)[Len(ChainOf(f, a))]] = new,
           \A c \in Clusters : c # ChainOf(f, a)[Len(ChainOf(f, a))] => g[c] = f[c]
    PROVE  /\ Whole(g, a) /\ ChainOf(g, a) = Append(ChainOf(f, a), new)
           /\ Own(g, a) = Own(f, a) \cup {new}
           /\ Len(ChainOf(g, a)) = Len(ChainOf(f, a)) + 1
           /\ \A i \in 1 .. Len(ChainOf(f, a)) : ChainOf(g, a)[i] = ChainOf(f, a)[i]
           /\ ChainOf(g, a)[Len(ChainOf(f, a)) + 1] = new
<1> DEFINE s == ChainOf(f, a)
           n == Len(s)
           t == Append(s, new)
<1>1. /\ s \in Seq(Clusters) /\ n \in Nat /\ n >= 1 /\ s[1] = a
      /\ \A i, j \in 1 .. n : s[i] = s[j] => i = j
      /\ \A i \in 1 .. n - 1 : f[s[i]] = s[i + 1]
      /\ \A i \in 1 .. n : s[i] \in Own(f, a) /\ s[i] \in Clusters
      /\ Own(f, a) = {s[i] : i \in 1 .. n}
    BY WholeIs
<1>2. /\ t \in Seq(Clusters) /\ t # <<>> /\ Len(t) = n + 1
      /\ \A i \in 1 .. n : t[i] = s[i]
      /\ t[n + 1] = new
    <2> HIDE DEF s
    <2> QED BY <1>1, AppendProperties
<1>3. g[s[n]] = new /\ \A c \in Clusters : c # s[n] => g[c] = f[c]
    OBVIOUS
<1> HIDE DEF s, n, t
<1>4. \A i \in 1 .. n : s[i] # new
    BY <1>1
<1>5. IsChain(g, a, t)
    <2>1. t[1] = a
        BY <1>1, <1>2
    <2>2. \A i, j \in 1 .. n + 1 : t[i] = t[j] => i = j
        <3>1. TAKE i, j \in 1 .. n + 1
        <3>2. i = n + 1 \/ i \in 1 .. n
            BY <1>1
        <3>3. j = n + 1 \/ j \in 1 .. n
            BY <1>1
        <3> QED BY <1>1, <1>2, <1>4, <3>2, <3>3
    <2>3. ASSUME NEW i \in 1 .. n PROVE g[t[i]] = t[i + 1]
        <3>1. CASE i = n
            <4>1. g[s[n]] = new
                BY <1>1, <1>3
            <4> QED BY <1>1, <1>2, <3>1, <4>1
        <3>2. CASE i # n
            <4>1. i \in 1 .. n - 1 /\ i + 1 \in 1 .. n /\ s[i] # s[n]
                BY <1>1, <3>2
            <4>2. g[s[i]] = f[s[i]]
                BY <1>1, <1>2, <1>3, <4>1
            <4> QED BY <1>1, <1>2, <4>1, <4>2
        <3> QED BY <3>1, <3>2
    <2>4. g[t[n + 1]] = Eoc
        <3>1. n \in 1 .. n
            BY <1>1
        <3> QED BY <1>1, <1>2, <1>3, <1>4, <3>1
    <2>5. (n + 1) - 1 = n
        BY <1>1
    <2> QED BY <1>2, <2>1, <2>2, <2>3, <2>4, <2>5 DEF IsChain
<1>6. ChainOf(g, a) = t /\ Whole(g, a) /\ Own(g, a) = {t[i] : i \in 1 .. Len(t)}
    BY <1>5, ChainIs
<1>7. Own(g, a) = Own(f, a) \cup {new}
    <2>1. \A i \in 1 .. n + 1 : i = n + 1 \/ i \in 1 .. n
        BY <1>1
    <2>2. \A i \in 1 .. n : i \in 1 .. n + 1
        BY <1>1
    <2>3. n + 1 \in 1 .. n + 1
        BY <1>1
    <2>4. Own(g, a) = {t[i] : i \in 1 .. n + 1}
        BY <1>2, <1>6
    <2>5. \A c : c \in Own(f, a) <=> \E i \in 1 .. n : c = s[i]
        BY <1>1
    <2>6. \A c : c \in Own(g, a) <=> \E i \in 1 .. n + 1 : c = t[i]
        BY <2>4
    <2>7. ASSUME NEW c \in Own(g, a) PROVE c \in Own(f, a) \cup {new}
        <3>1. PICK i \in 1 .. n + 1 : c = t[i]
            BY <2>6, <2>7
        <3> QED BY <1>2, <2>1, <2>5, <3>1
    <2>8. Own(f, a) \subseteq Own(g, a) /\ new \in Own(g, a)
        <3>1. ASSUME NEW c \in Own(f, a) PROVE c \in Own(g, a)
            <4>1. PICK i \in 1 .. n : c = s[i]
                BY <2>5, <3>1
            <4> QED BY <1>2, <2>2, <2>6, <4>1
        <3> QED BY <1>2, <2>3, <2>6, <3>1
    <2> QED BY <2>7, <2>8
<1> QED BY <1>2, <1>6, <1>7 DEF s, n, t

\* freeClusterChain: what is left of a chain whose first cluster is freed.
LEMMA WholeRest ==
    ASSUME NEW f, NEW a, Whole(f, a), f[a] # Eoc,
           NEW g, \A c \in Clusters : c # a => g[c] = f[c]
    PROVE  Whole(g, f[a]) /\ Own(g, f[a]) \subseteq Own(f, a)
<1> DEFINE s == ChainOf(f, a)
           n == Len(s)
           t == SubSeq(s, 2, n)
<1>1. /\ s \in Seq(Clusters) /\ n \in Nat /\ n >= 1 /\ s[1] = a
      /\ \A i, j \in 1 .. n : s[i] = s[j] => i = j
      /\ \A i \in 1 .. n - 1 : f[s[i]] = s[i + 1]
      /\ \A i \in 1 .. n : s[i] \in Own(f, a) /\ s[i] \in Clusters
      /\ f[s[n]] = Eoc
    BY WholeIs
<1> HIDE DEF s, n
<1>2. n >= 2 /\ f[a] = s[2]
    <2>1. n # 1
        BY <1>1
    <2>2. 1 \in 1 .. n - 1
        BY <1>1, <2>1
    <2> QED BY <1>1, <2>1, <2>2
<1>3. t \in Seq(Clusters) /\ Len(t) = n - 1 /\ \A i \in 1 .. n - 1 : t[i] = s[i + 1]
    <2>1. \A i \in 2 .. n : s[i] \in Clusters
        BY <1>1
    <2>2. /\ t \in Seq(Clusters)
          /\ Len(t) = IF 2 <= n THEN n - 2 + 1 ELSE 0
          /\ \A i \in 1 .. n - 2 + 1 : t[i] = s[2 + i - 1]
        BY <1>1, <2>1, SubSeqProperties
    <2> HIDE DEF t
    <2>3. n - 2 + 1 = n - 1 /\ \A i \in 1 .. n - 1 : 2 + i - 1 = i + 1
        BY <1>1
    <2> QED BY <1>2, <2>2, <2>3
<1> HIDE DEF t
<1>4. \A i \in 1 .. n : i # 1 => g[s[i]] = f[s[i]]
    <2>1. \A i \in 1 .. n : i # 1 => s[i] # a
        BY <1>1
    <2> QED BY <1>1, <2>1
<1>5. IsChain(g, f[a], t)
    <2>1. n - 1 \in 1 .. n - 1 /\ 1 \in 1 .. n - 1 /\ t # <<>> /\ (n - 1) + 1 = n
        BY <1>1, <1>2, <1>3, EmptySeq
    <2>2. \A i, j \in 1 .. n - 1 : i + 1 \in 1 .. n /\ j + 1 \in 1 .. n /\ (i + 1 = j + 1 => i = j)
        BY <1>1
    <2>3. \A i, j \in 1 .. n - 1 : t[i] = t[j] => i = j
        BY <1>1, <1>3, <2>2
    <2>4. ASSUME NEW i \in 1 .. (n - 1) - 1 PROVE g[t[i]] = t[i + 1]
        <3>1. i \in 1 .. n - 1 /\ i + 1 \in 1 .. n - 1 /\ i + 1 \in 1 .. n /\ i + 1 # 1
            BY <1>1, <2>4
        <3>2. g[s[i + 1]] = s[i + 2] /\ (i + 1) + 1 = i + 2
            BY <1>1, <1>4, <3>1
        <3> QED BY <1>3, <3>1, <3>2
    <2>5. g[t[n - 1]] = Eoc
        <3>1. n \in 1 .. n /\ n # 1
            BY <1>2, <1>1
        <3> QED BY <1>1, <1>3, <1>4, <2>1, <3>1
    <2>6. t[1] = f[a]
        BY <1>2, <1>3, <2>1
    <2> QED BY <1>3, <2>1, <2>3, <2>4, <2>5, <2>6 DEF IsChain
<1>6. Whole(g, f[a]) /\ Own(g, f[a]) = {t[i] : i \in 1 .. Len(t)}
    BY <1>5, ChainIs
<1>7. \A i \in 1 .. n - 1 : t[i] \in Own(f, a)
    <2>1. \A i \in 1 .. n - 1 : i + 1 \in 1 .. n
        BY <1>1
    <2> QED BY <1>1, <1>3, <2>1
<1> QED BY <1>3, <1>6, <1>7

-----------------------------------------------------------------------------
(* A sound disk, of any table and any clusters.                            *)

\* What a cell may be, and a disk.
SlotCell == [kind : {"file", "dir"}, name : Names, first : Nat, size : Nat]
CellSet ==
    {Zero, Deleted} \cup [kind : {"byte"}, value : Values]
        \cup [kind : {"lfn"}, name : Names, order : Nat]
        \cup [kind : {"dot"}, name : {".", ".."}, first : Nat] \cup SlotCell
Disk == [Clusters -> [Cols -> CellSet]]

\* A place is a cluster and a column.
Spots == Clusters \X Cols
Cell(d, x) == d[x[1]][x[2]]
IsEntry(cell) == cell.kind \in {"file", "dir"}
IsDir(cell) == cell.kind = "dir" /\ cell.first # 0
Blank(cell) == cell.first = 0 /\ cell.size = 0

\* What holds clusters: the root, which has no slot, and the entries, in the
\* clusters that the directories hold.
TheRoot == <<Root, 0>>
First(d, x) == IF x = TheRoot THEN Root ELSE Cell(d, x).first
Held(f, d, x) == Own(f, First(d, x))
Dirs(f, d) == {TheRoot} \cup {y \in Spots : y[1] \in Own(f, Root) /\ IsDir(Cell(d, y))}
Places(f, d) == {x \in Spots : \E y \in Dirs(f, d) : x[1] \in Held(f, d, y)}
EntryPlaces(f, d) == {x \in Places(f, d) : IsEntry(Cell(d, x))}
Holders(f, d) == {TheRoot} \cup EntryPlaces(f, d)

\* An entry is blank or has a whole chain that its size fits into; no two
\* holders share a cluster.
SlotOk(f, s) ==
    \/ Blank(s)
    \/ Whole(f, s.first) /\ s.size <= Len(ChainOf(f, s.first)) * CellsPerCluster
Sound(f, d) ==
    /\ Whole(f, Root)
    /\ \A x \in EntryPlaces(f, d) : SlotOk(f, Cell(d, x))
    /\ \A x, y \in Holders(f, d) : x # y => Held(f, d, x) \cap Held(f, d, y) = {}
Unowned(f, d, c) == c \in Clusters /\ \A x \in Holders(f, d) : c \notin Held(f, d, x)

\* A spot is a cluster and a column, and not the root.
LEMMA SpotIs ==
    ASSUME NEW x \in Spots
    PROVE  x[1] \in Clusters /\ x[2] \in Cols /\ x = <<x[1], x[2]>> /\ x # TheRoot
           /\ \A d : First(d, x) = Cell(d, x).first
<1>1. x[1] \in Clusters /\ x[2] \in Cols /\ x = <<x[1], x[2]>>
    BY DEF Spots
<1>2. x # TheRoot
    <2>1. 0 \notin Cols
        BY Geometry DEF Cols
    <2> QED BY <1>1, <2>1 DEF TheRoot
<1> QED BY <1>1, <1>2 DEF First

\* The root holds its chain and is a directory.
LEMMA RootIs ==
    ASSUME NEW f, NEW d
    PROVE  /\ First(d, TheRoot) = Root /\ Held(f, d, TheRoot) = Own(f, Root)
           /\ TheRoot \in Holders(f, d) /\ TheRoot \in Dirs(f, d) /\ TheRoot \notin Spots
BY SpotIs DEF First, Held, Holders, Dirs

\* How places, entries, directories and holders relate.
LEMMA PlaceIs ==
    ASSUME NEW f, NEW d, NEW x
    PROVE  /\ x \in Places(f, d) => x \in Spots /\ First(d, x) = Cell(d, x).first
                                    /\ Held(f, d, x) = Own(f, Cell(d, x).first)
           /\ x \in EntryPlaces(f, d) => x \in Places(f, d) /\ x \in Holders(f, d) /\ IsEntry(Cell(d, x))
           /\ x \in Dirs(f, d) => x = TheRoot \/ (x \in EntryPlaces(f, d) /\ IsDir(Cell(d, x)) /\ x[1] \in Own(f, Root))
           /\ x \in Dirs(f, d) => x \in Holders(f, d)
           /\ x \in Spots /\ x[1] \in Own(f, Root) => x \in Places(f, d)
           /\ x \in Holders(f, d) => x = TheRoot \/ x \in EntryPlaces(f, d)
<1>1. x \in Places(f, d) => x \in Spots /\ First(d, x) = Cell(d, x).first
                                    /\ Held(f, d, x) = Own(f, Cell(d, x).first)
    BY SpotIs DEF Places, Held
<1>2. x \in Spots /\ x[1] \in Own(f, Root) => x \in Places(f, d)
    BY RootIs DEF Places
<1>3. x \in Dirs(f, d) => x = TheRoot \/ (x \in Spots /\ x[1] \in Own(f, Root) /\ IsDir(Cell(d, x)))
    BY DEF Dirs
<1>4. IsDir(Cell(d, x)) => IsEntry(Cell(d, x))
    BY DEF IsDir, IsEntry
<1> QED BY <1>1, <1>2, <1>3, <1>4 DEF EntryPlaces, Holders

\* The writes that keep a disk sound: its places keep their slots or lose
\* them, become blank, or hold what they held; one of them, who, may hold one
\* more cluster, new, that was nobody's.
Writes(f, d, g, e, who, new) ==
    /\ Sound(f, d) /\ Whole(g, Root)
    /\ new = 0 \/ Unowned(f, d, new)
    /\ \A c \in Own(g, Root) : c \in Own(f, Root) \/ (c = new /\ who = TheRoot)
    /\ \A x \in Places(f, d) : IsEntry(Cell(e, x)) =>
          \/ Blank(Cell(e, x))
          \/ /\ Cell(e, x).kind = Cell(d, x).kind
             /\ SlotOk(g, Cell(e, x))
             /\ \A c \in Own(g, Cell(e, x).first) :
                   c \in Own(f, Cell(d, x).first) \/ (c = new /\ who = x)
    /\ new # 0 /\ (who = TheRoot \/ Cell(e, who).kind = "dir") =>
          \A i \in Cols : ~IsEntry(e[new][i])

\* Such a write keeps the disk sound, and makes nobody the owner of a cluster but new.
LEMMA Grows ==
    ASSUME NEW f, NEW d, NEW g, NEW e, NEW who, NEW new, Writes(f, d, g, e, who, new)
    PROVE  /\ Sound(g, e)
           /\ EntryPlaces(g, e) \subseteq Places(f, d)
           /\ \A c : Unowned(f, d, c) /\ c # new => Unowned(g, e, c)
<1> USE DEF Writes
<1>1. Whole(f, Root) /\ Own(f, 0) = {} /\ Own(g, 0) = {}
    BY NoChain DEF Sound
<1>2. 0 \notin Own(g, Root) /\ Own(f, Root) \subseteq Clusters
    BY <1>1, WholeIs, Geometry
<1>3. ASSUME NEW x \in Places(f, d), IsEntry(Cell(e, x))
      PROVE  /\ SlotOk(g, Cell(e, x))
             /\ \A c \in Own(g, Cell(e, x).first) :
                   c \in Own(f, Cell(d, x).first) \/ (c = new /\ new # 0 /\ who = x)
             /\ Own(g, Cell(e, x).first) # {} => Cell(e, x).kind = Cell(d, x).kind
             /\ 0 \notin Own(g, Cell(e, x).first)
    <2>1. SlotOk(g, Cell(e, x))
        BY <1>3 DEF SlotOk
    <2>2. CASE Blank(Cell(e, x))
        <3>1. Own(g, Cell(e, x).first) = {}
            BY <1>1, <2>2 DEF Blank
        <3> QED BY <2>1, <3>1
    <2>3. CASE ~Blank(Cell(e, x))
        <3>1. Whole(g, Cell(e, x).first)
            BY <2>1, <2>3 DEF SlotOk
        <3>2. 0 \notin Own(g, Cell(e, x).first)
            BY <3>1, WholeIs, Geometry
        <3> QED BY <1>3, <2>1, <2>3, <3>2
    <2> QED BY <2>2, <2>3
\* A new cluster of a directory is empty, so the places of the entries are old ones.
<1>4. ASSUME NEW y \in Dirs(g, e), y # TheRoot
      PROVE  y \in Places(f, d) /\ IsEntry(Cell(e, y)) /\ IsDir(Cell(e, y))
    <2>1. y \in Spots /\ y[1] \in Own(g, Root) /\ IsDir(Cell(e, y)) /\ IsEntry(Cell(e, y))
        BY <1>4 DEF Dirs, IsDir, IsEntry
    <2>2. y[1] \in Own(f, Root)
        <3>1. SUFFICES ASSUME y[1] = new, who = TheRoot PROVE FALSE
            BY <2>1
        <3>2. ~IsEntry(e[new][y[2]])
            BY <1>2, <2>1, <3>1, SpotIs
        <3> QED BY <2>1, <3>1, <3>2 DEF Cell
    <2> QED BY <2>1, <2>2, PlaceIs
<1>5. ASSUME NEW x \in EntryPlaces(g, e) PROVE x \in Places(f, d)
    <2>1. x \in Spots /\ IsEntry(Cell(e, x))
        BY PlaceIs
    <2>2. PICK y \in Dirs(g, e) : x[1] \in Held(g, e, y)
        BY PlaceIs DEF Places, EntryPlaces
    <2>3. ~(x[1] = new /\ new # 0 /\ (who = TheRoot \/ Cell(e, who).kind = "dir"))
        BY <2>1, SpotIs DEF Cell
    <2>4. CASE y = TheRoot
        <3>1. x[1] \in Own(g, Root)
            BY <2>2, <2>4, RootIs
        <3>2. x[1] \in Own(f, Root)
            BY <1>2, <2>3, <3>1
        <3> QED BY <2>1, <3>2, PlaceIs
    <2>5. CASE y # TheRoot
        <3>1. y \in Places(f, d) /\ IsEntry(Cell(e, y)) /\ IsDir(Cell(e, y)) /\ y \in Spots
            BY <1>4, <2>5, PlaceIs
        <3>2. x[1] \in Own(g, Cell(e, y).first)
            BY <2>2, <3>1, SpotIs DEF Held
        <3>3. Cell(d, y).kind = "dir"
            BY <1>3, <3>1, <3>2 DEF IsDir
        <3>4. x[1] \in Own(f, Cell(d, y).first)
            BY <1>3, <2>3, <3>1, <3>2 DEF IsDir
        <3>5. IsDir(Cell(d, y))
            BY <1>1, <3>3, <3>4 DEF IsDir
        <3>6. y[1] \in Own(g, Root)
            BY <2>5, PlaceIs
        <3>7. y[1] \in Own(f, Root)
            <4>1. SUFFICES ASSUME y[1] = new, who = TheRoot PROVE FALSE
                BY <3>6
            <4>2. ~IsEntry(e[new][y[2]])
                BY <1>2, <3>1, <3>6, <4>1, SpotIs
            <4> QED BY <3>1, <4>1, <4>2 DEF Cell
        <3>8. y \in Dirs(f, d) /\ x[1] \in Held(f, d, y)
            BY <3>1, <3>4, <3>5, <3>7, SpotIs DEF Dirs, Held
        <3> QED BY <2>1, <3>8 DEF Places
    <2> QED BY <2>4, <2>5
\* What a holder holds now it held before, or it is new and of who.
<1>6. ASSUME NEW x \in Holders(g, e), NEW c \in Held(g, e, x)
      PROVE  \/ x \in Holders(f, d) /\ c \in Held(f, d, x)
             \/ c = new /\ new # 0 /\ who = x
    <2>1. CASE x = TheRoot
        BY <1>2, <1>6, <2>1, RootIs
    <2>2. CASE x # TheRoot
        <3>1. x \in EntryPlaces(g, e)
            BY <2>2, PlaceIs
        <3>2. x \in Places(f, d) /\ IsEntry(Cell(e, x)) /\ x \in Spots
            BY <1>5, <3>1, PlaceIs
        <3>3. c \in Own(g, Cell(e, x).first)
            BY <1>6, <3>2, SpotIs DEF Held
        <3>4. Cell(e, x).kind = Cell(d, x).kind
            BY <1>3, <3>2, <3>3
        <3>5. x \in EntryPlaces(f, d)
            BY <3>2, <3>4 DEF EntryPlaces, IsEntry
        <3>6. c \in Own(f, Cell(d, x).first) \/ (c = new /\ new # 0 /\ who = x)
            BY <1>3, <3>2, <3>3
        <3> QED BY <3>2, <3>5, <3>6, PlaceIs
    <2> QED BY <2>1, <2>2
<1>7. \A x \in Holders(f, d) : new # 0 => new \notin Held(f, d, x)
    BY DEF Unowned
<1>8. \A x, y \in Holders(f, d) : x # y => Held(f, d, x) \cap Held(f, d, y) = {}
    BY DEF Sound
<1>9. ASSUME NEW x \in Holders(g, e), NEW y \in Holders(g, e), x # y,
             NEW c \in Held(g, e, x), c \in Held(g, e, y)
      PROVE  FALSE
    <2>1. \/ x \in Holders(f, d) /\ c \in Held(f, d, x)
          \/ c = new /\ new # 0 /\ who = x
        BY <1>6, <1>9
    <2>2. \/ y \in Holders(f, d) /\ c \in Held(f, d, y)
          \/ c = new /\ new # 0 /\ who = y
        BY <1>6, <1>9
    <2> QED BY <1>7, <1>8, <1>9, <2>1, <2>2
<1>10. \A x \in EntryPlaces(g, e) : SlotOk(g, Cell(e, x))
    BY <1>3, <1>5, PlaceIs
<1>11. Sound(g, e)
    BY <1>9, <1>10 DEF Sound
<1>12. ASSUME NEW c, Unowned(f, d, c), c # new PROVE Unowned(g, e, c)
    <2>1. \A x \in Holders(g, e) : c \notin Held(g, e, x)
        BY <1>6, <1>12 DEF Unowned
    <2> QED BY <1>12, <2>1 DEF Unowned
<1> QED BY <1>5, <1>11, <1>12

-----------------------------------------------------------------------------
(* The invariant: what a call at work has read, and what it may still do.  *)

\* The spot of an entry, and a write of it (flushEntry).
PlaceOf(f, e) == <<ChainOf(f, e.dir)[Which(e.off + 1)], Where(e.off + 1)>>
Put(d, x, cell) == [d EXCEPT ![x[1]] = [d[x[1]] EXCEPT ![x[2]] = cell]]

\* The disk as it will be seen when the call is done with what it has begun:
\* the slot that it takes away is no entry, and the cluster that it has linked
\* to a directory is empty.
Drops == {"unlink", "rmdir", "truncate"}
View(f, d, c) ==
    IF c.op \in Drops /\ c.at \in {"free", "slots", "store", "append", "more"}
    THEN Put(d, PlaceOf(f, c.ent), Deleted)
    ELSE IF c.at \in {"extend", "store"} /\ c.new # 0
         THEN [d EXCEPT ![c.new] = Zeros(CellsPerCluster)]
    ELSE d

\* Where a call is, or will be when it has a cluster or has freed a chain.
Stage(c) == IF c.at \in {"find", "mark", "free"} THEN c.next ELSE c.at
StagesOf(op) ==
    {"done", "failed"} \cup
    CASE op = "create" -> {"extend", "linkdir", "store"}
      [] op = "mkdir" -> {"extend", "linkdir", "store", "dots", "eoc", "flushdir"}
      [] op = "write" -> {"append", "more", "linkmore", "fill", "grow", "link", "put", "size"}
      [] op = "truncate" -> {"append", "more", "flush"}
      [] op \in {"unlink", "rmdir"} -> {"slots", "store"}
Ats == {"find", "mark", "free", "done", "failed", "extend", "linkdir", "store", "dots", "eoc",
        "flushdir", "append", "more", "linkmore", "fill", "grow", "link", "put", "size", "flush",
        "slots"}
\* The entry a call has in memory, and its record.
EntrySet ==
    [dir : Nat, off : Nat, kind : {"file", "dir"}, name : Names, first : Nat, size : Nat]
CallSet ==
    [op : {"create", "mkdir", "write", "truncate", "unlink", "rmdir"}, at : Ats, dir : Nat,
     path : Seq(Names), name : Names, ent : EntrySet, chain : Seq(Clusters), image : Seq(CellSet),
     new : Nat, last : Nat, next : Ats \cup {""}, left : Nat, value : Values \cup {0},
     off : Nat, size : Nat, k : Nat]

\* The directory of the call, and the slot of its entry, are there.
DirOk(f, v, c) == c.ent.dir = c.dir /\ \E y \in Dirs(f, v) : First(v, y) = c.dir
SlotInDir(f, c) == c.ent.off < Len(ChainOf(f, c.dir)) * CellsPerCluster

\* A new cluster is free until it is marked, and then nobody's; nor has a
\* chain that is freed an owner any more.
AllocInv(f, d, c) ==
    /\ c.at \in {"find", "mark"} => c.next \in {"linkdir", "dots", "linkmore", "link"}
    /\ c.at = "mark" => c.new \in Clusters /\ f[c.new] = 0
    /\ c.at \in {"linkdir", "dots", "eoc", "flushdir", "linkmore", "link"} =>
          f[c.new] = Eoc /\ Unowned(f, d, c.new)
    /\ c.at = "free" =>
          /\ c.op \in Drops
          /\ c.next = (IF c.op = "truncate" THEN "append" ELSE "slots")
          /\ Whole(f, c.last)
          /\ \A x \in Own(f, c.last) : Unowned(f, View(f, d, c), x)

\* The image of a directory has its entries at their places, and one that is blank.
Spot(c, j) == <<c.chain[Which(j)], Where(j)>>
ImageInv(f, v, c) ==
    /\ c.chain = ChainOf(f, c.dir)
    /\ \A j \in 1 .. Len(c.image) :
          IsEntry(c.image[j]) =>
              \/ Blank(c.image[j])
              \/ Which(j) <= Len(c.chain) /\ c.image[j] = Cell(v, Spot(c, j))
    /\ c.ent.off < Len(c.image)
    /\ c.op = "mkdir" => c.image[c.ent.off + 1].kind = "dir"
    /\ c.op \in {"unlink", "rmdir"} =>
          c.image[c.ent.off + 1] = Deleted /\ Len(c.image) = Len(c.chain) * CellsPerCluster

\* The image fits into the chain with one new cluster at most, its last.
FitInv(c) ==
    LET n == ClustersFor(Len(c.image)) IN
    /\ Stage(c) \in {"extend", "linkdir", "slots"} => c.k = 1
    /\ Stage(c) = "slots" => c.new = 0
    /\ Stage(c) = "linkdir" => n = Len(c.chain) + 1
    /\ c.at = "find" /\ c.next = "linkdir" => c.new = 0
    /\ c.at = "extend" => n <= Len(c.chain) + (IF c.new = 0 THEN 1 ELSE 0)
    /\ c.at = "store" => n <= Len(c.chain) /\ c.k \in 1 .. n
    /\ c.at \in {"extend", "store"} /\ c.new # 0 => n = Len(c.chain) /\ c.new = c.chain[n]

\* A call that creates: what it has in memory is what the directory has.
MakeInv(f, d, c) ==
    /\ Stage(c) \in {"extend", "linkdir", "store"} => ImageInv(f, View(f, d, c), c)
    /\ FitInv(c)
    /\ c.at = "store" /\ Which(c.ent.off + 1) < c.k =>
          Cell(d, Spot(c, c.ent.off + 1)) = c.image[c.ent.off + 1]
    /\ Stage(c) \in {"dots", "eoc", "flushdir"} =>
          SlotInDir(f, c) /\ Cell(d, PlaceOf(f, c.ent)).kind = "dir"
    /\ c.at \in {"eoc", "flushdir"} => \A i \in Cols : ~IsEntry(d[c.new][i])
    /\ c.at = "flushdir" => c.ent.first = c.new
    /\ c.op = "mkdir" => c.ent.kind = "dir" /\ c.ent.size = 0

\* The entry that a write has in memory is the one on the disk; the chain
\* holds the bytes that were written.
FileInv(f, d, c) ==
    /\ SlotInDir(f, c) /\ c.ent.kind = "file"
    /\ Cell(d, PlaceOf(f, c.ent)).kind = "file"
    /\ Cell(d, PlaceOf(f, c.ent)).first = c.ent.first
    /\ Cell(d, PlaceOf(f, c.ent)).size = c.ent.size
    /\ c.size # 0
\* How far a write has come: the clusters that it needs are in the chain.
SpanInv(f, c) ==
    /\ c.at = "append" => c.off = c.ent.size + c.left
    /\ Stage(c) \in {"more", "linkmore"} =>
          /\ c.off <= Len(ChainOf(f, c.ent.first)) * CellsPerCluster + c.left
          /\ c.last = (IF c.ent.first = 0 THEN 0
                       ELSE ChainOf(f, c.ent.first)[Len(ChainOf(f, c.ent.first))])
    /\ c.at = "fill" =>
          /\ ChainOf(f, c.ent.first) # <<>>
          /\ c.new = ChainOf(f, c.ent.first)[Len(ChainOf(f, c.ent.first))]
          /\ c.off + CellsPerCluster <= Len(ChainOf(f, c.ent.first)) * CellsPerCluster + c.left
    /\ Stage(c) \in {"grow", "link", "put", "size"} => c.chain = ChainOf(f, c.ent.first)
    /\ c.at = "put" =>
          ClustersFor(c.off + c.size) <= Len(c.chain) /\ c.k \in 1 .. ClustersFor(c.off + c.size)
    /\ c.at = "size" => c.off + c.size <= Len(c.chain) * CellsPerCluster
\* Both, of a write.
WriteInv(f, d, c) == FileInv(f, d, c) /\ SpanInv(f, c)

\* A call that takes an entry away.
DropInv(f, c) ==
    /\ SlotInDir(f, c)
    /\ c.op = "truncate" =>
          c.ent.kind = "file" /\ c.ent.first = 0 /\ c.ent.size = 0 /\ c.off = 0 /\ c.left = 0

\* A call at work: the disk is sound in its view.
CallInv(f, d, c) ==
    /\ Stage(c) \in StagesOf(c.op)
    /\ Sound(f, View(f, d, c))
    /\ c.at \notin {"done", "failed"} =>
          /\ DirOk(f, View(f, d, c), c) /\ AllocInv(f, d, c)
          /\ c.op # "write" => MakeInv(f, d, c)
          /\ c.op = "write" => WriteInv(f, d, c)
          /\ c.op \in Drops => DropInv(f, c)

\* The inductive invariant.
FatInv ==
    /\ fat \in Table /\ data \in Disk /\ call \in [Callers -> {Idle} \cup CallSet]
    /\ \A p \in Callers : call[p] # Idle => CallInv(fat, data, call[p])
    /\ Quiet => Sound(fat, data)

-----------------------------------------------------------------------------
(* Holders, and the writes that leave them alone.                          *)

\* What a holder has is a whole chain, or nothing.
LEMMA HolderIs ==
    ASSUME NEW f, NEW d, Sound(f, d), NEW x \in Holders(f, d)
    PROVE  /\ First(d, x) = 0 => Held(f, d, x) = {} /\ ChainOf(f, First(d, x)) = <<>>
           /\ First(d, x) # 0 => Whole(f, First(d, x)) /\ First(d, x) \in Held(f, d, x)
           /\ x \in Dirs(f, d) => Whole(f, First(d, x)) /\ First(d, x) # 0
<1>1. First(d, x) = 0 => Held(f, d, x) = {} /\ ChainOf(f, First(d, x)) = <<>>
    BY NoChain DEF Held
<1>2. Whole(f, Root) /\ Root # 0
    BY Geometry DEF Sound
<1>3. ASSUME First(d, x) # 0 PROVE Whole(f, First(d, x))
    <2>1. CASE x = TheRoot
        BY <1>2, <2>1, RootIs
    <2>2. CASE x # TheRoot
        <3>1. x \in EntryPlaces(f, d) /\ First(d, x) = Cell(d, x).first
            BY <2>2, PlaceIs
        <3>2. SlotOk(f, Cell(d, x))
            BY <3>1 DEF Sound
        <3> QED BY <1>3, <3>1, <3>2 DEF SlotOk, Blank
    <2> QED BY <2>1, <2>2
<1>4. x \in Dirs(f, d) => First(d, x) # 0
    <2>1. x = TheRoot => First(d, x) = Root
        BY RootIs
    <2>2. x \in Dirs(f, d) /\ x # TheRoot => IsDir(Cell(d, x)) /\ First(d, x) = Cell(d, x).first
        BY PlaceIs
    <2> QED BY <1>2, <2>1, <2>2 DEF IsDir
<1>5. First(d, x) # 0 => First(d, x) \in Held(f, d, x)
    BY <1>3, WholeIs DEF Held
<1> QED BY <1>1, <1>3, <1>4, <1>5

\* On a sound disk a cluster has one holder.
LEMMA HoldersApart ==
    ASSUME NEW f, NEW d, Sound(f, d), NEW x \in Holders(f, d), NEW y \in Holders(f, d),
           NEW c \in Held(f, d, x), c \in Held(f, d, y)
    PROVE  x = y
BY DEF Sound

\* A free cluster is nobody's.
LEMMA FreeUnowned ==
    ASSUME NEW f, NEW d, Sound(f, d), NEW c \in Clusters, f[c] = 0
    PROVE  Unowned(f, d, c)
<1>1. ASSUME NEW x \in Holders(f, d), c \in Held(f, d, x) PROVE FALSE
    <2>1. Whole(f, First(d, x))
        BY <1>1, HolderIs
    <2> QED BY <1>1, <2>1, WholeIs DEF Held
<1> QED BY <1>1 DEF Unowned

\* Entries of free and nobody's clusters may change, and cells outside the directories.
Leaves(f, d, g, e) ==
    /\ Sound(f, d)
    /\ \A x \in Holders(f, d) : \A c \in Held(f, d, x) : g[c] = f[c]
    /\ \A x \in Places(f, d) : Cell(e, x) = Cell(d, x)

\* What is sound stays sound, with the same directories, places and chains.
LEMMA Frame ==
    ASSUME NEW f, NEW d, NEW g, NEW e, Leaves(f, d, g, e)
    PROVE  /\ Sound(g, e)
           /\ Dirs(g, e) = Dirs(f, d) /\ Places(g, e) = Places(f, d)
           /\ EntryPlaces(g, e) = EntryPlaces(f, d) /\ Holders(g, e) = Holders(f, d)
           /\ \A x \in Holders(f, d) :
                 First(e, x) = First(d, x) /\ ChainOf(g, First(d, x)) = ChainOf(f, First(d, x))
           /\ \A c : Unowned(f, d, c) => Unowned(g, e, c)
<1> USE DEF Leaves
<1>1. ASSUME NEW x \in Holders(f, d)
      PROVE  /\ First(e, x) = First(d, x) /\ ChainOf(g, First(d, x)) = ChainOf(f, First(d, x))
             /\ Own(g, First(d, x)) = Own(f, First(d, x))
             /\ Whole(f, First(d, x)) => Whole(g, First(d, x))
    <2>1. First(e, x) = First(d, x)
        <3>1. x = TheRoot \/ x \in Places(f, d)
            BY PlaceIs
        <3> QED BY <3>1 DEF First
    <2>2. ASSUME Whole(f, First(d, x))
          PROVE  Whole(g, First(d, x)) /\ ChainOf(g, First(d, x)) = ChainOf(f, First(d, x))
        BY <2>2, WholeFrame DEF Held
    <2>3. First(d, x) = 0 => ChainOf(g, First(d, x)) = <<>> /\ ChainOf(f, First(d, x)) = <<>>
        BY NoChain
    <2>4. ChainOf(g, First(d, x)) = ChainOf(f, First(d, x))
        BY <2>2, <2>3, HolderIs
    <2> QED BY <2>1, <2>2, <2>4 DEF Own
<1>2. Whole(f, Root) /\ Whole(g, Root) /\ Own(g, Root) = Own(f, Root)
    BY <1>1, RootIs DEF Sound
<1>3. \A y \in Spots : y[1] \in Own(f, Root) => Cell(e, y) = Cell(d, y)
    BY PlaceIs
<1>4. Dirs(g, e) = Dirs(f, d)
    BY <1>2, <1>3 DEF Dirs
<1>5. \A y \in Dirs(f, d) : Held(g, e, y) = Held(f, d, y)
    BY <1>1, PlaceIs DEF Held
<1>6. Places(g, e) = Places(f, d)
    BY <1>4, <1>5 DEF Places
<1>7. EntryPlaces(g, e) = EntryPlaces(f, d) /\ Holders(g, e) = Holders(f, d)
    BY <1>6 DEF EntryPlaces, Holders
<1>8. \A x \in Holders(f, d) : Held(g, e, x) = Held(f, d, x)
    BY <1>1 DEF Held
<1>9. ASSUME NEW x \in EntryPlaces(f, d) PROVE SlotOk(g, Cell(e, x))
    <2>1. Cell(e, x) = Cell(d, x) /\ SlotOk(f, Cell(d, x)) /\ x \in Holders(f, d) /\ First(d, x) = Cell(d, x).first
        BY PlaceIs DEF Sound
    <2> QED BY <1>1, <2>1 DEF SlotOk
<1>10. Sound(g, e)
    BY <1>2, <1>7, <1>8, <1>9 DEF Sound
<1>11. \A c : Unowned(f, d, c) => Unowned(g, e, c)
    BY <1>7, <1>8 DEF Unowned
<1> QED BY <1>1, <1>4, <1>6, <1>7, <1>10, <1>11

\* A write of one slot changes that slot only.
LEMMA PutIs ==
    ASSUME NEW d \in Disk, NEW x \in Spots, NEW s \in CellSet
    PROVE  /\ Put(d, x, s) \in Disk /\ Cell(Put(d, x, s), x) = s
           /\ \A y \in Spots : y # x => Cell(Put(d, x, s), y) = Cell(d, y)
<1> DEFINE row == [d[x[1]] EXCEPT ![x[2]] = s]
<1>1. x[1] \in Clusters /\ x[2] \in Cols /\ x = <<x[1], x[2]>>
    BY SpotIs
<1>2. d[x[1]] \in [Cols -> CellSet]
    BY <1>1 DEF Disk
<1>3. row \in [Cols -> CellSet] /\ row[x[2]] = s /\ \A i \in Cols : i # x[2] => row[i] = d[x[1]][i]
    BY <1>1, <1>2
<1>4. Put(d, x, s) = [d EXCEPT ![x[1]] = row]
    BY DEF Put
<1> HIDE DEF row
<1>5. Put(d, x, s) \in Disk /\ Put(d, x, s)[x[1]] = row
      /\ \A c \in Clusters : c # x[1] => Put(d, x, s)[c] = d[c]
    BY <1>1, <1>3, <1>4 DEF Disk
<1>6. ASSUME NEW y \in Spots, y # x PROVE Cell(Put(d, x, s), y) = Cell(d, y)
    <2>1. y[1] \in Clusters /\ y[2] \in Cols /\ y = <<y[1], y[2]>>
        BY SpotIs
    <2>2. y[1] # x[1] \/ y[2] # x[2]
        BY <1>1, <1>6, <2>1
    <2> QED BY <1>3, <1>5, <2>1, <2>2 DEF Cell
<1> QED BY <1>3, <1>5, <1>6 DEF Cell

\* The slot of an open entry is a place of the disk.
LEMMA SlotPlace ==
    ASSUME NEW f, NEW d, Sound(f, d), NEW y \in Dirs(f, d), NEW off \in Nat,
           off < Len(ChainOf(f, First(d, y))) * CellsPerCluster
    PROVE  LET x == <<ChainOf(f, First(d, y))[Which(off + 1)], Where(off + 1)>>
           IN  /\ x \in Places(f, d) /\ x \in Spots /\ x[1] \in Held(f, d, y)
               /\ Which(off + 1) \in 1 .. Len(ChainOf(f, First(d, y)))
<1> DEFINE s == ChainOf(f, First(d, y))
           i == Which(off + 1)
           x == <<s[i], Where(off + 1)>>
<1>1. Whole(f, First(d, y))
    BY HolderIs, PlaceIs
<1>2. Len(s) \in Nat /\ \A j \in 1 .. Len(s) : s[j] \in Own(f, First(d, y)) /\ s[j] \in Clusters
    BY <1>1, WholeIs
<1>3. off + 1 \in Nat \ {0} /\ off + 1 <= Len(s) * CellsPerCluster
    <2>1. Len(s) * CellsPerCluster \in Nat
        BY <1>2, Times
    <2> HIDE DEF s
    <2> QED BY <2>1 DEF s
<1>4. i \in Nat \ {0} /\ Where(off + 1) \in Cols /\ i <= Len(s)
    <2> HIDE DEF s
    <2> QED BY <1>2, <1>3, PlaceOfCell, PlaceInChain
<1>5. i \in 1 .. Len(s)
    BY <1>2, <1>4
<1>6. s[i] \in Clusters /\ s[i] \in Held(f, d, y)
    BY <1>2, <1>5 DEF Held
<1>7. x \in Spots
    BY <1>4, <1>6 DEF Spots
<1>8. x \in Places(f, d)
    BY <1>6, <1>7 DEF Places
<1> QED BY <1>5, <1>6, <1>7, <1>8

\* A cell that is an entry is a slot.
LEMMA EntryIs ==
    ASSUME NEW d \in Disk, NEW x \in Spots, IsEntry(Cell(d, x))
    PROVE  Cell(d, x) \in SlotCell
<1>1. Cell(d, x) \in CellSet
    BY SpotIs DEF Disk, Cell
<1> QED BY <1>1 DEF CellSet, SlotCell, IsEntry, Zero, Deleted

\* flushEntry: the slot of an entry is written, with what the entry has or with
\* its first cluster.
LEMMA Flush ==
    ASSUME NEW f \in Table, NEW d \in Disk, Sound(f, d),
           NEW x \in Places(f, d), IsEntry(Cell(d, x)), NEW s \in SlotCell,
           s.kind = Cell(d, x).kind, SlotOk(f, s),
           \/ s.first = Cell(d, x).first
           \/ /\ Unowned(f, d, s.first) /\ f[s.first] = Eoc
              /\ s.kind = "dir" => \A i \in Cols : ~IsEntry(d[s.first][i])
    PROVE  /\ Put(d, x, s) \in Disk /\ Cell(Put(d, x, s), x) = s
           /\ Sound(f, Put(d, x, s))
           /\ \A y \in Spots : y # x => Cell(Put(d, x, s), y) = Cell(d, y)
           /\ x \in EntryPlaces(f, d)
           /\ s.first = Cell(d, x).first => \A c : Unowned(f, d, c) => Unowned(f, Put(d, x, s), c)
<1> DEFINE e == Put(d, x, s)
           new == IF s.first = Cell(d, x).first THEN 0 ELSE s.first
<1>1. x \in Spots /\ x \in EntryPlaces(f, d) /\ x # TheRoot /\ s \in CellSet
    BY PlaceIs, SpotIs DEF EntryPlaces, CellSet
<1>2. /\ e \in Disk /\ Cell(e, x) = s
      /\ \A y \in Spots : y # x => Cell(e, y) = Cell(d, y)
    BY <1>1, PutIs
<1>3. Whole(f, Root) /\ \A y \in EntryPlaces(f, d) : SlotOk(f, Cell(d, y))
    BY DEF Sound
<1>4. \/ new = 0 /\ s.first = Cell(d, x).first
      \/ (new # 0 /\ Unowned(f, d, new) /\ f[new] = Eoc /\ new = s.first /\ new \in Clusters)
    BY Geometry DEF Unowned
<1>5. new # 0 => Own(f, s.first) = {new}
    BY <1>4, WholeOne
<1>6. ASSUME new # 0, NEW i \in Cols, x = TheRoot \/ Cell(e, x).kind = "dir"
      PROVE  ~IsEntry(e[new][i])
    <2>1. new \in Clusters /\ new = s.first /\ s.kind = "dir"
        BY <1>1, <1>2, <1>4, <1>6
    <2>2. ~IsEntry(d[new][i])
        BY <1>6, <2>1
    <2>3. <<new, i>> \in Spots
        BY <1>6, <2>1 DEF Spots
    <2>4. <<new, i>> # x
        BY <1>1, <2>2 DEF EntryPlaces, Cell
    <2>5. Cell(e, <<new, i>>) = Cell(d, <<new, i>>)
        BY <1>2, <2>3, <2>4
    <2> QED BY <2>2, <2>5 DEF Cell
<1>7. ASSUME NEW y \in Places(f, d), IsEntry(Cell(e, y))
      PROVE  /\ Cell(e, y).kind = Cell(d, y).kind
             /\ SlotOk(f, Cell(e, y))
             /\ \A c \in Own(f, Cell(e, y).first) :
                   c \in Own(f, Cell(d, y).first) \/ (c = new /\ x = y)
    <2>1. CASE y = x
        BY <1>2, <1>4, <1>5, <2>1
    <2>2. CASE y # x
        <3>1. Cell(e, y) = Cell(d, y) /\ y \in EntryPlaces(f, d)
            BY <1>2, <1>7, <2>2, PlaceIs DEF EntryPlaces
        <3> QED BY <1>3, <3>1
    <2> QED BY <2>1, <2>2
<1> HIDE DEF e, new
<1>8. Sound(f, e) /\ \A c : Unowned(f, d, c) /\ c # new => Unowned(f, e, c)
    <2>1. new = 0 \/ Unowned(f, d, new)
        BY <1>4
    <2>2. new # 0 /\ (x = TheRoot \/ Cell(e, x).kind = "dir") => \A i \in Cols : ~IsEntry(e[new][i])
        BY <1>6
    <2>3. \A y \in Places(f, d) : IsEntry(Cell(e, y)) =>
              \/ Blank(Cell(e, y))
              \/ /\ Cell(e, y).kind = Cell(d, y).kind
                 /\ SlotOk(f, Cell(e, y))
                 /\ \A c \in Own(f, Cell(e, y).first) :
                       c \in Own(f, Cell(d, y).first) \/ (c = new /\ x = y)
        BY <1>7
    <2>4. Writes(f, d, f, e, x, new)
        BY <1>3, <2>1, <2>2, <2>3 DEF Writes
    <2> QED BY <2>4, Grows
<1>9. \A c : Unowned(f, d, c) => c # 0
    BY Geometry DEF Unowned
<1> QED BY <1>1, <1>2, <1>8, <1>9 DEF e, new

\* A cluster is linked to the chain of a holder.
LEMMA Link ==
    ASSUME NEW f \in Table, NEW d \in Disk, Sound(f, d), NEW who \in Holders(f, d), First(d, who) # 0,
           NEW new, Unowned(f, d, new), f[new] = Eoc,
           NEW e, \A x \in Places(f, d) : Cell(e, x) = Cell(d, x),
           who = TheRoot \/ Cell(d, who).kind = "dir" => \A i \in Cols : ~IsEntry(e[new][i]),
           NEW g, g[ChainOf(f, First(d, who))[Len(ChainOf(f, First(d, who)))]] = new,
           \A c \in Clusters : c # ChainOf(f, First(d, who))[Len(ChainOf(f, First(d, who)))] => g[c] = f[c]
    PROVE  /\ Sound(g, e)
           /\ ChainOf(g, First(d, who)) = Append(ChainOf(f, First(d, who)), new)
           /\ Len(ChainOf(g, First(d, who))) = Len(ChainOf(f, First(d, who))) + 1
           /\ \A i \in 1 .. Len(ChainOf(f, First(d, who))) :
                 ChainOf(g, First(d, who))[i] = ChainOf(f, First(d, who))[i]
           /\ ChainOf(g, First(d, who))[Len(ChainOf(f, First(d, who))) + 1] = new
           /\ \A x \in Holders(f, d) : x # who => ChainOf(g, First(d, x)) = ChainOf(f, First(d, x))
           /\ \A x \in Dirs(f, d) : x \in Dirs(g, e) /\ First(e, x) = First(d, x)
           /\ g[new] = Eoc
           /\ \A c : Unowned(f, d, c) /\ c # new => Unowned(g, e, c)
<1> DEFINE a == First(d, who)
           s == ChainOf(f, a)
           n == Len(s)
<1>1. Whole(f, a) /\ who \in Holders(f, d) /\ Own(f, a) = Held(f, d, who)
    BY HolderIs DEF Held
<1>2. new \in Clusters \ Own(f, a) /\ new # 0
    BY <1>1, Geometry DEF Unowned
<1>3. /\ Whole(g, a) /\ ChainOf(g, a) = Append(s, new) /\ Own(g, a) = Own(f, a) \cup {new}
      /\ Len(ChainOf(g, a)) = n + 1 /\ \A i \in 1 .. n : ChainOf(g, a)[i] = s[i]
      /\ ChainOf(g, a)[n + 1] = new
    <2>1. /\ g[ChainOf(f, a)[Len(ChainOf(f, a))]] = new
          /\ \A c \in Clusters : c # ChainOf(f, a)[Len(ChainOf(f, a))] => g[c] = f[c]
        OBVIOUS
    <2> HIDE DEF a
    <2> QED BY <1>1, <1>2, <2>1, WholeLink
<1>4. s[n] \in Clusters /\ s[n] \in Held(f, d, who) /\ n \in Nat /\ n >= 1
    <2>1. n \in Nat /\ n >= 1 /\ \A i \in 1 .. n : s[i] \in Own(f, a) /\ s[i] \in Clusters
        BY <1>1, WholeIs
    <2>2. n \in 1 .. n
        BY <2>1
    <2> HIDE DEF n, s
    <2> QED BY <1>1, <2>1, <2>2
<1>5. g[s[n]] = new /\ \A c \in Clusters : c # s[n] => g[c] = f[c]
    OBVIOUS
<1> HIDE DEF n, s, a
<1>6. g[new] = Eoc
    BY <1>1, <1>2, <1>4, <1>5
<1>7. ASSUME NEW x \in Holders(f, d), x # who
      PROVE  /\ ChainOf(g, First(d, x)) = ChainOf(f, First(d, x))
             /\ Own(g, First(d, x)) = Own(f, First(d, x))
             /\ Whole(f, First(d, x)) => Whole(g, First(d, x))
    <2>1. CASE First(d, x) = 0
        <3>1. Whole(f, 0) => FALSE
            BY WholeIs, Geometry
        <3> QED BY <2>1, <3>1, NoChain
    <2>2. CASE First(d, x) # 0
        <3>1. Whole(f, First(d, x)) /\ Own(f, First(d, x)) = Held(f, d, x)
            BY <2>2, HolderIs DEF Held
        <3>2. s[n] \notin Held(f, d, x)
            BY <1>4, <1>7, HoldersApart
        <3>3. \A c \in Own(f, First(d, x)) : g[c] = f[c]
            BY <1>5, <3>1, <3>2, WholeIs
        <3> DEFINE b == First(d, x)
        <3>4. Whole(f, b) /\ \A c \in Own(f, b) : g[c] = f[c]
            BY <3>1, <3>3
        <3> HIDE DEF b
        <3>5. Whole(g, b) /\ ChainOf(g, b) = ChainOf(f, b) /\ Own(g, b) = Own(f, b)
            BY <3>4, WholeFrame
        <3> QED BY <3>5 DEF b
    <2> QED BY <2>1, <2>2
<1>8. ASSUME NEW x \in Holders(f, d) PROVE First(e, x) = First(d, x)
    <2>1. x = TheRoot \/ x \in Places(f, d)
        BY PlaceIs
    <2> QED BY <2>1 DEF First
<1>9. Whole(f, Root) /\ First(d, TheRoot) = Root /\ TheRoot \in Holders(f, d)
    BY RootIs DEF Sound
<1>10. Whole(g, Root) /\ \A c \in Own(g, Root) : c \in Own(f, Root) \/ (c = new /\ who = TheRoot)
    <2>1. CASE who = TheRoot
        <3>1. a = Root
            BY <1>9, <2>1 DEF a
        <3> QED BY <1>3, <2>1, <3>1
    <2>2. CASE who # TheRoot
        BY <1>7, <1>9, <2>2
    <2> QED BY <2>1, <2>2
<1>11. ASSUME NEW x \in Places(f, d), IsEntry(Cell(e, x))
       PROVE  /\ Cell(e, x).kind = Cell(d, x).kind
              /\ SlotOk(g, Cell(e, x))
              /\ \A c \in Own(g, Cell(e, x).first) :
                    c \in Own(f, Cell(d, x).first) \/ (c = new /\ who = x)
    <2>1. Cell(e, x) = Cell(d, x) /\ x \in EntryPlaces(f, d) /\ x \in Holders(f, d)
          /\ First(d, x) = Cell(d, x).first /\ SlotOk(f, Cell(d, x))
        BY <1>11, PlaceIs DEF EntryPlaces, Sound
    <2>2. CASE x = who
        <3>1. a = Cell(d, x).first
            BY <2>1, <2>2 DEF a
        <3>2. CASE Blank(Cell(d, x))
            <4>1. a = 0
                BY <3>1, <3>2 DEF Blank
            <4> QED BY <4>1 DEF a
        <3>3. CASE Cell(d, x).size <= n * CellsPerCluster
            <4>1. Cell(d, x).size <= Len(ChainOf(g, a)) * CellsPerCluster
                <5>1. n * CellsPerCluster <= (n + 1) * CellsPerCluster
                      /\ n * CellsPerCluster \in Nat /\ (n + 1) * CellsPerCluster \in Nat
                    <6>1. n \in Nat /\ n + 1 \in Nat /\ n <= n + 1
                        BY <1>4
                    <6> QED BY <6>1, Times
                <5>2. Cell(d, x).size \in Nat
                    BY <2>1, PlaceIs, EntryIs DEF SlotCell
                <5> QED BY <1>3, <3>3, <5>1, <5>2
            <4>2. SlotOk(g, Cell(e, x))
                BY <1>3, <2>1, <3>1, <4>1 DEF SlotOk
            <4> QED BY <1>3, <2>1, <2>2, <3>1, <4>2
        <3> QED BY <2>1, <3>1, <3>2, <3>3 DEF SlotOk, n, s
    <2>3. CASE x # who
        <3>1. SlotOk(g, Cell(d, x))
            BY <1>7, <2>1, <2>3 DEF SlotOk
        <3> QED BY <1>7, <2>1, <2>3, <3>1
    <2> QED BY <2>2, <2>3
<1>12. ASSUME who = TheRoot \/ Cell(e, who).kind = "dir" PROVE \A i \in Cols : ~IsEntry(e[new][i])
    <2>1. who = TheRoot \/ Cell(e, who) = Cell(d, who)
        BY PlaceIs
    <2> QED BY <1>12, <2>1
<1>13. Sound(g, e) /\ \A c : Unowned(f, d, c) /\ c # new => Unowned(g, e, c)
    <2>1. \A x \in Places(f, d) : IsEntry(Cell(e, x)) =>
              \/ Blank(Cell(e, x))
              \/ /\ Cell(e, x).kind = Cell(d, x).kind
                 /\ SlotOk(g, Cell(e, x))
                 /\ \A c \in Own(g, Cell(e, x).first) :
                       c \in Own(f, Cell(d, x).first) \/ (c = new /\ who = x)
        BY <1>11
    <2>2. new # 0 /\ (who = TheRoot \/ Cell(e, who).kind = "dir") => \A i \in Cols : ~IsEntry(e[new][i])
        BY <1>12
    <2>3. Writes(f, d, g, e, who, new)
        BY <1>10, <2>1, <2>2 DEF Writes
    <2> QED BY <2>3, Grows
<1>14. ASSUME NEW x \in Dirs(f, d) PROVE x \in Dirs(g, e) /\ First(e, x) = First(d, x)
    <2>1. First(e, x) = First(d, x) /\ x \in Holders(f, d)
        BY <1>8, PlaceIs
    <2>2. CASE x = TheRoot
        BY <2>1, <2>2, RootIs
    <2>3. CASE x # TheRoot
        <3>1. x \in EntryPlaces(f, d) /\ IsDir(Cell(d, x)) /\ x[1] \in Own(f, Root) /\ x \in Spots
              /\ Cell(e, x) = Cell(d, x)
            BY <2>3, PlaceIs
        <3>2. Own(f, Root) \subseteq Own(g, Root)
            <4>1. CASE who = TheRoot
                <5>1. a = Root
                    BY <1>9, <4>1 DEF a
                <5> QED BY <1>3, <5>1
            <4>2. CASE who # TheRoot
                BY <1>7, <1>9, <4>2
            <4> QED BY <4>1, <4>2
        <3> QED BY <2>1, <3>1, <3>2 DEF Dirs
    <2> QED BY <2>2, <2>3
<1> QED BY <1>3, <1>5, <1>6, <1>7, <1>13, <1>14 DEF a, s, n

-----------------------------------------------------------------------------
(* The calls.                                                              *)

\* The types of a call.
LEMMA CallIs ==
    ASSUME NEW c \in CallSet
    PROVE  /\ c.op \in {"create", "mkdir", "write", "truncate", "unlink", "rmdir"}
           /\ c.at \in Ats /\ c.dir \in Nat /\ c.path \in Seq(Names) /\ c.name \in Names
           /\ c.ent \in EntrySet /\ c.ent.dir \in Nat /\ c.ent.off \in Nat
           /\ c.ent.kind \in {"file", "dir"} /\ c.ent.name \in Names
           /\ c.ent.first \in Nat /\ c.ent.size \in Nat
           /\ c.chain \in Seq(Clusters) /\ c.image \in Seq(CellSet)
           /\ c.new \in Nat /\ c.last \in Nat /\ c.next \in Ats \cup {""} /\ c.left \in Nat
           /\ c.value \in Values \cup {0} /\ c.off \in Nat /\ c.size \in Nat /\ c.k \in Nat
           /\ c # Idle
<1>1. c # Idle
    <2>1. c.op # "idle" /\ Idle.op = "idle"
        BY DEF CallSet, Idle
    <2> QED BY <2>1
<1> QED BY <1>1 DEF CallSet, EntrySet

\* The places of a call, one by one.
LEMMA AtsAre ==
    /\ "find" \in Ats /\ "mark" \in Ats /\ "free" \in Ats /\ "done" \in Ats /\ "failed" \in Ats
    /\ "extend" \in Ats /\ "linkdir" \in Ats /\ "store" \in Ats /\ "dots" \in Ats /\ "eoc" \in Ats
    /\ "flushdir" \in Ats /\ "append" \in Ats /\ "more" \in Ats /\ "linkmore" \in Ats /\ "fill" \in Ats
    /\ "grow" \in Ats /\ "link" \in Ats /\ "put" \in Ats /\ "size" \in Ats /\ "flush" \in Ats
    /\ "slots" \in Ats
BY DEF Ats

\* The directory of a call is one on the disk, and so is the slot it names.
LEMMA CallDir ==
    ASSUME NEW f, NEW v, NEW c \in CallSet, Sound(f, v), DirOk(f, v, c)
    PROVE  /\ Whole(f, c.dir) /\ c.dir # 0
           /\ \E y \in Dirs(f, v) : First(v, y) = c.dir /\ y \in Holders(f, v) /\ Held(f, v, y) = Own(f, c.dir)
           /\ SlotInDir(f, c) =>
                 /\ PlaceOf(f, c.ent) \in Places(f, v) /\ PlaceOf(f, c.ent) \in Spots
                 /\ PlaceOf(f, c.ent)[1] \in Own(f, c.dir)
                 /\ Which(c.ent.off + 1) \in 1 .. Len(ChainOf(f, c.dir))
<1>1. PICK y \in Dirs(f, v) : First(v, y) = c.dir
    BY DEF DirOk
<1>2. y \in Holders(f, v) /\ Whole(f, c.dir) /\ c.dir # 0 /\ Held(f, v, y) = Own(f, c.dir)
    BY <1>1, PlaceIs, HolderIs DEF Held
<1>3. c.ent.off \in Nat /\ c.ent.dir = c.dir
    BY CallIs DEF DirOk
<1>4. ASSUME SlotInDir(f, c)
      PROVE  /\ PlaceOf(f, c.ent) \in Places(f, v) /\ PlaceOf(f, c.ent) \in Spots
             /\ PlaceOf(f, c.ent)[1] \in Own(f, c.dir)
             /\ Which(c.ent.off + 1) \in 1 .. Len(ChainOf(f, c.dir))
    <2>1. c.ent.off < Len(ChainOf(f, First(v, y))) * CellsPerCluster
        BY <1>1, <1>4 DEF SlotInDir
    <2>2. PlaceOf(f, c.ent) = <<ChainOf(f, First(v, y))[Which(c.ent.off + 1)], Where(c.ent.off + 1)>>
        BY <1>1, <1>3 DEF PlaceOf
    <2> QED BY <1>1, <1>2, <1>3, <2>1, <2>2, SlotPlace
<1> QED BY <1>1, <1>2, <1>4

\* A step that changes nothing on the disk but what is nobody's.
LEMMA FindKept ==
    ASSUME NEW f, NEW d, NEW c \in CallSet, CallInv(f, d, c), c.at = "find",
           NEW n \in Clusters, f[n] = 0
    PROVE  LET c2 == [c EXCEPT !.new = n, !.at = "mark"]
           IN  c2 \in CallSet /\ CallInv(f, d, c2)
<1> DEFINE c2 == [c EXCEPT !.new = n, !.at = "mark"]
<1>1. /\ c2 \in CallSet /\ c2.at = "mark" /\ c2.new = n
      /\ c2.op = c.op /\ c2.dir = c.dir /\ c2.ent = c.ent /\ c2.chain = c.chain /\ c2.image = c.image
      /\ c2.last = c.last /\ c2.next = c.next /\ c2.left = c.left /\ c2.off = c.off
      /\ c2.size = c.size /\ c2.k = c.k
    BY Geometry, AtsAre DEF CallSet
<1> HIDE DEF c2
<1>2. View(f, d, c) = d /\ View(f, d, c2) = d
    BY <1>1 DEF View
<1>3. c.next \in {"linkdir", "dots", "linkmore", "link"} /\ Stage(c) = c.next /\ Stage(c2) = c.next
    BY <1>1 DEF CallInv, AllocInv, Stage
<1>4. DirOk(f, d, c2) /\ AllocInv(f, d, c2)
    BY <1>1, <1>2, <1>3 DEF CallInv, AllocInv, DirOk
<1>5. c.op # "write" => MakeInv(f, d, c2)
    BY <1>1, <1>2, <1>3 DEF CallInv, MakeInv, ImageInv, FitInv, SlotInDir, Spot
<1>6. c.op = "write" => WriteInv(f, d, c2)
    BY <1>1, <1>2, <1>3 DEF CallInv, WriteInv, FileInv, SpanInv, SlotInDir
<1>7. c.op \in Drops => DropInv(f, c2)
    BY <1>1 DEF CallInv, DropInv, SlotInDir
<1> QED BY <1>1, <1>2, <1>3, <1>4, <1>5, <1>6, <1>7 DEF CallInv, c2

\* SetNextCluster: one entry of the table changes.
Changes(f, g, c, n) == g \in Table /\ g[c] = n /\ \A x \in Clusters : x # c => g[x] = f[x]

\* setNextCluster changes one entry of the table.
LEMMA SetIs ==
    ASSUME NEW f \in Table, NEW c \in Clusters, NEW n \in Clusters \cup {0, Eoc}
    PROVE  Changes(f, [f EXCEPT ![c] = n], c, n)
BY DEF Changes, Table

\* Writing what is there changes nothing.
LEMMA SetSame ==
    ASSUME NEW f \in Table, NEW c \in Clusters
    PROVE  [f EXCEPT ![c] = f[c]] = f
BY DEF Table

\* An entry of the table that is nobody's may change under a call.
LEMMA TableFrame ==
    ASSUME NEW f, NEW v, NEW g, NEW n, NEW u, NEW c \in CallSet,
           Sound(f, v), DirOk(f, v, c), Unowned(f, v, u), Changes(f, g, u, n)
    PROVE  /\ Sound(g, v) /\ DirOk(g, v, c) /\ ChainOf(g, c.dir) = ChainOf(f, c.dir)
           /\ PlaceOf(g, c.ent) = PlaceOf(f, c.ent) /\ (SlotInDir(g, c) <=> SlotInDir(f, c))
           /\ \A x \in Holders(f, v) : ChainOf(g, First(v, x)) = ChainOf(f, First(v, x))
           /\ \A x : Unowned(f, v, x) => Unowned(g, v, x)
<1>1. ASSUME NEW x \in Holders(f, v), NEW y \in Held(f, v, x) PROVE g[y] = f[y]
    <2>1. Whole(f, First(v, x))
        BY <1>1, HolderIs
    <2>2. y \in Clusters /\ y # u
        BY <1>1, <2>1, WholeIs DEF Held, Unowned
    <2> QED BY <2>2 DEF Changes
<1>2. Leaves(f, v, g, v)
    BY <1>1 DEF Leaves
<1>3. /\ Sound(g, v) /\ Dirs(g, v) = Dirs(f, v)
      /\ \A x \in Holders(f, v) : ChainOf(g, First(v, x)) = ChainOf(f, First(v, x))
      /\ \A x : Unowned(f, v, x) => Unowned(g, v, x)
    BY <1>2, Frame
<1>4. DirOk(g, v, c) /\ c.ent.dir = c.dir
    BY <1>3 DEF DirOk
<1>5. PICK y \in Dirs(f, v) : First(v, y) = c.dir /\ y \in Holders(f, v)
    BY CallDir
<1>6. ChainOf(g, c.dir) = ChainOf(f, c.dir)
    BY <1>3, <1>5
<1>7. PlaceOf(g, c.ent) = PlaceOf(f, c.ent) /\ (SlotInDir(g, c) <=> SlotInDir(f, c))
    BY <1>4, <1>6 DEF PlaceOf, SlotInDir
<1> QED BY <1>3, <1>4, <1>6, <1>7

\* The marked cluster, and a freed one, change no chain of a holder.
LEMMA MarkKept ==
    ASSUME NEW f \in Table, NEW d, NEW c \in CallSet, CallInv(f, d, c), c.at = "mark",
           NEW g, Changes(f, g, c.new, Eoc)
    PROVE  LET c2 == [c EXCEPT !.at = c.next]
           IN  c2 \in CallSet /\ CallInv(g, d, c2)
<1> DEFINE c2 == [c EXCEPT !.at = c.next]
<1>1. /\ c.next \in {"linkdir", "dots", "linkmore", "link"} /\ c.new \in Clusters /\ f[c.new] = 0
      /\ Stage(c) = c.next /\ Stage(c) \in StagesOf(c.op)
    BY DEF CallInv, AllocInv, Stage
<1>2. /\ c2 \in CallSet /\ c2.at = c.next /\ c2.new = c.new
      /\ c2.op = c.op /\ c2.dir = c.dir /\ c2.ent = c.ent /\ c2.chain = c.chain /\ c2.image = c.image
      /\ c2.last = c.last /\ c2.next = c.next /\ c2.left = c.left /\ c2.off = c.off
      /\ c2.size = c.size /\ c2.k = c.k
    BY <1>1, AtsAre DEF CallSet
<1> HIDE DEF c2
<1>3. g \in Table /\ g[c.new] = Eoc /\ \A x \in Clusters : x # c.new => g[x] = f[x]
    BY <1>1 DEF Changes
<1>4. View(f, d, c) = d /\ View(g, d, c2) = d /\ Stage(c2) = c.next
    BY <1>1, <1>2 DEF View, Stage
<1>5. Sound(f, d) /\ Unowned(f, d, c.new) /\ DirOk(f, d, c) /\ c.at \notin {"done", "failed"}
    BY <1>1, <1>4, FreeUnowned DEF CallInv
<1>6. /\ Sound(g, d) /\ DirOk(g, d, c) /\ ChainOf(g, c.dir) = ChainOf(f, c.dir)
      /\ PlaceOf(g, c.ent) = PlaceOf(f, c.ent) /\ (SlotInDir(g, c) <=> SlotInDir(f, c))
      /\ \A x \in Holders(f, d) : ChainOf(g, First(d, x)) = ChainOf(f, First(d, x))
      /\ Unowned(g, d, c.new)
    BY <1>5, TableFrame
<1>7. DirOk(g, d, c2) /\ PlaceOf(g, c2.ent) = PlaceOf(f, c.ent) /\ (SlotInDir(g, c2) <=> SlotInDir(f, c))
    BY <1>2, <1>6 DEF DirOk, PlaceOf, SlotInDir
<1>11. AllocInv(g, d, c2)
    BY <1>1, <1>2, <1>3, <1>6 DEF AllocInv
<1>12. c.op # "write" => MakeInv(g, d, c2)
    <2>1. c.op # "write" => MakeInv(f, d, c)
        BY <1>5 DEF CallInv
    <2>2. c.op # "write" /\ c.next = "linkdir" => ImageInv(f, d, c)
        BY <1>1, <1>4, <2>1 DEF MakeInv
    <2>3. c.op # "write" /\ c.next = "linkdir" => ImageInv(g, d, c2)
        BY <1>2, <1>6, <2>2 DEF ImageInv, Spot
    <2>4. c.op # "write" => FitInv(c2)
        BY <1>1, <1>2, <1>4, <2>1 DEF MakeInv, FitInv
    <2> QED BY <1>1, <1>2, <1>4, <1>7, <2>1, <2>3, <2>4 DEF MakeInv
<1>13. ASSUME c.op = "write" PROVE WriteInv(g, d, c2)
    <2>1. WriteInv(f, d, c)
        BY <1>5, <1>13 DEF CallInv
    <2> DEFINE x == PlaceOf(f, c.ent)
    <2>2. x \in Places(f, d) /\ Cell(d, x).kind = "file" /\ Cell(d, x).first = c.ent.first
        BY <1>5, <2>1, CallDir DEF WriteInv, FileInv
    <2>3. x \in Holders(f, d) /\ First(d, x) = c.ent.first
        BY <2>2, PlaceIs DEF EntryPlaces, Holders, IsEntry
    <2>4. ChainOf(g, c.ent.first) = ChainOf(f, c.ent.first)
        BY <1>6, <2>3
    <2> QED BY <1>1, <1>2, <1>4, <1>7, <2>1, <2>4 DEF WriteInv, FileInv, SpanInv
<1>14. c.op \in Drops => DropInv(g, c2)
    BY <1>2, <1>5, <1>7 DEF CallInv, DropInv
<1> QED BY <1>1, <1>2, <1>4, <1>6, <1>7, <1>11, <1>12, <1>13, <1>14 DEF CallInv, c2

\* freeClusterChain: one more cluster of a chain that nobody owns is freed.
LEMMA FreeKept ==
    ASSUME NEW f \in Table, NEW d, NEW c \in CallSet, CallInv(f, d, c), c.at = "free",
           NEW g, Changes(f, g, c.last, 0)
    PROVE  LET c2 == IF f[c.last] \in {0, Eoc} THEN [c EXCEPT !.at = c.next]
                     ELSE [c EXCEPT !.last = f[c.last]]
           IN  c2 \in CallSet /\ CallInv(g, d, c2)
<1> DEFINE v == View(f, d, c)
           c2 == IF f[c.last] \in {0, Eoc} THEN [c EXCEPT !.at = c.next]
                 ELSE [c EXCEPT !.last = f[c.last]]
<1>1. /\ c.op \in Drops /\ c.next = (IF c.op = "truncate" THEN "append" ELSE "slots")
      /\ Stage(c) = c.next /\ Stage(c) \in StagesOf(c.op)
      /\ Whole(f, c.last) /\ \A x \in Own(f, c.last) : Unowned(f, v, x)
      /\ Sound(f, v) /\ DirOk(f, v, c) /\ MakeInv(f, d, c) /\ DropInv(f, c)
    BY DEF CallInv, AllocInv, Stage, Drops
<1>2. c.last \in Clusters /\ Unowned(f, v, c.last) /\ f[c.last] # 0 /\ f[c.last] \in Clusters \cup {Eoc}
    <2>1. Whole(f, c.last)
        BY <1>1
    <2>2. c.last \in Own(f, c.last) /\ c.last \in Clusters
        BY <2>1, WholeIs
    <2>3. f[c.last] # 0
        BY <2>1, <2>2, WholeIs
    <2> QED BY <1>1, <2>2, <2>3 DEF Table
<1>3. /\ c2 \in CallSet /\ c2.at = (IF f[c.last] = Eoc THEN c.next ELSE "free")
      /\ c2.last = (IF f[c.last] = Eoc THEN c.last ELSE f[c.last])
      /\ c2.op = c.op /\ c2.dir = c.dir /\ c2.ent = c.ent /\ c2.chain = c.chain /\ c2.image = c.image
      /\ c2.new = c.new /\ c2.next = c.next /\ c2.left = c.left /\ c2.off = c.off
      /\ c2.size = c.size /\ c2.k = c.k
    <2>1. CASE f[c.last] = Eoc
        BY <1>1, <2>1, AtsAre DEF CallSet
    <2>2. CASE f[c.last] # Eoc
        <3>1. f[c.last] \in Nat /\ f[c.last] \notin {0, Eoc}
            BY <1>2, <2>2, Geometry
        <3> QED BY <2>2, <3>1, AtsAre DEF CallSet
    <2> QED BY <2>1, <2>2
<1> HIDE DEF c2
<1>4. /\ Sound(g, v) /\ DirOk(g, v, c) /\ ChainOf(g, c.dir) = ChainOf(f, c.dir)
      /\ PlaceOf(g, c.ent) = PlaceOf(f, c.ent) /\ (SlotInDir(g, c) <=> SlotInDir(f, c))
      /\ \A x : Unowned(f, v, x) => Unowned(g, v, x)
    <2> HIDE DEF v
    <2>1. Sound(f, v) /\ DirOk(f, v, c) /\ Unowned(f, v, c.last) /\ Changes(f, g, c.last, 0)
        BY <1>1, <1>2
    <2> QED BY <2>1, TableFrame
<1>5. View(g, d, c2) = v /\ Stage(c2) = Stage(c)
    <2>1. v = Put(d, PlaceOf(f, c.ent), Deleted)
        BY <1>1 DEF View
    <2>2. View(g, d, c2) = Put(d, PlaceOf(g, c.ent), Deleted)
        BY <1>1, <1>3 DEF View
    <2>3. Stage(c2) = c.next
        BY <1>1, <1>3 DEF Stage
    <2> QED BY <1>1, <1>4, <2>1, <2>2, <2>3
<1> HIDE DEF v
<1>6. DirOk(g, v, c2) /\ (SlotInDir(g, c2) <=> SlotInDir(f, c))
    BY <1>3, <1>4 DEF DirOk, SlotInDir
<1>7. AllocInv(g, d, c2)
    <2>1. CASE f[c.last] = Eoc
        BY <1>1, <1>3, <2>1 DEF AllocInv
    <2>2. CASE f[c.last] # Eoc
        <3>1. Whole(g, f[c.last]) /\ Own(g, f[c.last]) \subseteq Own(f, c.last)
            BY <1>1, <2>2, WholeRest DEF Changes
        <3>2. \A x \in Own(g, f[c.last]) : Unowned(g, v, x)
            BY <1>1, <1>4, <3>1
        <3> QED BY <1>1, <1>3, <1>5, <2>2, <3>1, <3>2 DEF AllocInv
    <2> QED BY <2>1, <2>2
<1>8. MakeInv(g, d, c2)
    <2>1. c2.op # "mkdir"
        BY <1>1, <1>3 DEF Drops
    <2>2. FitInv(c2)
        <3>1. FitInv(c)
            BY <1>1 DEF MakeInv
        <3> QED BY <1>1, <1>3, <1>5, <3>1 DEF FitInv
    <2> QED BY <1>1, <1>3, <1>5, <2>1, <2>2 DEF MakeInv
<1>9. DropInv(g, c2)
    BY <1>1, <1>3, <1>6 DEF DropInv
<1> QED BY <1>1, <1>3, <1>4, <1>5, <1>6, <1>7, <1>8, <1>9 DEF CallInv, Drops, c2

\* WriteCluster: one cluster changes; if it is no place, no holder does.
Rewrites(d, e, u) == e \in Disk /\ \A x \in Clusters : x # u => e[x] = d[x]

\* A write of a cluster as the change of one row.
LEMMA RowIs ==
    ASSUME NEW d \in Disk, NEW u \in Clusters, NEW row \in [Cols -> CellSet]
    PROVE  Rewrites(d, [d EXCEPT ![u] = row], u) /\ [d EXCEPT ![u] = row][u] = row
BY DEF Disk, Rewrites

\* A cluster that is no place may be written under a call.
LEMMA RowFrame ==
    ASSUME NEW f, NEW d, NEW e, NEW u, NEW c \in CallSet, Rewrites(d, e, u),
           Sound(f, d), DirOk(f, d, c), \A x \in Places(f, d) : x[1] # u
    PROVE  /\ \A x \in Places(f, d) : Cell(e, x) = Cell(d, x)
           /\ Sound(f, e) /\ DirOk(f, e, c)
           /\ \A x : Unowned(f, d, x) => Unowned(f, e, x)
<1>1. e \in Disk /\ \A x \in Clusters : x # u => e[x] = d[x]
    BY DEF Rewrites
<1>2. \A x \in Places(f, d) : Cell(e, x) = Cell(d, x)
    BY <1>1, PlaceIs, SpotIs DEF Cell
<1>3. Leaves(f, d, f, e)
    BY <1>2 DEF Leaves
<1>4. /\ Sound(f, e) /\ Dirs(f, e) = Dirs(f, d)
      /\ \A x \in Holders(f, d) : First(e, x) = First(d, x)
      /\ \A x : Unowned(f, d, x) => Unowned(f, e, x)
    BY <1>3, Frame
<1>5. DirOk(f, e, c)
    BY <1>4, PlaceIs DEF DirOk
<1> QED BY <1>2, <1>4, <1>5

\* An unowned cluster is no place.
LEMMA NoPlace ==
    ASSUME NEW f, NEW d, NEW u, Unowned(f, d, u), NEW x \in Places(f, d)
    PROVE  x[1] # u
<1>1. PICK y \in Dirs(f, d) : x[1] \in Held(f, d, y)
    BY DEF Places
<1> QED BY <1>1, PlaceIs DEF Unowned

\* What an entry with a chain of its own, which is no directory, holds is no place.
LEMMA FileNoPlace ==
    ASSUME NEW f, NEW d, Sound(f, d), NEW x \in EntryPlaces(f, d), Cell(d, x).kind = "file",
           NEW z \in Places(f, d)
    PROVE  z[1] \notin Own(f, Cell(d, x).first)
<1>1. PICK y \in Dirs(f, d) : z[1] \in Held(f, d, y)
    BY DEF Places
<1>2. x # y /\ x \in Holders(f, d) /\ y \in Holders(f, d) /\ Held(f, d, x) = Own(f, Cell(d, x).first)
    BY PlaceIs, SpotIs DEF IsDir
<1> QED BY <1>1, <1>2, HoldersApart

-----------------------------------------------------------------------------
(* createFile and createDirectory.                                         *)

\* writeFile for a directory: the image needs one more cluster.
LEMMA ExtendMore ==
    ASSUME NEW f \in Table, NEW d \in Disk, NEW c \in CallSet, CallInv(f, d, c), c.at = "extend",
           Len(c.chain) < ClustersFor(Len(c.image))
    PROVE  LET c2 == Allocate(c, "linkdir")
           IN  c2 \in CallSet /\ CallInv(f, d, c2)
<1> DEFINE c2 == Allocate(c, "linkdir")
<1>1. /\ c2 \in CallSet /\ c2.at = "find" /\ c2.next = "linkdir" /\ c2.new = c.new
      /\ c2.op = c.op /\ c2.dir = c.dir /\ c2.ent = c.ent /\ c2.chain = c.chain /\ c2.image = c.image
      /\ c2.last = c.last /\ c2.left = c.left /\ c2.off = c.off /\ c2.size = c.size /\ c2.k = c.k
    BY AtsAre DEF CallSet, Allocate
<1> HIDE DEF c2
<1>2. Stage(c) = "extend" /\ Stage(c2) = "linkdir" /\ c.op \in {"create", "mkdir"} /\ c.op \notin Drops
    BY <1>1, CallIs DEF CallInv, Stage, StagesOf, Drops
<1>3. MakeInv(f, d, c) /\ DirOk(f, View(f, d, c), c) /\ Sound(f, View(f, d, c))
    BY <1>2 DEF CallInv
<1>4. Len(c.chain) \in Nat /\ ClustersFor(Len(c.image)) \in Nat /\ c.chain \in Seq(Clusters)
    BY CallIs, LenProperties, ClustersForIs
<1>5. c.new = 0 /\ ClustersFor(Len(c.image)) = Len(c.chain) + 1 /\ c.k = 1
    <2>1. FitInv(c)
        BY <1>3 DEF MakeInv
    <2>2. c.new # 0 => ClustersFor(Len(c.image)) = Len(c.chain)
        BY <2>1 DEF FitInv
    <2>3. c.new = 0 /\ c.k = 1
        BY <1>2, <1>4, <2>1, <2>2 DEF FitInv
    <2>4. ClustersFor(Len(c.image)) <= Len(c.chain) + 1
        BY <2>1, <2>3 DEF FitInv
    <2> QED BY <1>4, <2>3, <2>4
<1>6. View(f, d, c) = d /\ View(f, d, c2) = d
    BY <1>1, <1>2, <1>5 DEF View
<1>7. MakeInv(f, d, c2)
    <2>1. ImageInv(f, d, c)
        BY <1>2, <1>3, <1>6 DEF MakeInv
    <2>2. ImageInv(f, d, c2)
        BY <1>1, <2>1 DEF ImageInv, Spot
    <2>3. FitInv(c2)
        BY <1>1, <1>2, <1>5 DEF FitInv
    <2> QED BY <1>1, <1>2, <1>3, <1>6, <2>2, <2>3 DEF MakeInv
<1>8. DirOk(f, d, c2) /\ AllocInv(f, d, c2)
    BY <1>1, <1>3, <1>6 DEF DirOk, AllocInv
<1> QED BY <1>1, <1>2, <1>3, <1>6, <1>7, <1>8 DEF CallInv, StagesOf, c2

\* writeFile for a directory: the chain is long enough.
LEMMA ExtendEnds ==
    ASSUME NEW f \in Table, NEW d \in Disk, NEW c \in CallSet, CallInv(f, d, c), c.at = "extend",
           ~(Len(c.chain) < ClustersFor(Len(c.image)))
    PROVE  LET c2 == [c EXCEPT !.at = "store"]
           IN  /\ c2 \in CallSet /\ CallInv(f, d, c2)
               /\ c.chain[Len(c.chain)] \in Clusters /\ f[c.chain[Len(c.chain)]] = Eoc
<1> DEFINE c2 == [c EXCEPT !.at = "store"]
<1>1. /\ c2 \in CallSet /\ c2.at = "store" /\ c2.next = c.next /\ c2.new = c.new
      /\ c2.op = c.op /\ c2.dir = c.dir /\ c2.ent = c.ent /\ c2.chain = c.chain /\ c2.image = c.image
      /\ c2.last = c.last /\ c2.left = c.left /\ c2.off = c.off /\ c2.size = c.size /\ c2.k = c.k
    BY AtsAre DEF CallSet
<1> HIDE DEF c2
<1>2. Stage(c) = "extend" /\ Stage(c2) = "store" /\ c.op \in {"create", "mkdir"} /\ c.op \notin Drops
    BY <1>1, CallIs DEF CallInv, Stage, StagesOf, Drops
<1>3. MakeInv(f, d, c) /\ DirOk(f, View(f, d, c), c) /\ Sound(f, View(f, d, c))
    BY <1>2 DEF CallInv
<1>4. /\ Len(c.chain) \in Nat /\ ClustersFor(Len(c.image)) \in Nat
      /\ Len(c.image) \in Nat /\ c.chain \in Seq(Clusters)
    BY CallIs, LenProperties, ClustersForIs
<1>5. View(f, d, c2) = View(f, d, c)
    BY <1>1, <1>2 DEF View
<1>6. ImageInv(f, View(f, d, c), c) /\ c.k = 1 /\ FitInv(c)
    BY <1>2, <1>3 DEF MakeInv, FitInv
<1>7. ClustersFor(Len(c.image)) >= 1
    <2>1. c.ent.off \in Nat /\ c.ent.off < Len(c.image)
        BY <1>6, CallIs DEF ImageInv
    <2>2. Len(c.image) >= 1
        BY <1>4, <2>1
    <2>3. ClustersFor(Len(c.image)) <= 0 <=> Len(c.image) <= 0 * CellsPerCluster
        BY <1>4, ClustersForIs
    <2>4. 0 * CellsPerCluster = 0
        BY Geometry
    <2> QED BY <1>4, <2>2, <2>3, <2>4
<1>8. MakeInv(f, d, c2)
    <2>1. ImageInv(f, View(f, d, c2), c2)
        BY <1>1, <1>5, <1>6 DEF ImageInv, Spot
    <2>2. FitInv(c2)
        BY <1>1, <1>2, <1>4, <1>6, <1>7 DEF FitInv
    <2>3. ~(Which(c.ent.off + 1) < 1)
        <3>0. c.ent.off \in Nat
            BY CallIs
        <3>1. c.ent.off + 1 \in Nat \ {0}
            BY <3>0
        <3>2. Which(c.ent.off + 1) \in Nat \ {0}
            BY <3>1, PlaceOfCell
        <3> QED BY <3>2
    <2> QED BY <1>1, <1>2, <1>3, <1>6, <2>1, <2>2, <2>3 DEF MakeInv
<1>9. DirOk(f, View(f, d, c2), c2) /\ AllocInv(f, d, c2)
    BY <1>1, <1>3, <1>5 DEF DirOk, AllocInv
<1>10. c.chain[Len(c.chain)] \in Clusters /\ f[c.chain[Len(c.chain)]] = Eoc
    <2>1. c.chain = ChainOf(f, c.dir) /\ Whole(f, c.dir)
        BY <1>3, <1>6, CallDir DEF ImageInv
    <2>2. Len(c.chain) \in 1 .. Len(c.chain) /\ f[c.chain[Len(c.chain)]] = Eoc
        BY <2>1, WholeIs
    <2> QED BY <1>4, <2>2, ElementOfSeq
<1> QED BY <1>1, <1>2, <1>3, <1>5, <1>8, <1>9, <1>10 DEF CallInv, StagesOf, c2

\* A cleared cluster has no entries.
LEMMA ZeroIs ==
    /\ Zero \in CellSet /\ Deleted \in CellSet /\ ~IsEntry(Zero) /\ ~IsEntry(Deleted)
    /\ Zeros(CellsPerCluster) \in [Cols -> CellSet]
    /\ \A i \in Cols : Zeros(CellsPerCluster)[i] = Zero
BY DEF CellSet, Zero, Deleted, IsEntry, Zeros, Cols

\* The new cluster is linked to the directory, and is seen empty until it is written.
LEMMA LinkDirectoryKept ==
    ASSUME NEW f \in Table, NEW d \in Disk, NEW c \in CallSet, CallInv(f, d, c), c.at = "linkdir",
           NEW g, Changes(f, g, c.chain[Len(c.chain)], c.new)
    PROVE  LET c2 == [c EXCEPT !.chain = Append(@, c.new), !.at = "extend"]
           IN  c2 \in CallSet /\ CallInv(g, d, c2)
<1> DEFINE c2 == [c EXCEPT !.chain = Append(@, c.new), !.at = "extend"]
           row == Zeros(CellsPerCluster)
           e == [d EXCEPT ![c.new] = row]
           s == c.chain
           n == Len(c.chain)
<1>1. Stage(c) = "linkdir" /\ c.op \in {"create", "mkdir"} /\ c.op \notin Drops
    BY CallIs DEF CallInv, Stage, StagesOf, Drops
<1>2. View(f, d, c) = d
    BY <1>1 DEF View
<1>3. MakeInv(f, d, c) /\ DirOk(f, d, c) /\ Sound(f, d) /\ AllocInv(f, d, c)
    BY <1>1, <1>2 DEF CallInv
<1>4. f[c.new] = Eoc /\ Unowned(f, d, c.new) /\ c.new \in Clusters /\ c.new # 0
    <2>1. f[c.new] = Eoc /\ Unowned(f, d, c.new)
        BY <1>3 DEF AllocInv
    <2> QED BY <2>1, Geometry DEF Unowned
<1>5. ImageInv(f, d, c) /\ FitInv(c) /\ s = ChainOf(f, c.dir)
    BY <1>1, <1>2, <1>3 DEF MakeInv, ImageInv
<1>6. PICK y \in Dirs(f, d) : First(d, y) = c.dir /\ y \in Holders(f, d) /\ Held(f, d, y) = Own(f, c.dir)
    BY <1>3, CallDir
<1>7. Whole(f, c.dir) /\ c.dir # 0 /\ n \in Nat /\ s \in Seq(Clusters)
    BY <1>3, CallDir, CallIs, LenProperties
<1>8. /\ c2 \in CallSet /\ c2.chain = Append(s, c.new)
      /\ c2.at = "extend" /\ c2.next = c.next /\ c2.new = c.new
      /\ c2.op = c.op /\ c2.dir = c.dir /\ c2.ent = c.ent /\ c2.image = c.image
      /\ c2.last = c.last /\ c2.left = c.left /\ c2.off = c.off /\ c2.size = c.size /\ c2.k = c.k
    <2>1. Append(c.chain, c.new) \in Seq(Clusters)
        BY <1>4, <1>7, AppendProperties
    <2> QED BY <2>1, AtsAre DEF CallSet
<1> HIDE DEF c2
<1>9. e \in Disk /\ e[c.new] = row /\ \A x \in Places(f, d) : Cell(e, x) = Cell(d, x)
    <2>1. \A x \in Places(f, d) : x[1] # c.new
        BY <1>4, NoPlace
    <2>2. Rewrites(d, e, c.new) /\ e[c.new] = row
        BY <1>4, ZeroIs, RowIs
    <2> HIDE DEF row, e
    <2>3. e \in Disk
        BY <2>2 DEF Rewrites
    <2> QED BY <1>3, <2>1, <2>2, <2>3, RowFrame
<1>10. View(g, d, c2) = e /\ Stage(c2) = "extend"
    BY <1>1, <1>4, <1>8 DEF View, Stage
<1> HIDE DEF e
<1>11. \A i \in Cols : ~IsEntry(e[c.new][i])
    BY <1>9, ZeroIs
<1>12. /\ g[s[n]] = c.new
       /\ \A x \in Clusters : x # s[n] => g[x] = f[x]
    BY DEF Changes
<1>13. /\ Sound(g, e)
       /\ ChainOf(g, c.dir) = Append(s, c.new) /\ Len(ChainOf(g, c.dir)) = n + 1
       /\ \A i \in 1 .. n : ChainOf(g, c.dir)[i] = s[i]
       /\ ChainOf(g, c.dir)[n + 1] = c.new
       /\ \A x \in Dirs(f, d) : x \in Dirs(g, e) /\ First(e, x) = First(d, x)
    <2>1. /\ First(d, y) # 0 /\ ChainOf(f, First(d, y)) = s
          /\ g[ChainOf(f, First(d, y))[Len(ChainOf(f, First(d, y)))]] = c.new
          /\ \A x \in Clusters : x # ChainOf(f, First(d, y))[Len(ChainOf(f, First(d, y)))] => g[x] = f[x]
        BY <1>5, <1>6, <1>7, <1>12
    <2>2. /\ Sound(g, e)
          /\ ChainOf(g, First(d, y)) = Append(ChainOf(f, First(d, y)), c.new)
          /\ Len(ChainOf(g, First(d, y))) = Len(ChainOf(f, First(d, y))) + 1
          /\ \A i \in 1 .. Len(ChainOf(f, First(d, y))) :
                ChainOf(g, First(d, y))[i] = ChainOf(f, First(d, y))[i]
          /\ ChainOf(g, First(d, y))[Len(ChainOf(f, First(d, y))) + 1] = c.new
          /\ \A x \in Dirs(f, d) : x \in Dirs(g, e) /\ First(e, x) = First(d, x)
        BY <1>3, <1>4, <1>6, <1>9, <1>11, <2>1, Link
    <2> QED BY <1>6, <2>1, <2>2
<1>14. DirOk(g, e, c2)
    <2>1. c.ent.dir = c.dir
        BY <1>3 DEF DirOk
    <2> QED BY <1>6, <1>8, <1>13, <2>1 DEF DirOk
<1>15. FitInv(c2)
    <2>1. ClustersFor(Len(c.image)) = n + 1 /\ c.k = 1
        BY <1>1, <1>5 DEF FitInv
    <2>2. Len(c2.chain) = n + 1 /\ c2.chain[n + 1] = c.new
        BY <1>8, <1>13
    <2> QED BY <1>4, <1>7, <1>8, <1>10, <2>1, <2>2 DEF FitInv
<1>16. ImageInv(g, e, c2)
    <2>1. c2.chain = ChainOf(g, c2.dir) /\ Len(c2.chain) = n + 1
        BY <1>8, <1>13
    <2>2. ASSUME NEW j \in 1 .. Len(c.image), IsEntry(c.image[j]), ~Blank(c.image[j])
          PROVE  Which(j) <= n + 1 /\ c.image[j] = Cell(e, Spot(c2, j))
        <3>1. Which(j) <= n /\ c.image[j] = Cell(d, Spot(c, j))
            BY <1>5, <2>2 DEF ImageInv
        <3>2. j \in Nat \ {0}
            BY <2>2
        <3>3. Which(j) \in Nat \ {0} /\ Where(j) \in Cols
            BY <3>2, PlaceOfCell
        <3>4. Which(j) \in 1 .. n
            BY <1>7, <3>1, <3>3
        <3>5. Spot(c2, j) = Spot(c, j)
            BY <1>8, <1>13, <3>4 DEF Spot
        <3>6. Spot(c, j) \in Places(f, d)
            <4>1. s[Which(j)] \in Own(f, c.dir) /\ s[Which(j)] \in Clusters
                BY <1>5, <1>7, <3>4, WholeIs
            <4>2. Spot(c, j) \in Spots /\ Spot(c, j)[1] = s[Which(j)]
                BY <3>3, <4>1 DEF Spot, Spots
            <4> QED BY <1>6, <4>1, <4>2 DEF Places
        <3> QED BY <1>7, <1>9, <3>1, <3>3, <3>5, <3>6
    <2> QED BY <1>1, <1>5, <1>8, <2>1, <2>2 DEF ImageInv
<1>17. MakeInv(g, d, c2)
    BY <1>1, <1>3, <1>8, <1>10, <1>15, <1>16 DEF MakeInv
<1>18. AllocInv(g, d, c2)
    BY <1>8 DEF AllocInv
<1> QED BY <1>1, <1>8, <1>10, <1>13, <1>14, <1>17, <1>18 DEF CallInv, StagesOf, c2

\* createDirectory: the cluster with the dot entries is written before anything names it.
LEMMA DotsKept ==
    ASSUME NEW f \in Table, NEW d \in Disk, NEW c \in CallSet, CallInv(f, d, c), c.at = "dots",
           NEW row \in [Cols -> CellSet], \A i \in Cols : ~IsEntry(row[i])
    PROVE  LET c2 == [c EXCEPT !.at = "eoc"]
           IN  c.new \in Clusters /\ c2 \in CallSet /\ CallInv(f, [d EXCEPT ![c.new] = row], c2)
<1> DEFINE c2 == [c EXCEPT !.at = "eoc"]
           e == [d EXCEPT ![c.new] = row]
           x == PlaceOf(f, c.ent)
<1>1. Stage(c) = "dots" /\ c.op = "mkdir" /\ c.op \notin Drops
    BY CallIs DEF CallInv, Stage, StagesOf, Drops
<1>2. View(f, d, c) = d
    BY <1>1 DEF View
<1>3. MakeInv(f, d, c) /\ DirOk(f, d, c) /\ Sound(f, d) /\ AllocInv(f, d, c)
    BY <1>1, <1>2 DEF CallInv
<1>4. f[c.new] = Eoc /\ Unowned(f, d, c.new) /\ c.new \in Clusters
    <2>1. f[c.new] = Eoc /\ Unowned(f, d, c.new)
        BY <1>3 DEF AllocInv
    <2> QED BY <2>1 DEF Unowned
<1>5. /\ c2 \in CallSet /\ c2.at = "eoc" /\ c2.next = c.next /\ c2.new = c.new /\ c2.chain = c.chain
      /\ c2.op = c.op /\ c2.dir = c.dir /\ c2.ent = c.ent /\ c2.image = c.image
      /\ c2.last = c.last /\ c2.left = c.left /\ c2.off = c.off /\ c2.size = c.size /\ c2.k = c.k
    BY AtsAre DEF CallSet
<1> HIDE DEF c2, e
<1>6. View(f, e, c2) = e /\ Stage(c2) = "eoc"
    BY <1>1, <1>5 DEF View, Stage
<1>7. /\ e[c.new] = row /\ \A z \in Places(f, d) : Cell(e, z) = Cell(d, z)
      /\ Sound(f, e) /\ DirOk(f, e, c) /\ Unowned(f, e, c.new)
    <2>1. \A z \in Places(f, d) : z[1] # c.new
        BY <1>4, NoPlace
    <2>2. Rewrites(d, e, c.new) /\ e[c.new] = row
        BY <1>4, RowIs DEF e
    <2> QED BY <1>3, <1>4, <2>1, <2>2, RowFrame
<1>8. SlotInDir(f, c) /\ Cell(d, x).kind = "dir"
    BY <1>1, <1>3 DEF MakeInv
<1>9. x \in Places(f, d)
    BY <1>3, <1>8, CallDir
<1>10. FitInv(c2)
    BY <1>5, <1>6 DEF FitInv
<1>11. MakeInv(f, e, c2)
    BY <1>1, <1>3, <1>5, <1>6, <1>7, <1>8, <1>9, <1>10 DEF MakeInv, SlotInDir
<1>12. AllocInv(f, e, c2) /\ DirOk(f, e, c2)
    BY <1>4, <1>5, <1>7 DEF AllocInv, DirOk
<1> QED BY <1>1, <1>4, <1>5, <1>6, <1>7, <1>11, <1>12 DEF CallInv, StagesOf, c2, e

\* createDirectory: the end marker, before the entry names the cluster.
LEMMA EndDotsKept ==
    ASSUME NEW f \in Table, NEW d \in Disk, NEW c \in CallSet, CallInv(f, d, c), c.at = "eoc"
    PROVE  LET c2 == [c EXCEPT !.at = "flushdir", !.ent.first = c.new]
           IN  c.new \in Clusters /\ f[c.new] = Eoc /\ c2 \in CallSet /\ CallInv(f, d, c2)
<1> DEFINE c2 == [c EXCEPT !.at = "flushdir", !.ent.first = c.new]
<1>1. Stage(c) = "eoc" /\ c.op = "mkdir" /\ c.op \notin Drops
    BY CallIs DEF CallInv, Stage, StagesOf, Drops
<1>2. View(f, d, c) = d
    BY <1>1 DEF View
<1>3. MakeInv(f, d, c) /\ DirOk(f, d, c) /\ Sound(f, d) /\ AllocInv(f, d, c)
    BY <1>1, <1>2 DEF CallInv
<1>4. f[c.new] = Eoc /\ Unowned(f, d, c.new) /\ c.new \in Clusters /\ c.new \in Nat
    <2>1. f[c.new] = Eoc /\ Unowned(f, d, c.new)
        BY <1>3 DEF AllocInv
    <2> QED BY <2>1, Geometry DEF Unowned
<1>5. /\ c2 \in CallSet /\ c2.at = "flushdir" /\ c2.next = c.next /\ c2.new = c.new /\ c2.chain = c.chain
      /\ c2.op = c.op /\ c2.dir = c.dir /\ c2.image = c.image
      /\ c2.last = c.last /\ c2.left = c.left /\ c2.off = c.off /\ c2.size = c.size /\ c2.k = c.k
      /\ c2.ent.first = c.new /\ c2.ent.dir = c.ent.dir /\ c2.ent.off = c.ent.off
      /\ c2.ent.kind = c.ent.kind /\ c2.ent.size = c.ent.size
    BY <1>4, AtsAre DEF CallSet, EntrySet
<1> HIDE DEF c2
<1>6. View(f, d, c2) = d /\ Stage(c2) = "flushdir"
    BY <1>1, <1>5 DEF View, Stage
<1>7. PlaceOf(f, c2.ent) = PlaceOf(f, c.ent) /\ (SlotInDir(f, c2) <=> SlotInDir(f, c))
    BY <1>5 DEF PlaceOf, SlotInDir
<1>8. FitInv(c2)
    BY <1>5, <1>6 DEF FitInv
<1>9. MakeInv(f, d, c2)
    BY <1>1, <1>3, <1>5, <1>6, <1>7, <1>8 DEF MakeInv
<1>10. AllocInv(f, d, c2) /\ DirOk(f, d, c2)
    BY <1>3, <1>4, <1>5 DEF AllocInv, DirOk
<1>11. CallInv(f, d, c2)
    BY <1>1, <1>3, <1>5, <1>6, <1>9, <1>10 DEF CallInv, StagesOf
<1> QED BY <1>4, <1>5, <1>11 DEF c2

\* A call that is over.
LEMMA EndKept ==
    ASSUME NEW f, NEW d, NEW c \in CallSet, Sound(f, d), NEW at \in {"done", "failed"}
    PROVE  LET c2 == [c EXCEPT !.at = at]
           IN  c2 \in CallSet /\ CallInv(f, d, c2)
<1> DEFINE c2 == [c EXCEPT !.at = at]
<1>1. c2 \in CallSet /\ c2.at = at /\ c2.op = c.op
    BY AtsAre DEF CallSet
<1> HIDE DEF c2
<1>2. View(f, d, c2) = d /\ Stage(c2) = at
    BY <1>1 DEF View, Stage
<1>3. CallInv(f, d, c2)
    BY <1>1, <1>2 DEF CallInv, StagesOf
<1> QED BY <1>1, <1>3 DEF c2

\* createDirectory: the entry gets its first cluster, which nobody has.
LEMMA FlushDirectoryKept ==
    ASSUME NEW f \in Table, NEW d \in Disk, NEW c \in CallSet, CallInv(f, d, c), c.at = "flushdir",
           NEW s \in SlotCell, s.kind = c.ent.kind, s.first = c.ent.first, s.size = c.ent.size
    PROVE  LET c2 == [c EXCEPT !.at = "done"]
               e == Put(d, PlaceOf(f, c.ent), s)
           IN  /\ Whole(f, c.dir) /\ c.ent.dir = c.dir /\ SlotInDir(f, c)
               /\ e \in Disk /\ c2 \in CallSet /\ CallInv(f, e, c2)
<1> DEFINE x == PlaceOf(f, c.ent)
<1>1. Stage(c) = "flushdir" /\ c.op = "mkdir" /\ c.op \notin Drops
    BY CallIs DEF CallInv, Stage, StagesOf, Drops
<1>2. View(f, d, c) = d
    BY <1>1 DEF View
<1>3. MakeInv(f, d, c) /\ DirOk(f, d, c) /\ Sound(f, d) /\ AllocInv(f, d, c)
    BY <1>1, <1>2 DEF CallInv
<1>4. f[c.new] = Eoc /\ Unowned(f, d, c.new) /\ c.new \in Clusters
    <2>1. f[c.new] = Eoc /\ Unowned(f, d, c.new)
        BY <1>3 DEF AllocInv
    <2> QED BY <2>1 DEF Unowned
<1>5. /\ SlotInDir(f, c) /\ Cell(d, x).kind = "dir" /\ \A i \in Cols : ~IsEntry(d[c.new][i])
      /\ c.ent.first = c.new /\ c.ent.kind = "dir" /\ c.ent.size = 0
    BY <1>1, <1>3 DEF MakeInv
<1>6. x \in Places(f, d) /\ Whole(f, c.dir) /\ IsEntry(Cell(d, x))
    BY <1>3, <1>5, CallDir DEF IsEntry
<1>7. SlotOk(f, s)
    <2>1. Whole(f, s.first) /\ Len(ChainOf(f, s.first)) \in Nat
        BY <1>4, <1>5, WholeOne, WholeIs
    <2>2. Len(ChainOf(f, s.first)) * CellsPerCluster \in Nat
        BY <2>1, Times
    <2> QED BY <1>5, <2>1, <2>2 DEF SlotOk
<1>8. Put(d, x, s) \in Disk /\ Sound(f, Put(d, x, s))
    BY <1>3, <1>4, <1>5, <1>6, <1>7, Flush
<1>9. [c EXCEPT !.at = "done"] \in CallSet /\ CallInv(f, Put(d, x, s), [c EXCEPT !.at = "done"])
    BY <1>8, EndKept
<1>10. c.ent.dir = c.dir
    BY <1>3 DEF DirOk
<1> QED BY <1>5, <1>6, <1>8, <1>9, <1>10

\* What a call hides from view while it stores a directory: a slot, or the new cluster.
Hides(f, d, v, c, Z, b) ==
    /\ Z \subseteq Spots /\ b \in {Zero, Deleted}
    /\ \A x \in Spots : Cell(v, x) = IF x \in Z THEN b ELSE Cell(d, x)

\* While a directory is stored, what is hidden is one slot or the new cluster,
\* and by the last cluster of the image it is written.
LEMMA StoreHides ==
    ASSUME NEW f \in Table, NEW d \in Disk, NEW c \in CallSet, CallInv(f, d, c), c.at = "store"
    PROVE  \E Z \in SUBSET Spots, b \in {Zero, Deleted} :
              /\ \A e \in Disk : \A c2 \in CallSet :
                    c2.op = c.op /\ c2.at = "store" /\ c2.new = c.new /\ c2.ent = c.ent =>
                       Hides(f, e, View(f, e, c2), c, Z, b)
              /\ \A x \in Z : x[1] \in Own(f, c.dir)
              /\ \A j \in 1 .. Len(c.image) :
                    Spot(c, j) \in Z /\ IsEntry(c.image[j]) => Blank(c.image[j])
              /\ \A x \in Z : c.k = ClustersFor(Len(c.image)) /\ x[1] # c.chain[c.k] =>
                    ~IsEntry(Cell(d, x))
<1> DEFINE v == View(f, d, c)
           N == ClustersFor(Len(c.image))
           P == PlaceOf(f, c.ent)
<1>1. Stage(c) = "store" /\ c.op \in {"create", "mkdir", "unlink", "rmdir"} /\ c.op # "write"
    BY CallIs DEF CallInv, Stage, StagesOf
<1>2. /\ MakeInv(f, d, c) /\ DirOk(f, v, c) /\ Sound(f, v)
      /\ (c.op \in Drops => DropInv(f, c))
    BY <1>1 DEF CallInv
<1>3. ImageInv(f, v, c) /\ FitInv(c) /\ c.chain = ChainOf(f, c.dir)
    BY <1>1, <1>2 DEF MakeInv, ImageInv
<1>4. Whole(f, c.dir)
    BY <1>2, CallDir
<1>5. /\ \A i, j \in 1 .. Len(c.chain) : c.chain[i] = c.chain[j] => i = j
      /\ \A i \in 1 .. Len(c.chain) : c.chain[i] \in Own(f, c.dir)
      /\ Own(f, c.dir) \subseteq Clusters /\ Len(c.chain) \in Nat
    BY <1>3, <1>4, WholeIs
<1>6. CASE c.op \in Drops
    <2>1. SlotInDir(f, c) /\ c.ent.dir = c.dir
        BY <1>2, <1>6 DEF DropInv, DirOk
    <2>2. P \in Spots /\ P[1] \in Own(f, c.dir) /\ Which(c.ent.off + 1) \in 1 .. Len(c.chain)
        BY <1>2, <1>3, <2>1, CallDir
    <2>3. P = Spot(c, c.ent.off + 1)
        BY <1>3, <2>1 DEF PlaceOf, Spot
    <2>4. /\ c.image[c.ent.off + 1] = Deleted /\ Len(c.image) = Len(c.chain) * CellsPerCluster
          /\ c.ent.off < Len(c.image)
        BY <1>1, <1>3, <1>6 DEF ImageInv, Drops
    <2>5. c.ent.off \in Nat
        BY CallIs
    <2>6. ASSUME NEW e \in Disk, NEW c2 \in CallSet,
                 c2.op = c.op, c2.at = "store", c2.new = c.new, c2.ent = c.ent
          PROVE  Hides(f, e, View(f, e, c2), c, {P}, Deleted)
        <3>1. View(f, e, c2) = Put(e, P, Deleted)
            BY <1>6, <2>6 DEF View
        <3> HIDE DEF P
        <3>2. /\ Cell(Put(e, P, Deleted), P) = Deleted
              /\ \A x \in Spots : x # P => Cell(Put(e, P, Deleted), x) = Cell(e, x)
            BY <2>2, ZeroIs, PutIs
        <3> QED BY <2>2, <3>1, <3>2 DEF Hides
    <2>7. ASSUME NEW j \in 1 .. Len(c.image), Spot(c, j) = P PROVE ~IsEntry(c.image[j])
        <3>1. Len(c.image) \in Nat
            BY CallIs, LenProperties
        <3>2. j \in Nat \ {0} /\ c.ent.off + 1 \in Nat \ {0} /\ j <= Len(c.chain) * CellsPerCluster
            BY <2>4, <2>5, <3>1
        <3>3. Which(j) \in Nat \ {0} /\ Which(j) <= Len(c.chain)
            BY <1>5, <3>2, PlaceOfCell, PlaceInChain
        <3>4. c.chain[Which(j)] = c.chain[Which(c.ent.off + 1)] /\ Where(j) = Where(c.ent.off + 1)
            BY <2>3, <2>7 DEF Spot
        <3>5. Which(j) = Which(c.ent.off + 1)
            BY <1>5, <2>2, <3>3, <3>4
        <3>6. j = Nth(Which(j), Where(j)) /\ c.ent.off + 1 = Nth(Which(c.ent.off + 1), Where(c.ent.off + 1))
            BY <3>2, PlaceOfCell
        <3>7. j = c.ent.off + 1
            BY <3>4, <3>5, <3>6
        <3> QED BY <2>4, <3>7, ZeroIs
    <2>8. ASSUME c.k = N, P[1] # c.chain[c.k] PROVE ~IsEntry(Cell(d, P))
        <3>1. N = Len(c.chain)
            <4>1. Len(c.image) \in Nat
                BY CallIs, LenProperties
            <4>2. N \in Nat /\ (N <= Len(c.chain) <=> Len(c.image) <= Len(c.chain) * CellsPerCluster)
                  /\ (N <= N <=> Len(c.image) <= N * CellsPerCluster)
                BY <1>5, <4>1, ClustersForIs
            <4>3. ~(N < Len(c.chain))
                <5>1. SUFFICES ASSUME N < Len(c.chain) PROVE FALSE
                    OBVIOUS
                <5>2. N * CellsPerCluster + CellsPerCluster <= Len(c.chain) * CellsPerCluster
                      /\ N * CellsPerCluster \in Nat
                    BY <1>5, <4>2, <5>1, Times
                <5>3. Len(c.image) <= N * CellsPerCluster
                    BY <4>2
                <5> QED BY <2>4, <4>1, <5>2, <5>3, Geometry
            <4>4. Len(c.image) <= Len(c.chain) * CellsPerCluster
                BY <2>4, <4>1
            <4> QED BY <1>5, <4>2, <4>3, <4>4
        <3>2. P[1] = c.chain[Which(c.ent.off + 1)]
            BY <2>3 DEF Spot
        <3>3. Which(c.ent.off + 1) < c.k
            <4>1. Which(c.ent.off + 1) # c.k
                BY <2>8, <3>2
            <4> QED BY <1>5, <2>2, <2>8, <3>1, <4>1
        <3>4. Cell(d, Spot(c, c.ent.off + 1)) = c.image[c.ent.off + 1]
            BY <1>2, <3>3 DEF MakeInv
        <3> QED BY <2>3, <2>4, <3>4, ZeroIs
    <2>9. /\ \A e \in Disk : \A c2 \in CallSet :
                c2.op = c.op /\ c2.at = "store" /\ c2.new = c.new /\ c2.ent = c.ent =>
                   Hides(f, e, View(f, e, c2), c, {P}, Deleted)
          /\ \A x \in {P} : x[1] \in Own(f, c.dir)
          /\ \A j \in 1 .. Len(c.image) :
                Spot(c, j) \in {P} /\ IsEntry(c.image[j]) => Blank(c.image[j])
          /\ \A x \in {P} : c.k = N /\ x[1] # c.chain[c.k] => ~IsEntry(Cell(d, x))
        <3> HIDE DEF P, N
        <3>1. \A x \in {P} : x[1] \in Own(f, c.dir)
            BY <2>2
        <3>2. \A j \in 1 .. Len(c.image) :
                Spot(c, j) \in {P} /\ IsEntry(c.image[j]) => Blank(c.image[j])
            BY <2>7
        <3>3. \A x \in {P} : c.k = N /\ x[1] # c.chain[c.k] => ~IsEntry(Cell(d, x))
            BY <2>8
        <3> QED BY <2>6, <3>1, <3>2, <3>3
    <2>10. {P} \in SUBSET Spots
        BY <2>2
    <2> HIDE DEF P
    <2> QED BY <2>9, <2>10
<1>7. CASE c.op \notin Drops /\ c.new # 0
    <2> DEFINE Z == {x \in Spots : x[1] = c.new}
    <2>1. N = Len(c.chain) /\ c.new = c.chain[N] /\ c.k \in 1 .. N
        BY <1>3, <1>7 DEF FitInv
    <2>2. c.new \in Own(f, c.dir) /\ c.new \in Clusters
        <3>1. N \in 1 .. Len(c.chain)
            BY <1>5, <2>1
        <3> QED BY <1>5, <2>1, <3>1
    <2>3. ASSUME NEW e \in Disk, NEW c2 \in CallSet,
                 c2.op = c.op, c2.at = "store", c2.new = c.new, c2.ent = c.ent
          PROVE  Hides(f, e, View(f, e, c2), c, Z, Zero)
        <3> DEFINE row == Zeros(CellsPerCluster)
        <3>1. View(f, e, c2) = [e EXCEPT ![c.new] = row]
            BY <1>7, <2>3 DEF View
        <3>2. row \in [Cols -> CellSet] /\ \A i \in Cols : row[i] = Zero
            BY ZeroIs
        <3> HIDE DEF row
        <3> DEFINE w == [e EXCEPT ![c.new] = row]
        <3>3. Rewrites(e, w, c.new) /\ w[c.new] = row
            BY <2>2, <3>2, RowIs
        <3> HIDE DEF w
        <3>4. ASSUME NEW x \in Spots PROVE Cell(w, x) = IF x \in Z THEN Zero ELSE Cell(e, x)
            <4>1. x[1] \in Clusters /\ x[2] \in Cols
                BY SpotIs
            <4> QED BY <3>2, <3>3, <4>1 DEF Cell, Rewrites
        <3> QED BY <3>1, <3>4 DEF Hides, w
    <2>4. ASSUME NEW j \in 1 .. Len(c.image), Spot(c, j) \in Z, IsEntry(c.image[j])
          PROVE  Blank(c.image[j])
        <3>1. SUFFICES ASSUME c.image[j] = Cell(v, Spot(c, j)) PROVE FALSE
            BY <1>3, <2>4 DEF ImageInv
        <3>2. Hides(f, d, v, c, Z, Zero)
            BY <2>3
        <3>3. Cell(v, Spot(c, j)) = Zero
            BY <2>4, <3>2 DEF Hides
        <3> QED BY <2>4, <3>1, <3>3, ZeroIs
    <2>5. \A x \in Z : c.k = N => x[1] = c.chain[c.k]
        BY <2>1
    <2>6. Z \in SUBSET Spots /\ \A x \in Z : x[1] \in Own(f, c.dir)
        BY <2>2
    <2> HIDE DEF Z
    <2> QED BY <2>3, <2>4, <2>5, <2>6
<1>8. CASE c.op \notin Drops /\ c.new = 0
    <2>1. ASSUME NEW e \in Disk, NEW c2 \in CallSet,
                 c2.op = c.op, c2.at = "store", c2.new = c.new, c2.ent = c.ent
          PROVE  Hides(f, e, View(f, e, c2), c, {}, Zero)
        BY <1>8, <2>1 DEF View, Hides
    <2> QED BY <2>1
<1> QED BY <1>6, <1>7, <1>8

\* StoreDirectory: a cluster of the image is written.
Stores(d, e, c) ==
    /\ Rewrites(d, e, c.chain[c.k])
    /\ \A i \in Cols : e[c.chain[c.k]][i] =
          IF Nth(c.k, i) <= Len(c.image) THEN c.image[Nth(c.k, i)] ELSE Zero
\* The view after that write.
Shows(f, e, w, c) ==
    \/ w = e /\ c.k = ClustersFor(Len(c.image))
    \/ \E c2 \in CallSet :
          c2.op = c.op /\ c2.at = "store" /\ c2.new = c.new /\ c2.ent = c.ent /\ w = View(f, e, c2)

\* After a cluster of the image is written the view has the entries it had.
LEMMA StoreShows ==
    ASSUME NEW f \in Table, NEW d \in Disk, NEW c \in CallSet, CallInv(f, d, c), c.at = "store",
           NEW e, Stores(d, e, c), NEW w, Shows(f, e, w, c)
    PROVE  /\ Sound(f, w) /\ DirOk(f, w, c)
           /\ \A j \in 1 .. Len(c.image) :
                 IsEntry(c.image[j]) =>
                    Blank(c.image[j]) \/ (Which(j) <= Len(c.chain) /\ c.image[j] = Cell(w, Spot(c, j)))
           /\ \A j \in 1 .. Len(c.image) :
                 Which(j) <= c.k => Cell(e, Spot(c, j)) = IF Which(j) = c.k THEN c.image[j]
                                                          ELSE Cell(d, Spot(c, j))
           /\ c.k \in 1 .. Len(c.chain) /\ ClustersFor(Len(c.image)) <= Len(c.chain)
           /\ c.chain = ChainOf(f, c.dir) /\ c.chain[c.k] \in Clusters
<1> DEFINE v == View(f, d, c)
           N == ClustersFor(Len(c.image))
           u == c.chain[c.k]
<1>1. Stage(c) = "store" /\ c.op \in {"create", "mkdir", "unlink", "rmdir"} /\ c.op # "write"
    BY CallIs, Zenon DEF CallInv, Stage, StagesOf
<1>2. MakeInv(f, d, c) /\ DirOk(f, v, c) /\ Sound(f, v)
    BY <1>1 DEF CallInv
<1>3. ImageInv(f, v, c) /\ FitInv(c) /\ c.chain = ChainOf(f, c.dir)
    BY <1>1, <1>2 DEF MakeInv, ImageInv
<1>4. Whole(f, c.dir)
    BY <1>2, CallDir
<1>5. /\ \A i, j \in 1 .. Len(c.chain) : c.chain[i] = c.chain[j] => i = j
      /\ \A i \in 1 .. Len(c.chain) : c.chain[i] \in Own(f, c.dir)
      /\ Own(f, c.dir) \subseteq Clusters /\ Len(c.chain) \in Nat
    BY <1>3, <1>4, WholeIs
<1>6. Len(c.image) \in Nat /\ N \in Nat
    <2>1. Len(c.image) \in Nat
        BY CallIs, LenProperties
    <2> QED BY <2>1, ClustersForIs
<1>7. c.k \in 1 .. N /\ N <= Len(c.chain) /\ c.k \in 1 .. Len(c.chain) /\ u \in Own(f, c.dir) /\ u \in Clusters
    <2>1. c.k \in 1 .. N /\ N <= Len(c.chain)
        BY <1>3 DEF FitInv
    <2>2. c.k \in 1 .. Len(c.chain)
        BY <1>5, <1>6, <2>1
    <2> QED BY <1>5, <2>1, <2>2
<1>8. e \in Disk /\ \A x \in Spots : x[1] # u => Cell(e, x) = Cell(d, x)
    BY SpotIs DEF Stores, Rewrites, Cell
<1>9. PICK Z \in SUBSET Spots, b \in {Zero, Deleted} :
              /\ \A g \in Disk : \A c2 \in CallSet :
                    c2.op = c.op /\ c2.at = "store" /\ c2.new = c.new /\ c2.ent = c.ent =>
                       Hides(f, g, View(f, g, c2), c, Z, b)
              /\ \A x \in Z : x[1] \in Own(f, c.dir)
              /\ \A j \in 1 .. Len(c.image) :
                    Spot(c, j) \in Z /\ IsEntry(c.image[j]) => Blank(c.image[j])
              /\ \A x \in Z : c.k = ClustersFor(Len(c.image)) /\ x[1] # c.chain[c.k] =>
                    ~IsEntry(Cell(d, x))
    BY StoreHides
<1>10. Hides(f, d, v, c, Z, b)
    BY <1>9
<1>11. /\ \A x \in Spots \ Z : Cell(v, x) = Cell(d, x) /\ Cell(w, x) = Cell(e, x)
       /\ \A x \in Z : IsEntry(Cell(w, x)) => Cell(w, x) = Cell(e, x) /\ c.k = N
    <2>1. \A x \in Spots \ Z : Cell(v, x) = Cell(d, x)
        BY <1>10 DEF Hides
    <2>2. CASE w = e /\ c.k = N
        BY <2>1, <2>2
    <2>3. CASE \E c2 \in CallSet :
          c2.op = c.op /\ c2.at = "store" /\ c2.new = c.new /\ c2.ent = c.ent /\ w = View(f, e, c2)
        <3>1. Hides(f, e, w, c, Z, b)
            BY <1>8, <1>9, <2>3
        <3>2. \A x \in Spots : Cell(w, x) = IF x \in Z THEN b ELSE Cell(e, x)
            BY <3>1 DEF Hides
        <3> QED BY <1>9, <2>1, <3>2, ZeroIs
    <2> QED BY <2>2, <2>3 DEF Shows
\* A cell of the cluster is one of the image.
<1>12. ASSUME NEW j \in 1 .. Len(c.image)
       PROVE  /\ Which(j) \in Nat \ {0} /\ Where(j) \in Cols /\ j = Nth(Which(j), Where(j))
              /\ Which(j) = c.k => Cell(e, Spot(c, j)) = c.image[j]
              /\ Which(j) <= Len(c.chain) => Spot(c, j) \in Spots /\ (Which(j) # c.k => Spot(c, j)[1] # u)
    <2>1. j \in Nat \ {0} /\ j <= Len(c.image)
        BY <1>6
    <2>2. Which(j) \in Nat \ {0} /\ Where(j) \in Cols /\ j = Nth(Which(j), Where(j))
        BY <2>1, PlaceOfCell
    <2>3. ASSUME Which(j) = c.k PROVE Cell(e, Spot(c, j)) = c.image[j]
        BY <2>1, <2>2, <2>3 DEF Cell, Spot, Stores
    <2>4. ASSUME Which(j) <= Len(c.chain)
          PROVE  Spot(c, j) \in Spots /\ (Which(j) # c.k => Spot(c, j)[1] # u)
        <3>1. Which(j) \in 1 .. Len(c.chain)
            BY <1>5, <2>2, <2>4
        <3>2. c.chain[Which(j)] \in Clusters /\ (Which(j) # c.k => c.chain[Which(j)] # u)
            BY <1>5, <1>7, <3>1
        <3> QED BY <2>2, <3>2 DEF Spot, Spots
    <2> QED BY <2>2, <2>3, <2>4
<1>13. ASSUME NEW x \in Spots, x[1] = u, IsEntry(Cell(e, x))
       PROVE  Blank(Cell(e, x)) \/ Cell(e, x) = Cell(v, x)
    <2>1. x[2] \in Cols /\ x = <<u, x[2]>>
        BY <1>13, SpotIs
    <2> DEFINE j == Nth(c.k, x[2])
    <2>2. j \in Nat \ {0} /\ Which(j) = c.k /\ Where(j) = x[2]
        <3>1. c.k \in Nat \ {0}
            BY <1>6, <1>7
        <3> QED BY <2>1, <3>1, CellOfPlace
    <2>3. Cell(e, x) = IF j <= Len(c.image) THEN c.image[j] ELSE Zero
        BY <1>13, <2>1 DEF Stores, Cell
    <2>4. x = Spot(c, j)
        BY <2>1, <2>2 DEF Spot
    <2> HIDE DEF j
    <2>5. j \in 1 .. Len(c.image) /\ Cell(e, x) = c.image[j]
        BY <1>6, <1>13, <2>2, <2>3, ZeroIs
    <2> QED BY <1>3, <1>13, <2>4, <2>5 DEF ImageInv
<1>14. ASSUME NEW x \in Spots, IsEntry(Cell(w, x))
       PROVE  Blank(Cell(w, x)) \/ Cell(w, x) = Cell(v, x)
    <2>1. CASE x[1] = u
        <3>1. Cell(w, x) = Cell(e, x)
            BY <1>11, <1>14
        <3> QED BY <1>13, <1>14, <2>1, <3>1
    <2>2. CASE x[1] # u
        <3>1. Cell(e, x) = Cell(d, x)
            BY <1>8, <2>2
        <3>2. x \notin Z
            <4>1. SUFFICES ASSUME x \in Z PROVE FALSE
                OBVIOUS
            <4>2. c.k = N /\ Cell(w, x) = Cell(e, x)
                BY <1>11, <1>14, <4>1
            <4>3. ~IsEntry(Cell(d, x))
                BY <1>9, <2>2, <4>1, <4>2
            <4> QED BY <1>14, <3>1, <4>2, <4>3
        <3> QED BY <1>11, <3>1, <3>2
    <2> QED BY <2>1, <2>2
<1>15. Writes(f, v, f, w, TheRoot, 0)
    <2>1. Whole(f, Root)
        BY <1>2 DEF Sound
    <2>2. ASSUME NEW x \in Places(f, v), IsEntry(Cell(w, x)), ~Blank(Cell(w, x))
          PROVE  Cell(w, x) = Cell(v, x) /\ SlotOk(f, Cell(w, x))
        <3>1. Cell(w, x) = Cell(v, x)
            BY <1>14, <2>2, PlaceIs
        <3>2. x \in EntryPlaces(f, v)
            BY <2>2, <3>1 DEF EntryPlaces
        <3> QED BY <1>2, <3>1, <3>2 DEF Sound
    <2> QED BY <1>2, <2>1, <2>2 DEF Writes
<1>16. Sound(f, w)
    BY <1>15, Grows
<1>17. DirOk(f, w, c)
    <2>1. PICK y \in Dirs(f, v) : First(v, y) = c.dir
        BY <1>2 DEF DirOk
    <2>2. CASE y = TheRoot
        BY <1>2, <2>1, <2>2, RootIs DEF DirOk
    <2>3. CASE y # TheRoot
        <3>1. y \in Spots /\ y[1] \in Own(f, Root) /\ IsDir(Cell(v, y)) /\ y \in Holders(f, v)
              /\ Held(f, v, y) = Own(f, c.dir)
            BY <2>1, <2>3, PlaceIs DEF Dirs, Held
        <3>2. y[1] \notin Own(f, c.dir)
            BY <1>2, <2>3, <3>1, RootIs, HoldersApart
        <3>3. Cell(w, y) = Cell(v, y)
            BY <1>7, <1>8, <1>9, <1>11, <3>1, <3>2
        <3>4. y \in Dirs(f, w) /\ First(w, y) = c.dir
            BY <2>1, <3>1, <3>3, SpotIs DEF Dirs
        <3> QED BY <1>2, <3>4 DEF DirOk
    <2> QED BY <2>2, <2>3
<1>18. ASSUME NEW j \in 1 .. Len(c.image), IsEntry(c.image[j]), ~Blank(c.image[j])
       PROVE  Which(j) <= Len(c.chain) /\ c.image[j] = Cell(w, Spot(c, j))
    <2>1. Which(j) <= Len(c.chain) /\ c.image[j] = Cell(v, Spot(c, j))
        BY <1>3, <1>18 DEF ImageInv
    <2>2. Spot(c, j) \in Spots /\ (Which(j) # c.k => Spot(c, j)[1] # u)
          /\ (Which(j) = c.k => Cell(e, Spot(c, j)) = c.image[j])
        BY <1>12, <2>1
    <2>3. Spot(c, j) \notin Z
        BY <1>9, <1>18
    <2>4. Cell(w, Spot(c, j)) = Cell(e, Spot(c, j)) /\ Cell(v, Spot(c, j)) = Cell(d, Spot(c, j))
        BY <1>11, <2>2, <2>3
    <2> QED BY <1>8, <2>1, <2>2, <2>4
<1>19. ASSUME NEW j \in 1 .. Len(c.image), Which(j) <= c.k
       PROVE  Cell(e, Spot(c, j)) = IF Which(j) = c.k THEN c.image[j] ELSE Cell(d, Spot(c, j))
    <2>1. Which(j) <= Len(c.chain)
        BY <1>5, <1>7, <1>12, <1>19
    <2> QED BY <1>8, <1>12, <2>1
<1> QED BY <1>3, <1>7, <1>16, <1>17, <1>18, <1>19

\* A step of writing a directory keeps the invariant.
LEMMA StoreKept ==
    ASSUME NEW f \in Table, NEW d \in Disk, NEW c \in CallSet, CallInv(f, d, c), c.at = "store",
           NEW e, Stores(d, e, c)
    PROVE  LET c2 == IF c.k < ClustersFor(Len(c.image)) THEN [c EXCEPT !.k = @ + 1]
                     ELSE IF c.op = "mkdir" THEN Allocate(c, "dots") ELSE [c EXCEPT !.at = "done"]
           IN  c2 \in CallSet /\ CallInv(f, e, c2)
<1> DEFINE v == View(f, d, c)
           N == ClustersFor(Len(c.image))
<1>1. Stage(c) = "store" /\ c.op \in {"create", "mkdir", "unlink", "rmdir"} /\ c.op # "write"
    BY CallIs, Zenon DEF CallInv, Stage, StagesOf
<1>2. MakeInv(f, d, c) /\ ImageInv(f, v, c) /\ FitInv(c) /\ (c.op \in Drops => DropInv(f, c))
    BY <1>1 DEF CallInv, MakeInv
<1>3. c.k \in 1 .. N
    BY <1>2 DEF FitInv
<1>4. Len(c.image) \in Nat /\ N \in Nat /\ c.ent.off \in Nat /\ c.ent.off + 1 \in 1 .. Len(c.image)
    <2>1. Len(c.image) \in Nat /\ c.ent.off \in Nat
        BY CallIs, LenProperties
    <2>2. c.ent.off < Len(c.image)
        BY <1>2 DEF ImageInv
    <2>3. ClustersFor(Len(c.image)) \in Nat
        BY <2>1, ClustersForIs
    <2>4. c.ent.off + 1 \in 1 .. Len(c.image)
        BY <2>1, <2>2
    <2> QED BY <2>1, <2>3, <2>4
\* The cell of the new entry, once its cluster is written.
<1>5. ASSUME NEW w, Shows(f, e, w, c), Which(c.ent.off + 1) <= c.k
      PROVE  Cell(e, Spot(c, c.ent.off + 1)) = c.image[c.ent.off + 1]
    <2>1. Cell(e, Spot(c, c.ent.off + 1)) =
             IF Which(c.ent.off + 1) = c.k THEN c.image[c.ent.off + 1]
             ELSE Cell(d, Spot(c, c.ent.off + 1))
        BY <1>4, <1>5, StoreShows
    <2>2. Which(c.ent.off + 1) \in Nat
        BY <1>4, PlaceOfCell
    <2>3. Which(c.ent.off + 1) < c.k => Cell(d, Spot(c, c.ent.off + 1)) = c.image[c.ent.off + 1]
        BY <1>2 DEF MakeInv
    <2> QED BY <1>3, <1>4, <1>5, <2>1, <2>2, <2>3
<1>6. CASE c.k < N
    <2> DEFINE c2 == [c EXCEPT !.k = @ + 1]
    <2>1. c2 \in CallSet
        <3>1. c.k + 1 \in Nat
            BY <1>3, <1>4
        <3> QED BY <3>1, Zenon DEF CallSet
    <2>2. /\ c2.op = c.op /\ c2.at = "store" /\ c2.new = c.new /\ c2.ent = c.ent /\ c2.k = c.k + 1
          /\ c2.chain = c.chain /\ c2.image = c.image /\ c2.dir = c.dir
          /\ c2.off = c.off /\ c2.left = c.left /\ c2.next = c.next
        BY DEF CallSet
    <2>3. c2.k \in 1 .. N /\ \A i \in Nat : i < c2.k => i <= c.k
        BY <1>3, <1>4, <1>6, <2>2
    <2> HIDE DEF c2
    <2> DEFINE w == View(f, e, c2)
    <2>4. Shows(f, e, w, c)
        BY <2>1, <2>2 DEF Shows
    <2>5. Stage(c2) = "store"
        BY <2>2 DEF Stage
    <2>6. /\ Sound(f, w) /\ DirOk(f, w, c)
          /\ \A j \in 1 .. Len(c.image) :
                IsEntry(c.image[j]) =>
                   Blank(c.image[j]) \/ (Which(j) <= Len(c.chain) /\ c.image[j] = Cell(w, Spot(c, j)))
          /\ N <= Len(c.chain)
        BY <2>4, StoreShows
    <2> HIDE DEF w
    <2>7. ImageInv(f, w, c2)
        <3>1. \A j : Spot(c2, j) = Spot(c, j)
            BY <2>2 DEF Spot
        <3> QED BY <1>2, <2>2, <2>6, <3>1 DEF ImageInv
    <2>8. FitInv(c2)
        BY <1>2, <2>2, <2>3, <2>5, <2>6 DEF FitInv
    <2>9. Which(c2.ent.off + 1) < c2.k =>
             Cell(e, Spot(c2, c2.ent.off + 1)) = c2.image[c2.ent.off + 1]
        <3>1. Which(c.ent.off + 1) \in Nat
            BY <1>4, PlaceOfCell
        <3>2. Which(c.ent.off + 1) < c2.k => Cell(e, Spot(c, c.ent.off + 1)) = c.image[c.ent.off + 1]
            BY <1>5, <2>3, <2>4, <3>1
        <3> QED BY <2>2, <3>2 DEF Spot
    <2>10. MakeInv(f, e, c2)
        <3>1. c2.op = "mkdir" => c2.ent.kind = "dir" /\ c2.ent.size = 0
            BY <1>2, <2>2 DEF MakeInv
        <3> QED BY <2>2, <2>5, <2>7, <2>8, <2>9, <3>1 DEF MakeInv, w
    <2>11. DirOk(f, w, c2) /\ AllocInv(f, e, c2) /\ (c2.op \in Drops => DropInv(f, c2))
        BY <1>2, <2>2, <2>6 DEF DirOk, AllocInv, DropInv, SlotInDir
    <2>12. "store" \in StagesOf(c2.op)
        BY <1>1, <2>2, Zenon DEF CallInv
    <2>13. CallInv(f, e, c2)
        BY <1>1, <2>2, <2>5, <2>6, <2>10, <2>11, <2>12 DEF CallInv, w
    <2> QED BY <1>6, <2>1, <2>13 DEF c2
<1>7. CASE ~(c.k < N)
    <2>1. c.k = N
        BY <1>3, <1>4, <1>7
    <2>2. Shows(f, e, e, c)
        BY <2>1 DEF Shows
    <2>3. Sound(f, e) /\ DirOk(f, e, c) /\ N <= Len(c.chain) /\ c.chain = ChainOf(f, c.dir)
        BY <2>2, StoreShows
    <2>4. CASE c.op # "mkdir"
        <3>1. [c EXCEPT !.at = "done"] \in CallSet /\ CallInv(f, e, [c EXCEPT !.at = "done"])
            BY <2>3, EndKept
        <3> QED BY <1>7, <2>4, <3>1
    <2>5. CASE c.op = "mkdir"
        <3> DEFINE c2 == Allocate(c, "dots")
        <3>1. c2 \in CallSet
            BY AtsAre DEF CallSet, Allocate
        <3>2. /\ c2.op = "mkdir" /\ c2.at = "find" /\ c2.next = "dots" /\ c2.ent = c.ent
              /\ c2.dir = c.dir
            BY <2>5 DEF CallSet, Allocate
        <3> HIDE DEF c2
        <3>3. Stage(c2) = "dots" /\ View(f, e, c2) = e
            BY <3>2 DEF Stage, View, Drops
        <3>4. SlotInDir(f, c)
            <4>1. Len(c.image) <= N * CellsPerCluster
                BY <1>4, ClustersForIs
            <4>2. Whole(f, c.dir)
                BY <2>3, CallDir
            <4>3. Len(c.chain) \in Nat
                BY <2>3, <4>2, WholeIs
            <4>4. Len(c.image) <= Len(c.chain) * CellsPerCluster
                BY <1>4, <2>3, <4>3, ClustersForIs
            <4>5. c.ent.off < Len(c.image) /\ Len(c.chain) * CellsPerCluster \in Nat
                BY <1>4, <4>3, Times
            <4> QED BY <1>4, <2>3, <4>4, <4>5 DEF SlotInDir
        <3>5. Which(c.ent.off + 1) <= c.k
            <4>1. Len(c.image) <= N * CellsPerCluster
                BY <1>4, ClustersForIs
            <4>2. c.ent.off + 1 \in Nat \ {0} /\ c.ent.off + 1 <= N * CellsPerCluster
                <5>1. N * CellsPerCluster \in Nat
                    BY <1>4, Times
                <5> HIDE DEF N
                <5> QED BY <1>4, <4>1, <5>1
            <4> QED BY <1>4, <2>1, <4>2, PlaceInChain
        <3>6. PlaceOf(f, c.ent) = Spot(c, c.ent.off + 1)
            BY <2>3 DEF PlaceOf, Spot, DirOk
        <3>7. Cell(e, PlaceOf(f, c.ent)) = c.image[c.ent.off + 1]
            BY <1>5, <2>2, <3>5, <3>6
        <3>8. c.image[c.ent.off + 1].kind = "dir"
            BY <1>2, <2>5 DEF ImageInv
        <3>9. SlotInDir(f, c2) /\ Cell(e, PlaceOf(f, c2.ent)).kind = "dir" /\ DirOk(f, e, c2)
            BY <2>3, <3>2, <3>4, <3>7, <3>8 DEF SlotInDir, DirOk
        <3>10. c2.ent.kind = "dir" /\ c2.ent.size = 0
            BY <1>2, <2>5, <3>2 DEF MakeInv
        <3>11. MakeInv(f, e, c2)
            <4>1. FitInv(c2)
                BY <3>2, <3>3 DEF FitInv
            <4> QED BY <3>2, <3>3, <3>9, <3>10, <4>1 DEF MakeInv
        <3>12. AllocInv(f, e, c2)
            BY <3>2 DEF AllocInv
        <3>13. CallInv(f, e, c2)
            BY <2>3, <3>2, <3>3, <3>9, <3>11, <3>12 DEF CallInv, StagesOf, Drops
        <3> QED BY <1>7, <2>5, <3>1, <3>13 DEF c2
    <2> QED BY <2>4, <2>5
<1> QED BY <1>6, <1>7

-----------------------------------------------------------------------------
(* writeAtOffset.                                                          *)

\* What the invariant says of a write: its entry on the disk, its chain.
LEMMA WriteIs ==
    ASSUME NEW f \in Table, NEW d \in Disk, NEW c \in CallSet, CallInv(f, d, c), c.op = "write",
           c.at \notin {"done", "failed"}
    PROVE  LET x == PlaceOf(f, c.ent)  a == c.ent.first IN
           /\ Sound(f, d) /\ View(f, d, c) = d /\ DirOk(f, d, c) /\ AllocInv(f, d, c)
           /\ WriteInv(f, d, c) /\ Stage(c) \in StagesOf("write")
           /\ Whole(f, c.dir) /\ c.ent.dir = c.dir /\ SlotInDir(f, c)
           /\ x \in EntryPlaces(f, d) /\ x \in Places(f, d) /\ x \in Spots /\ x \in Holders(f, d)
           /\ Cell(d, x).kind = "file" /\ First(d, x) = a /\ Held(f, d, x) = Own(f, a)
           /\ a = 0 => ChainOf(f, a) = <<>> /\ c.ent.size = 0
           /\ a # 0 => Whole(f, a)
           /\ Len(ChainOf(f, a)) \in Nat /\ c.ent.size <= Len(ChainOf(f, a)) * CellsPerCluster
           /\ \A z \in Places(f, d) : z[1] \notin Own(f, a)
<1> DEFINE x == PlaceOf(f, c.ent)
           a == c.ent.first
<1>1. Stage(c) \in StagesOf("write") /\ View(f, d, c) = d
    <2>1. Stage(c) \in StagesOf("write")
        BY DEF CallInv
    <2>2. c.at \notin {"extend", "store"} /\ c.op \notin Drops
        BY <2>1 DEF StagesOf, Stage, Drops
    <2> QED BY <2>1, <2>2 DEF View
<1>2. Sound(f, d) /\ DirOk(f, d, c) /\ AllocInv(f, d, c) /\ WriteInv(f, d, c)
    BY <1>1 DEF CallInv
<1>3. SlotInDir(f, c) /\ Cell(d, x).kind = "file" /\ Cell(d, x).first = a /\ Cell(d, x).size = c.ent.size
    BY <1>2 DEF WriteInv, FileInv
<1>4. Whole(f, c.dir) /\ x \in Places(f, d) /\ x \in Spots /\ c.ent.dir = c.dir
    BY <1>2, <1>3, CallDir DEF DirOk
<1>5. x \in EntryPlaces(f, d) /\ x \in Holders(f, d)
    BY <1>3, <1>4 DEF EntryPlaces, Holders, IsEntry
<1>6. First(d, x) = a /\ Held(f, d, x) = Own(f, a)
    BY <1>3, <1>4, PlaceIs
<1>7. \A z \in Places(f, d) : z[1] \notin Own(f, a)
    BY <1>2, <1>3, <1>5, FileNoPlace
<1>8. SlotOk(f, Cell(d, x)) /\ c.ent.size \in Nat
    BY <1>2, <1>5, CallIs DEF Sound
<1>9. CASE a = 0
    <2>1. ChainOf(f, a) = <<>> /\ Len(ChainOf(f, a)) = 0
        BY <1>9, NoChain
    <2>2. ~Whole(f, a)
        BY <1>9, WholeIs, Geometry
    <2>3. c.ent.size = 0
        BY <1>3, <1>8, <2>2 DEF SlotOk, Blank
    <2>4. 0 <= 0 * CellsPerCluster
        BY Geometry
    <2>5. Len(ChainOf(f, a)) \in Nat /\ c.ent.size <= Len(ChainOf(f, a)) * CellsPerCluster
        BY <2>1, <2>3, <2>4
    <2> QED BY <1>1, <1>2, <1>3, <1>4, <1>5, <1>6, <1>7, <1>9, <2>1, <2>3, <2>5
<1>10. CASE a # 0
    <2>1. Whole(f, a) /\ c.ent.size <= Len(ChainOf(f, a)) * CellsPerCluster
        BY <1>3, <1>8, <1>10 DEF SlotOk, Blank
    <2>2. Len(ChainOf(f, a)) \in Nat
        BY <2>1, WholeIs
    <2> QED BY <1>1, <1>2, <1>3, <1>4, <1>5, <1>6, <1>7, <1>10, <2>1, <2>2
<1> QED BY <1>9, <1>10

\* What makes up the invariant of a write.
LEMMA WriteCall ==
    ASSUME NEW f, NEW d, NEW c, c.op = "write", Stage(c) \in StagesOf("write"),
           c.at \notin {"extend", "store"},
           Sound(f, d), DirOk(f, d, c), AllocInv(f, d, c), WriteInv(f, d, c)
    PROVE  CallInv(f, d, c)
<1>1. c.op \notin Drops
    BY DEF Drops
<1>2. View(f, d, c) = d
    BY <1>1 DEF View
<1> QED BY <1>1, <1>2 DEF CallInv

\* flushEntry, for a file.
LEMMA FlushFile ==
    ASSUME NEW f \in Table, NEW d \in Disk, NEW c \in CallSet, CallInv(f, d, c), c.op = "write",
           c.at \notin {"done", "failed"},
           NEW s \in SlotCell, s.kind = "file", SlotOk(f, s),
           s.first = c.ent.first \/ (Unowned(f, d, s.first) /\ f[s.first] = Eoc)
    PROVE  LET e == Put(d, PlaceOf(f, c.ent), s) IN
           /\ e \in Disk /\ Cell(e, PlaceOf(f, c.ent)) = s
           /\ Sound(f, e) /\ DirOk(f, e, c)
<1> DEFINE x == PlaceOf(f, c.ent)
           e == Put(d, x, s)
<1>1. /\ Sound(f, d) /\ DirOk(f, d, c) /\ x \in Places(f, d) /\ IsEntry(Cell(d, x))
      /\ Cell(d, x).kind = "file" /\ Cell(d, x).first = c.ent.first
    BY WriteIs, PlaceIs DEF IsEntry
<1>2. /\ e \in Disk /\ Cell(e, x) = s /\ Sound(f, e)
      /\ \A y \in Spots : y # x => Cell(e, y) = Cell(d, y)
    <2> HIDE DEF x
    <2> QED BY <1>1, Flush
<1> HIDE DEF e
<1>3. PICK y \in Dirs(f, d) : First(d, y) = c.dir
    BY <1>1 DEF DirOk
<1>4. y \in Dirs(f, e) /\ First(e, y) = c.dir
    <2>1. CASE y = TheRoot
        BY <1>3, <2>1, RootIs
    <2>2. CASE y # TheRoot
        <3>1. y \in Spots /\ y[1] \in Own(f, Root) /\ IsDir(Cell(d, y))
            BY <1>3, <2>2 DEF Dirs
        <3>2. Cell(e, y) = Cell(d, y)
            BY <1>1, <1>2, <3>1 DEF IsDir
        <3> QED BY <1>3, <3>1, <3>2, SpotIs DEF Dirs
    <2> QED BY <2>1, <2>2
<1>5. DirOk(f, e, c)
    BY <1>1, <1>3, <1>4 DEF DirOk
<1> QED BY <1>2, <1>5 DEF e

\* A cluster is linked to the file's chain.
LEMMA LinkEnds ==
    ASSUME NEW f \in Table, NEW d \in Disk, NEW c \in CallSet, CallInv(f, d, c), c.op = "write",
           c.at \in {"linkmore", "link"}, c.ent.first # 0,
           NEW g, Changes(f, g, ChainOf(f, c.ent.first)[Len(ChainOf(f, c.ent.first))], c.new)
    PROVE  LET a == c.ent.first IN
           /\ Sound(g, d) /\ DirOk(g, d, c) /\ PlaceOf(g, c.ent) = PlaceOf(f, c.ent)
           /\ SlotInDir(g, c)
           /\ ChainOf(g, a) = Append(ChainOf(f, a), c.new)
           /\ Len(ChainOf(g, a)) = Len(ChainOf(f, a)) + 1
           /\ ChainOf(g, a)[Len(ChainOf(f, a)) + 1] = c.new
<1> DEFINE x == PlaceOf(f, c.ent)
           a == c.ent.first
<1>1. /\ Sound(f, d) /\ DirOk(f, d, c) /\ x \in Holders(f, d) /\ First(d, x) = a
      /\ Cell(d, x).kind = "file" /\ SlotInDir(f, c) /\ c.ent.dir = c.dir /\ AllocInv(f, d, c)
      /\ x # TheRoot
    BY WriteIs, SpotIs
<1>2. f[c.new] = Eoc /\ Unowned(f, d, c.new)
    BY <1>1 DEF AllocInv
<1>3. /\ g[ChainOf(f, a)[Len(ChainOf(f, a))]] = c.new
      /\ \A z \in Clusters : z # ChainOf(f, a)[Len(ChainOf(f, a))] => g[z] = f[z]
    BY DEF Changes
<1> HIDE DEF x
<1>4. /\ Sound(g, d)
      /\ ChainOf(g, First(d, x)) = Append(ChainOf(f, First(d, x)), c.new)
      /\ Len(ChainOf(g, First(d, x))) = Len(ChainOf(f, First(d, x))) + 1
      /\ ChainOf(g, First(d, x))[Len(ChainOf(f, First(d, x))) + 1] = c.new
      /\ \A z \in Holders(f, d) : z # x => ChainOf(g, First(d, z)) = ChainOf(f, First(d, z))
      /\ \A z \in Dirs(f, d) : z \in Dirs(g, d) /\ First(d, z) = First(d, z)
    <2>1. First(d, x) # 0 /\ ~(x = TheRoot \/ Cell(d, x).kind = "dir")
        BY <1>1
    <2>2. /\ g[ChainOf(f, First(d, x))[Len(ChainOf(f, First(d, x)))]] = c.new
          /\ \A z \in Clusters : z # ChainOf(f, First(d, x))[Len(ChainOf(f, First(d, x)))] => g[z] = f[z]
        BY <1>1, <1>3
    <2>3. \A z \in Places(f, d) : Cell(d, z) = Cell(d, z)
        OBVIOUS
    <2>4. x = TheRoot \/ Cell(d, x).kind = "dir" => \A i \in Cols : ~IsEntry(d[c.new][i])
        BY <2>1
    <2>5. Sound(f, d) /\ x \in Holders(f, d) /\ First(d, x) # 0
        BY <1>1, <2>1
    <2> QED BY ONLY f \in Table, d \in Disk, <2>5, <1>2, <2>2, <2>3, <2>4, Link
<1>5. PICK y \in Dirs(f, d) : First(d, y) = c.dir /\ y \in Holders(f, d)
    BY <1>1, CallDir
<1>6. y # x
    <2>1. y = TheRoot \/ IsDir(Cell(d, y))
        BY <1>5, PlaceIs
    <2> QED BY <1>1, <2>1 DEF IsDir
<1>7. ChainOf(g, c.dir) = ChainOf(f, c.dir)
    BY <1>4, <1>5, <1>6
<1>8. PlaceOf(g, c.ent) = PlaceOf(f, c.ent) /\ SlotInDir(g, c)
    BY <1>1, <1>7 DEF PlaceOf, SlotInDir
<1>9. DirOk(g, d, c)
    BY <1>1, <1>4, <1>5 DEF DirOk
<1> QED BY <1>1, <1>4, <1>8, <1>9

\* What a step of a write has to show: where the file's bytes are.
Alike(c, c2) ==
    c2.op = "write" /\ c2.dir = c.dir /\ c2.ent = c.ent /\ c2.size = c.size
\* The same with the entry flushed.
Flushed(c, s, c2) ==
    /\ c2.op = "write" /\ c2.dir = c.dir /\ c2.size = c.size
    /\ c2.ent.dir = c.ent.dir /\ c2.ent.off = c.ent.off /\ c2.ent.kind = "file"
    /\ c2.ent.first = s.first /\ c2.ent.size = s.size
\* Where a write goes on.
GoesOn(c2) ==
    \/ c2.at \in {"more", "fill", "grow", "put", "size"}
    \/ c2.at = "find" /\ c2.next \in {"linkmore", "link"}

\* Such a step asks nothing of the clusters.
LEMMA GoesOnIs ==
    ASSUME NEW f, NEW d, NEW c2, GoesOn(c2)
    PROVE  Stage(c2) \in StagesOf("write") /\ c2.at \notin {"extend", "store"} /\ AllocInv(f, d, c2)
<1>1. CASE c2.at \in {"more", "fill", "grow", "put", "size"}
    BY <1>1 DEF Stage, StagesOf, AllocInv
<1>2. CASE c2.at = "find" /\ c2.next \in {"linkmore", "link"}
    BY <1>2 DEF Stage, StagesOf, AllocInv
<1> QED BY <1>1, <1>2 DEF GoesOn

\* A write of the file's own bytes.
LEMMA RowKept ==
    ASSUME NEW f \in Table, NEW d \in Disk, NEW c \in CallSet, CallInv(f, d, c), c.op = "write",
           c.at \notin {"done", "failed"},
           NEW e, e = d \/ (\E u \in Own(f, c.ent.first) : Rewrites(d, e, u)),
           NEW c2, Alike(c, c2), GoesOn(c2), SpanInv(f, c2)
    PROVE  CallInv(f, e, c2)
<1> DEFINE x == PlaceOf(f, c.ent)
<1>1. /\ Sound(f, d) /\ DirOk(f, d, c) /\ WriteInv(f, d, c)
      /\ x \in Places(f, d) /\ \A z \in Places(f, d) : z[1] \notin Own(f, c.ent.first)
    BY WriteIs
<1>2. Sound(f, e) /\ DirOk(f, e, c) /\ Cell(e, x) = Cell(d, x)
    <2>1. CASE e = d
        BY <1>1, <2>1
    <2>2. CASE \E u \in Own(f, c.ent.first) : Rewrites(d, e, u)
        <3>1. PICK u \in Own(f, c.ent.first) : Rewrites(d, e, u)
            BY <2>2
        <3>2. \A z \in Places(f, d) : z[1] # u
            BY <1>1, <3>1
        <3> QED BY <1>1, <3>1, <3>2, RowFrame
    <2> QED BY <2>1, <2>2
<1>3. DirOk(f, e, c2) /\ FileInv(f, e, c2) /\ c2.op = "write"
    BY <1>1, <1>2 DEF Alike, DirOk, WriteInv, FileInv, SlotInDir
<1> QED BY <1>2, <1>3, GoesOnIs, WriteCall DEF WriteInv

\* A write of the file's entry, with the chain it had or a new one.
LEMMA FlushKept ==
    ASSUME NEW f \in Table, NEW d \in Disk, NEW c \in CallSet, CallInv(f, d, c), c.op = "write",
           c.at \notin {"done", "failed"},
           NEW s \in SlotCell, s.kind = "file", SlotOk(f, s),
           s.first = c.ent.first \/ (Unowned(f, d, s.first) /\ f[s.first] = Eoc),
           NEW c2, Flushed(c, s, c2), GoesOn(c2), SpanInv(f, c2)
    PROVE  CallInv(f, Put(d, PlaceOf(f, c.ent), s), c2)
<1> DEFINE x == PlaceOf(f, c.ent)
           e == Put(d, x, s)
<1>1. WriteInv(f, d, c) /\ SlotInDir(f, c)
    BY WriteIs
<1>2. e \in Disk /\ Cell(e, x) = s /\ Sound(f, e) /\ DirOk(f, e, c)
    BY FlushFile
<1> HIDE DEF e
<1>3. PlaceOf(f, c2.ent) = x
    BY DEF Flushed, PlaceOf
<1> HIDE DEF x
<1>4. DirOk(f, e, c2) /\ FileInv(f, e, c2) /\ c2.op = "write"
    BY <1>1, <1>2, <1>3 DEF Flushed, DirOk, WriteInv, FileInv, SlotInDir
<1>5. CallInv(f, e, c2)
    BY <1>2, <1>4, GoesOnIs, WriteCall DEF WriteInv
<1> QED BY <1>5 DEF e, x

\* A cluster is linked to the file's last one.
LEMMA LinkKept ==
    ASSUME NEW f \in Table, NEW d \in Disk, NEW c \in CallSet, CallInv(f, d, c), c.op = "write",
           c.at \in {"linkmore", "link"}, c.ent.first # 0,
           NEW g, Changes(f, g, ChainOf(f, c.ent.first)[Len(ChainOf(f, c.ent.first))], c.new),
           NEW c2, Alike(c, c2), GoesOn(c2), SpanInv(g, c2)
    PROVE  CallInv(g, d, c2)
<1>1. WriteInv(f, d, c)
    BY WriteIs
<1>2. Sound(g, d) /\ DirOk(g, d, c) /\ PlaceOf(g, c.ent) = PlaceOf(f, c.ent) /\ SlotInDir(g, c)
    BY LinkEnds
<1>3. DirOk(g, d, c2) /\ FileInv(g, d, c2) /\ c2.op = "write"
    BY <1>1, <1>2 DEF Alike, DirOk, WriteInv, FileInv, SlotInDir
<1> QED BY <1>2, <1>3, GoesOnIs, WriteCall DEF WriteInv

\* The arithmetic of append: what is left after the clusters filled so far.
LEMMA FillsUp ==
    ASSUME NEW k \in Nat, NEW b \in Nat, NEW m \in Nat, NEW r \in 0 .. k - 1, NEW l \in Nat,
           NEW n, b + k <= m, n = (IF k - r < l THEN k - r ELSE l)
    PROVE  n <= l /\ b + r + l <= m + (l - n)
OBVIOUS

\* append: what is left of the last cluster is filled up.
LEMMA AppendStartKept ==
    ASSUME NEW f \in Table, NEW d \in Disk, NEW c \in CallSet, CallInv(f, d, c), c.op = "write",
           c.at = "append", NEW e, NEW n \in Nat,
           LET s == ChainOf(f, c.ent.first)
               used == c.ent.size % CellsPerCluster
           IN  \/ e = d /\ n = 0
               \/ Rewrites(d, e, s[Len(s)]) /\ s # <<>> /\ used # 0
                  /\ n = Less(CellsPerCluster - used, c.left)
    PROVE  LET s == ChainOf(f, c.ent.first)
               c2 == [c EXCEPT !.at = "more", !.last = IF s = <<>> THEN 0 ELSE s[Len(s)],
                               !.left = c.left - n]
           IN  c2 \in CallSet /\ CallInv(f, e, c2)
<1> DEFINE a == c.ent.first
           s == ChainOf(f, a)
           z == c.ent.size
           used == z % CellsPerCluster
           c2 == [c EXCEPT !.at = "more", !.last = IF s = <<>> THEN 0 ELSE s[Len(s)],
                           !.left = c.left - n]
<1>1. /\ SpanInv(f, c) /\ Len(s) \in Nat /\ z <= Len(s) * CellsPerCluster
      /\ (a = 0 => s = <<>>) /\ (a # 0 => Whole(f, a))
    BY WriteIs DEF WriteInv
<1>2. c.off = z + c.left /\ z \in Nat /\ c.left \in Nat /\ c.off \in Nat
    BY <1>1, CallIs DEF SpanInv
<1>3. /\ a # 0 => s # <<>> /\ s[Len(s)] \in Own(f, a) /\ s[Len(s)] \in Nat
    <2>1. SUFFICES ASSUME a # 0 PROVE s # <<>> /\ s[Len(s)] \in Own(f, a) /\ s[Len(s)] \in Nat
        OBVIOUS
    <2>2. Whole(f, a)
        BY <1>1, <2>1
    <2>3. Len(s) \in 1 .. Len(s) /\ s # <<>> /\ Own(f, a) \subseteq Clusters
        BY <2>2, WholeIs
    <2> QED BY <2>2, <2>3, WholeIs, Geometry
<1>4. n <= c.left /\ c.off <= Len(s) * CellsPerCluster + (c.left - n)
    <2>1. CASE n = 0
        <3>1. Len(s) * CellsPerCluster \in Nat
            BY <1>1, Times
        <3> QED BY <1>1, <1>2, <2>1, <3>1
    <2>2. CASE used # 0 /\ n = Less(CellsPerCluster - used, c.left)
        <3>1. PICK q \in Nat, r \in 0 .. CellsPerCluster - 1 :
                 used = r /\ z = q * CellsPerCluster + r
            BY <1>2, Divided
        <3>2. q * CellsPerCluster \in Nat /\ Len(s) * CellsPerCluster \in Nat
            BY <1>1, <3>1, Times
        <3>3. q < Len(s)
            <4>1. SUFFICES ASSUME Len(s) <= q PROVE FALSE
                BY <1>1, <3>1
            <4>2. Len(s) * CellsPerCluster <= q * CellsPerCluster
                BY <1>1, <3>1, <4>1, Times
            <4> DEFINE A == q * CellsPerCluster
                       B == Len(s) * CellsPerCluster
            <4>3. A \in Nat /\ B \in Nat /\ B <= A /\ A + r <= B
                BY <1>1, <3>1, <3>2, <4>2
            <4>5. r \in Nat
                BY Geometry
            <4> HIDE DEF A, B
            <4>4. r = 0
                BY ONLY <4>3, <4>5
            <4> QED BY <2>2, <3>1, <4>4
        <3>4. q * CellsPerCluster + CellsPerCluster <= Len(s) * CellsPerCluster
            BY <1>1, <3>1, <3>3, Times
        <3>5. n = (IF CellsPerCluster - r < c.left THEN CellsPerCluster - r ELSE c.left)
            BY <2>2, <3>1 DEF Less
        <3>6. n <= c.left /\ q * CellsPerCluster + r + c.left <= Len(s) * CellsPerCluster + (c.left - n)
            <4>1. ASSUME NEW b \in Nat, NEW m \in Nat, b + CellsPerCluster <= m
                  PROVE  n <= c.left /\ b + r + c.left <= m + (c.left - n)
                <5>1. CellsPerCluster \in Nat /\ c.left \in Nat
                    BY <1>2, Geometry
                <5> QED BY ONLY <5>1, <3>1, <3>5, <4>1, FillsUp
            <4> QED BY <3>2, <3>4, <4>1
        <3> QED BY <1>2, <3>1, <3>6
    <2> QED BY <2>1, <2>2
<1>5. c.left - n \in Nat
    BY <1>2, <1>4
<1>6. c2 \in CallSet
    <2>1. (IF s = <<>> THEN 0 ELSE s[Len(s)]) \in Nat
        BY <1>1, <1>3
    <2> HIDE DEF s
    <2> QED BY <1>5, <2>1, AtsAre DEF CallSet
<1>7. /\ c2.op = "write" /\ c2.at = "more" /\ c2.dir = c.dir /\ c2.ent = c.ent /\ c2.size = c.size
      /\ c2.off = c.off /\ c2.left = c.left - n /\ c2.last = IF s = <<>> THEN 0 ELSE s[Len(s)]
    BY DEF CallSet
<1> HIDE DEF c2
<1>8. Alike(c, c2) /\ GoesOn(c2)
    BY <1>7 DEF Alike, GoesOn
<1>9. SpanInv(f, c2)
    <2>1. Stage(c2) = "more"
        BY <1>7 DEF Stage
    <2>2. c2.off <= Len(s) * CellsPerCluster + c2.left
        BY <1>4, <1>7
    <2>3. c2.last = IF a = 0 THEN 0 ELSE s[Len(s)]
        BY <1>1, <1>3, <1>7
    <2> HIDE DEF s
    <2> QED BY <1>7, <2>1, <2>2, <2>3 DEF SpanInv, s
<1>10. e = d \/ \E u \in Own(f, c.ent.first) : Rewrites(d, e, u)
    BY <1>1, <1>3
<1>11. CallInv(f, e, c2)
    BY <1>8, <1>9, <1>10, RowKept
<1> QED BY <1>6, <1>11 DEF c2

\* append: a new cluster, and zeros in it.
LEMMA AppendMoreKept ==
    ASSUME NEW f \in Table, NEW d \in Disk, NEW c \in CallSet, CallInv(f, d, c), c.op = "write",
           c.at = "more"
    PROVE  LET c2 == Allocate(c, "linkmore")
           IN  c2 \in CallSet /\ CallInv(f, d, c2)
<1> DEFINE c2 == Allocate(c, "linkmore")
<1>1. SpanInv(f, c)
    BY WriteIs DEF WriteInv
<1>2. c2 \in CallSet
    BY AtsAre DEF CallSet, Allocate
<1>3. /\ c2.op = "write" /\ c2.at = "find" /\ c2.next = "linkmore" /\ c2.dir = c.dir /\ c2.ent = c.ent
      /\ c2.size = c.size /\ c2.off = c.off /\ c2.left = c.left /\ c2.last = c.last
    BY DEF CallSet, Allocate
<1> HIDE DEF c2
<1>4. Stage(c2) = "linkmore" /\ Stage(c) = "more"
    BY <1>3 DEF Stage
<1>5. Alike(c, c2) /\ GoesOn(c2) /\ SpanInv(f, c2)
    BY <1>1, <1>3, <1>4 DEF Alike, GoesOn, SpanInv
<1>6. CallInv(f, d, c2)
    BY <1>5, RowKept
<1> QED BY <1>2, <1>6 DEF c2

\* append: the size is flushed.
LEMMA AppendEndKept ==
    ASSUME NEW f \in Table, NEW d \in Disk, NEW c \in CallSet, CallInv(f, d, c), c.op = "write",
           c.at = "more", ~(c.left > 0),
           NEW s \in SlotCell, s.kind = "file", s.first = c.ent.first, s.size = c.off
    PROVE  LET c2 == [c EXCEPT !.ent.size = c.off, !.chain = ChainOf(f, c.ent.first), !.at = "grow"]
           IN  c2 \in CallSet /\ CallInv(f, Put(d, PlaceOf(f, c.ent), s), c2)
<1> DEFINE a == c.ent.first
           c2 == [c EXCEPT !.ent.size = c.off, !.chain = ChainOf(f, a), !.at = "grow"]
<1>1. /\ SpanInv(f, c) /\ Len(ChainOf(f, a)) \in Nat /\ (a = 0 => ChainOf(f, a) = <<>>)
      /\ (a # 0 => Whole(f, a)) /\ FileInv(f, d, c) /\ c.left = 0 /\ c.off \in Nat
      /\ c.ent \in EntrySet
    <2>1. c.left \in Nat /\ c.off \in Nat /\ c.ent \in EntrySet
        BY CallIs
    <2>2. c.left = 0
        BY <2>1
    <2> QED BY <2>1, <2>2, WriteIs DEF WriteInv
<1>2. c.off <= Len(ChainOf(f, a)) * CellsPerCluster
    <2>1. Len(ChainOf(f, a)) * CellsPerCluster \in Nat
        BY <1>1, Times
    <2>2. c.off <= Len(ChainOf(f, a)) * CellsPerCluster + c.left
        BY <1>1 DEF SpanInv, Stage
    <2> QED BY <1>1, <2>1, <2>2
<1>3. SlotOk(f, s)
    <2>1. CASE a = 0
        <3>1. Len(ChainOf(f, a)) = 0
            BY <1>1, <2>1
        <3>2. c.off <= 0
            BY <1>2, <3>1, Geometry
        <3> QED BY <1>1, <2>1, <3>2 DEF SlotOk, Blank
    <2>2. CASE a # 0
        BY <1>1, <1>2, <2>2 DEF SlotOk
    <2> QED BY <2>1, <2>2
<1>4. ChainOf(f, a) \in Seq(Clusters)
    <2>1. <<>> \in Seq(Clusters)
        OBVIOUS
    <2>2. CASE a = 0
        BY <1>1, <2>1, <2>2
    <2>3. CASE a # 0
        BY <1>1, <2>3, WholeIs
    <2> QED BY <2>2, <2>3
<1>5. c2 \in CallSet
    <2>1. [c.ent EXCEPT !.size = c.off] \in EntrySet
        BY <1>1, CallIs DEF EntrySet
    <2> QED BY <1>4, <2>1, AtsAre DEF CallSet
<1>6. /\ c2.op = "write" /\ c2.at = "grow" /\ c2.dir = c.dir /\ c2.size = c.size
      /\ c2.chain = ChainOf(f, a) /\ c2.ent = [c.ent EXCEPT !.size = c.off]
    BY DEF CallSet
<1>7. /\ c2.ent.dir = c.ent.dir /\ c2.ent.off = c.ent.off /\ c2.ent.kind = c.ent.kind
      /\ c2.ent.first = a /\ c2.ent.size = c.off
    BY <1>1, <1>6 DEF EntrySet
<1> HIDE DEF c2
<1>8. Flushed(c, s, c2) /\ GoesOn(c2)
    BY <1>1, <1>6, <1>7 DEF Flushed, GoesOn, FileInv
<1>9. SpanInv(f, c2)
    BY <1>6, <1>7 DEF SpanInv, Stage
<1>10. CallInv(f, Put(d, PlaceOf(f, c.ent), s), c2)
    BY <1>3, <1>8, <1>9, FlushKept
<1> QED BY <1>5, <1>10 DEF c2

\* A call's entry with another first cluster, or another size.
LEMMA EntIs ==
    ASSUME NEW c \in CallSet, NEW n \in Nat
    PROVE  LET x == [c EXCEPT !.ent.first = n]
               y == [c EXCEPT !.ent.size = n]
           IN  /\ x \in CallSet /\ x.ent.first = n /\ x.ent.size = c.ent.size
               /\ y \in CallSet /\ y.ent.size = n /\ y.ent.first = c.ent.first
               /\ x.ent = [c.ent EXCEPT !.first = n] /\ y.ent = [c.ent EXCEPT !.size = n]
               /\ \A z \in {x, y} :
                     /\ z.ent.dir = c.ent.dir /\ z.ent.off = c.ent.off /\ z.ent.kind = c.ent.kind
                     /\ z.op = c.op /\ z.dir = c.dir /\ z.at = c.at /\ z.chain = c.chain /\ z.new = c.new
                     /\ z.left = c.left /\ z.off = c.off /\ z.size = c.size /\ z.k = c.k
                     /\ z.last = c.last /\ z.next = c.next /\ z.image = c.image
<1> DEFINE a == [c.ent EXCEPT !.first = n]
           b == [c.ent EXCEPT !.size = n]
<1>1. c.ent \in EntrySet
    BY CallIs
<1>2. /\ a \in EntrySet /\ a.first = n /\ a.size = c.ent.size /\ a.dir = c.ent.dir
      /\ a.off = c.ent.off /\ a.kind = c.ent.kind
    BY <1>1 DEF EntrySet
<1>3. /\ b \in EntrySet /\ b.first = c.ent.first /\ b.size = n /\ b.dir = c.ent.dir
      /\ b.off = c.ent.off /\ b.kind = c.ent.kind
    BY <1>1 DEF EntrySet
<1> DEFINE x == [c EXCEPT !.ent.first = n]
           y == [c EXCEPT !.ent.size = n]
<1>4. /\ x = [c EXCEPT !.ent = a] /\ y = [c EXCEPT !.ent = b]
    OBVIOUS
<1> HIDE DEF a, b, x, y
<1>5. /\ x \in CallSet /\ x.ent = a
      /\ x.op = c.op /\ x.dir = c.dir /\ x.at = c.at /\ x.chain = c.chain /\ x.new = c.new
      /\ x.left = c.left /\ x.off = c.off /\ x.size = c.size /\ x.k = c.k
      /\ x.last = c.last /\ x.next = c.next /\ x.image = c.image
    BY <1>2, <1>4 DEF CallSet
<1>6. /\ y \in CallSet /\ y.ent = b
      /\ y.op = c.op /\ y.dir = c.dir /\ y.at = c.at /\ y.chain = c.chain /\ y.new = c.new
      /\ y.left = c.left /\ y.off = c.off /\ y.size = c.size /\ y.k = c.k
      /\ y.last = c.last /\ y.next = c.next /\ y.image = c.image
    BY <1>3, <1>4 DEF CallSet
<1>7. x.ent = [c.ent EXCEPT !.first = n] /\ y.ent = [c.ent EXCEPT !.size = n]
    BY <1>5, <1>6 DEF a, b
<1> QED BY <1>2, <1>3, <1>5, <1>6, <1>7 DEF x, y

\* The first cluster of a file, linked by its entry.
LEMMA FirstIs ==
    ASSUME NEW f \in Table, NEW d \in Disk, NEW c \in CallSet, CallInv(f, d, c), c.op = "write",
           c.at \in {"linkmore", "link"}
    PROVE  /\ c.new \in Clusters /\ f[c.new] = Eoc /\ Unowned(f, d, c.new)
           /\ Whole(f, c.new) /\ ChainOf(f, c.new) = <<c.new>> /\ Len(ChainOf(f, c.new)) = 1
           /\ c.ent.first = 0 => \A s \in SlotCell :
                 s.first = c.new /\ s.size = c.ent.size => SlotOk(f, s)
           /\ c.at = "linkmore" => (c.last = 0 <=> c.ent.first = 0)
           /\ c.at = "link" => (c.chain = <<>> <=> c.ent.first = 0)
           /\ c.ent.first # 0 => ChainOf(f, c.ent.first) # <<>>
<1> DEFINE a == c.ent.first
           t == ChainOf(f, a)
<1>1. /\ AllocInv(f, d, c) /\ SpanInv(f, c) /\ (a = 0 => t = <<>> /\ c.ent.size = 0)
      /\ (a # 0 => Whole(f, a))
    BY WriteIs DEF WriteInv
<1>2. c.new \in Clusters /\ f[c.new] = Eoc /\ Unowned(f, d, c.new)
    BY <1>1 DEF AllocInv, Unowned
<1>3. Whole(f, c.new) /\ ChainOf(f, c.new) = <<c.new>> /\ Len(ChainOf(f, c.new)) = 1
    <2>1. Whole(f, c.new) /\ ChainOf(f, c.new) = <<c.new>>
        BY <1>2, WholeOne
    <2> QED BY <2>1
<1>4. ASSUME a = 0, NEW s \in SlotCell, s.first = c.new, s.size = c.ent.size PROVE SlotOk(f, s)
    <2>1. s.size = 0
        BY <1>1, <1>4
    <2>2. s.size <= Len(ChainOf(f, s.first)) * CellsPerCluster
        <3>1. Len(ChainOf(f, s.first)) = 1
            BY <1>3, <1>4
        <3>2. 0 <= 1 * CellsPerCluster
            BY Geometry
        <3> QED BY <2>1, <3>1, <3>2
    <2> QED BY <1>3, <1>4, <2>2 DEF SlotOk
<1>5. a # 0 => t # <<>> /\ t[Len(t)] # 0
    <2>1. SUFFICES ASSUME a # 0 PROVE t # <<>> /\ t[Len(t)] # 0
        OBVIOUS
    <2>2. Whole(f, a)
        BY <1>1, <2>1
    <2>3. Len(t) \in 1 .. Len(t) /\ t # <<>> /\ Own(f, a) \subseteq Clusters
        BY <2>2, WholeIs
    <2> QED BY <2>2, <2>3, WholeIs, Geometry
<1>6. c.at = "linkmore" => (c.last = 0 <=> a = 0)
    <2>1. c.at = "linkmore" => c.last = IF a = 0 THEN 0 ELSE t[Len(t)]
        BY <1>1 DEF SpanInv, Stage
    <2> QED BY <1>5, <2>1
<1>7. c.at = "link" => (c.chain = <<>> <=> a = 0)
    <2>1. c.at = "link" => c.chain = t
        BY <1>1 DEF SpanInv, Stage
    <2> QED BY <1>1, <1>5, <2>1
<1> QED BY <1>2, <1>3, <1>4, <1>5, <1>6, <1>7

\* append: the first cluster of a file goes to its entry.
LEMMA LinkMoreFirst ==
    ASSUME NEW f \in Table, NEW d \in Disk, NEW c \in CallSet, CallInv(f, d, c), c.op = "write",
           c.at = "linkmore", c.last = 0,
           NEW s \in SlotCell, s.kind = "file", s.first = c.new, s.size = c.ent.size
    PROVE  LET c2 == [[c EXCEPT !.ent.first = c.new] EXCEPT !.at = "fill"]
           IN  c2 \in CallSet /\ CallInv(f, Put(d, PlaceOf(f, c.ent), s), c2)
<1> DEFINE c1 == [c EXCEPT !.ent.first = c.new]
           c2 == [c1 EXCEPT !.at = "fill"]
<1>1. /\ SpanInv(f, c) /\ FileInv(f, d, c) /\ (c.ent.first = 0 => ChainOf(f, c.ent.first) = <<>>)
    BY WriteIs DEF WriteInv
<1>2. /\ c.ent.first = 0 /\ SlotOk(f, s) /\ Unowned(f, d, s.first) /\ f[s.first] = Eoc
      /\ ChainOf(f, c.new) = <<c.new>> /\ Len(ChainOf(f, c.new)) = 1
    BY FirstIs
<1>3. /\ c1 \in CallSet /\ c1.ent.first = c.new /\ c1.ent.size = c.ent.size
      /\ c1.ent.dir = c.ent.dir /\ c1.ent.off = c.ent.off /\ c1.ent.kind = c.ent.kind
      /\ c1.op = c.op /\ c1.dir = c.dir /\ c1.new = c.new
      /\ c1.left = c.left /\ c1.off = c.off /\ c1.size = c.size
    <2>1. c.new \in Nat
        BY CallIs
    <2> QED BY <2>1, EntIs
<1> HIDE DEF c1
<1>4. /\ c2 \in CallSet /\ c2.at = "fill" /\ c2.ent = c1.ent /\ c2.op = c1.op /\ c2.dir = c1.dir
      /\ c2.new = c1.new /\ c2.left = c1.left /\ c2.off = c1.off /\ c2.size = c1.size
    BY <1>3, AtsAre DEF CallSet
<1> HIDE DEF c2
<1>5. Flushed(c, s, c2) /\ GoesOn(c2)
    BY <1>1, <1>3, <1>4 DEF Flushed, GoesOn, FileInv
<1>6. SpanInv(f, c2)
    <2>1. c.off <= 0 * CellsPerCluster + c.left /\ c.left \in Nat /\ c.off \in Nat
        <3>1. Stage(c) = "linkmore" /\ Len(ChainOf(f, c.ent.first)) = 0
            BY <1>1, <1>2 DEF Stage
        <3>2. c.off <= Len(ChainOf(f, c.ent.first)) * CellsPerCluster + c.left
            BY <1>1, <3>1 DEF SpanInv
        <3> QED BY <3>1, <3>2, CallIs
    <2>2. c.off + CellsPerCluster <= 1 * CellsPerCluster + c.left
        BY <2>1, Geometry
    <2>3. ChainOf(f, c2.ent.first) = <<c2.new>> /\ Len(ChainOf(f, c2.ent.first)) = 1
        BY <1>2, <1>3, <1>4
    <2>4. ChainOf(f, c2.ent.first) # <<>> /\ ChainOf(f, c2.ent.first)[1] = c2.new
        BY <2>3
    <2>5. c2.off + CellsPerCluster <= Len(ChainOf(f, c2.ent.first)) * CellsPerCluster + c2.left
        BY <1>3, <1>4, <2>2, <2>3
    <2> QED BY <1>4, <2>3, <2>4, <2>5 DEF SpanInv, Stage
<1>7. CallInv(f, Put(d, PlaceOf(f, c.ent), s), c2)
    BY <1>2, <1>5, <1>6, FlushKept
<1> QED BY <1>4, <1>7 DEF c1, c2

\* append: a later cluster is linked to the last one.
LEMMA LinkMoreNext ==
    ASSUME NEW f \in Table, NEW d \in Disk, NEW c \in CallSet, CallInv(f, d, c), c.op = "write",
           c.at = "linkmore", c.last # 0, NEW g, Changes(f, g, c.last, c.new)
    PROVE  LET c2 == [c EXCEPT !.at = "fill"]
           IN  c.last \in Clusters /\ c2 \in CallSet /\ CallInv(g, d, c2)
<1> DEFINE a == c.ent.first
           t == ChainOf(f, a)
           c2 == [c EXCEPT !.at = "fill"]
<1>1. SpanInv(f, c) /\ a # 0 /\ Len(t) \in Nat /\ Whole(f, a)
    BY WriteIs, FirstIs DEF WriteInv
<1>2. c.last = t[Len(t)] /\ c.off <= Len(t) * CellsPerCluster + c.left
    BY <1>1 DEF SpanInv, Stage
<1>3. c.last \in Clusters
    <2>1. Len(t) \in 1 .. Len(t)
        BY <1>1, WholeIs
    <2> QED BY <1>1, <1>2, <2>1, WholeIs
<1>4. Changes(f, g, t[Len(t)], c.new)
    BY <1>2
<1>5. /\ ChainOf(g, a) = Append(t, c.new) /\ Len(ChainOf(g, a)) = Len(t) + 1
      /\ ChainOf(g, a)[Len(t) + 1] = c.new
    BY <1>1, <1>4, LinkEnds
<1>6. /\ c2 \in CallSet /\ c2.at = "fill" /\ c2.ent = c.ent /\ c2.op = "write" /\ c2.dir = c.dir
      /\ c2.new = c.new /\ c2.left = c.left /\ c2.off = c.off /\ c2.size = c.size
    BY AtsAre DEF CallSet
<1> HIDE DEF c2
<1>7. Alike(c, c2) /\ GoesOn(c2)
    BY <1>6 DEF Alike, GoesOn
<1>8. SpanInv(g, c2)
    <2>1. ChainOf(g, a) # <<>> /\ ChainOf(g, a)[Len(ChainOf(g, a))] = c.new
        BY <1>1, <1>5
    <2>2. c.off + CellsPerCluster <= Len(ChainOf(g, a)) * CellsPerCluster + c.left
        <3>1. /\ Len(t) * CellsPerCluster \in Nat
              /\ (Len(t) + 1) * CellsPerCluster = Len(t) * CellsPerCluster + CellsPerCluster
            BY <1>1, Times
        <3>2. c.off \in Nat /\ c.left \in Nat
            BY CallIs
        <3> QED BY <1>2, <1>5, <3>1, <3>2, Geometry
    <2> QED BY <1>6, <2>1, <2>2 DEF SpanInv, Stage
<1>9. CallInv(g, d, c2)
    BY <1>1, <1>4, <1>7, <1>8, LinkKept
<1> QED BY <1>3, <1>6, <1>9 DEF c2

\* append: the cluster that was linked is filled.
LEMMA FillMoreKept ==
    ASSUME NEW f \in Table, NEW d \in Disk, NEW c \in CallSet, CallInv(f, d, c), c.op = "write",
           c.at = "fill", NEW e, Rewrites(d, e, c.new)
    PROVE  LET c2 == [c EXCEPT !.at = "more", !.last = c.new, !.left = @ - Less(CellsPerCluster, @)]
           IN  c.new \in Clusters /\ c2 \in CallSet /\ CallInv(f, e, c2)
<1> DEFINE a == c.ent.first
           t == ChainOf(f, a)
           l == c.left - Less(CellsPerCluster, c.left)
           c2 == [c EXCEPT !.at = "more", !.last = c.new, !.left = @ - Less(CellsPerCluster, @)]
<1>1. /\ SpanInv(f, c) /\ Len(t) \in Nat /\ (a = 0 => t = <<>>) /\ (a # 0 => Whole(f, a))
    BY WriteIs DEF WriteInv
<1>2. /\ t # <<>> /\ c.new = t[Len(t)]
      /\ c.off + CellsPerCluster <= Len(t) * CellsPerCluster + c.left
    BY <1>1 DEF SpanInv
<1>3. a # 0 /\ Whole(f, a)
    BY <1>1, <1>2
<1>4. c.new \in Clusters /\ c.new \in Own(f, a)
    <2>1. Len(t) \in 1 .. Len(t)
        BY <1>3, WholeIs
    <2> QED BY <1>2, <1>3, <2>1, WholeIs
<1>5. c.off \in Nat /\ c.left \in Nat /\ c.new \in Nat
    BY CallIs
<1>6. l \in Nat /\ c.off <= Len(t) * CellsPerCluster + l
    <2>1. Len(t) * CellsPerCluster \in Nat
        BY <1>1, Times
    <2>2. ASSUME NEW m \in Nat, c.off + CellsPerCluster <= m + c.left
          PROVE  l \in Nat /\ c.off <= m + l
        BY <1>5, <2>2, Geometry DEF Less
    <2> HIDE DEF l
    <2> QED BY <1>2, <2>1, <2>2
<1>7. /\ c2 \in CallSet /\ c2.at = "more" /\ c2.ent = c.ent /\ c2.op = "write" /\ c2.dir = c.dir
      /\ c2.last = c.new /\ c2.left = l /\ c2.off = c.off /\ c2.size = c.size
    BY <1>5, <1>6, AtsAre DEF CallSet
<1> HIDE DEF c2
<1>8. Alike(c, c2) /\ GoesOn(c2)
    BY <1>7 DEF Alike, GoesOn
<1>9. SpanInv(f, c2)
    BY <1>2, <1>3, <1>6, <1>7 DEF SpanInv, Stage
<1>10. CallInv(f, e, c2)
    BY <1>4, <1>8, <1>9, RowKept
<1> QED BY <1>4, <1>7, <1>10 DEF c2

\* writeAtOffset: another cluster is allocated, or writing begins.
LEMMA GrowKept ==
    ASSUME NEW f \in Table, NEW d \in Disk, NEW c \in CallSet, CallInv(f, d, c), c.op = "write",
           c.at = "grow"
    PROVE  LET c2 == IF Len(c.chain) < ClustersFor(c.off + c.size) THEN Allocate(c, "link")
                     ELSE [c EXCEPT !.at = "put", !.k = c.off \div CellsPerCluster + 1]
           IN  c2 \in CallSet /\ CallInv(f, d, c2)
<1> DEFINE t == ChainOf(f, c.ent.first)
           N == ClustersFor(c.off + c.size)
<1>1. SpanInv(f, c) /\ Len(t) \in Nat /\ FileInv(f, d, c)
    BY WriteIs DEF WriteInv
<1>2. c.chain = t /\ c.size # 0
    BY <1>1 DEF SpanInv, FileInv, Stage
<1>3. c.off \in Nat /\ c.size \in Nat /\ c.off + c.size \in Nat /\ c.off + 1 <= c.off + c.size
    <2>1. c.off \in Nat /\ c.size \in Nat
        BY CallIs
    <2> QED BY <1>2, <2>1
<1>4. CASE Len(c.chain) < N
    <2> DEFINE c2 == Allocate(c, "link")
    <2>1. c2 \in CallSet
        BY AtsAre DEF CallSet, Allocate
    <2>2. /\ c2.op = "write" /\ c2.at = "find" /\ c2.next = "link" /\ c2.dir = c.dir
          /\ c2.ent = c.ent /\ c2.size = c.size /\ c2.chain = c.chain
        BY DEF CallSet, Allocate
    <2> HIDE DEF c2
    <2>3. Alike(c, c2) /\ GoesOn(c2) /\ SpanInv(f, c2)
        BY <1>2, <2>2 DEF Alike, GoesOn, SpanInv, Stage
    <2>4. CallInv(f, d, c2)
        BY <2>3, RowKept
    <2> QED BY <1>4, <2>1, <2>4 DEF c2
<1>5. CASE ~(Len(c.chain) < N)
    <2> DEFINE k == c.off \div CellsPerCluster + 1
               c2 == [c EXCEPT !.at = "put", !.k = k]
    <2>1. k = Which(c.off + 1)
        <3>1. (c.off + 1) - 1 = c.off
            BY <1>3
        <3>2. ((c.off + 1) - 1) \div CellsPerCluster = c.off \div CellsPerCluster
            BY <3>1, Zenon
        <3>3. Which(c.off + 1) = ((c.off + 1) - 1) \div CellsPerCluster + 1
            BY DEF Which
        <3> DEFINE q == ((c.off + 1) - 1) \div CellsPerCluster
        <3>4. q = c.off \div CellsPerCluster /\ Which(c.off + 1) = q + 1
            BY <3>2, <3>3
        <3> HIDE DEF q
        <3> QED BY <3>4
    <2>2. N \in Nat /\ N <= Len(t)
        <3>1. N \in Nat
            BY <1>3, ClustersForIs
        <3> QED BY <1>1, <1>2, <1>5, <3>1
    <2>3. k \in 1 .. N /\ k \in Nat
        <3>1. k \in Nat \ {0}
            BY <1>3, <2>1, PlaceOfCell
        <3>2. N * CellsPerCluster \in Nat /\ c.off + c.size <= N * CellsPerCluster
            BY <1>3, <2>2, Times, ClustersForIs
        <3>3. c.off + 1 <= N * CellsPerCluster
            <4> HIDE DEF N
            <4> QED BY <1>3, <3>2
        <3>4. k <= N
            BY <1>3, <2>1, <2>2, <3>3, PlaceInChain
        <3> QED BY <2>2, <3>1, <3>4
    <2>4. c2 \in CallSet
        <3> HIDE DEF k
        <3> QED BY <2>3, AtsAre DEF CallSet
    <2>5. /\ c2.op = "write" /\ c2.at = "put" /\ c2.dir = c.dir /\ c2.off = c.off
          /\ c2.ent = c.ent /\ c2.size = c.size /\ c2.chain = c.chain /\ c2.k = k
        BY DEF CallSet
    <2> HIDE DEF c2, k
    <2>6. Alike(c, c2) /\ GoesOn(c2)
        BY <2>5 DEF Alike, GoesOn
    <2>7. SpanInv(f, c2)
        BY <1>2, <2>2, <2>3, <2>5 DEF SpanInv, Stage
    <2>8. CallInv(f, d, c2)
        BY <2>6, <2>7, RowKept
    <2> QED BY <1>5, <2>4, <2>8 DEF c2, k
<1> QED BY <1>4, <1>5

\* The type of a sequence with one more.
LEMMA AppendIs ==
    ASSUME NEW S, NEW s \in Seq(S), NEW x \in S
    PROVE  Append(s, x) \in Seq(S) /\ (s = <<>> => Append(s, x) = <<x>>)
<1>1. Append(s, x) \in Seq(S)
    BY AppendProperties
<1>2. Append(<<>>, x) = <<x>>
    OBVIOUS
<1> QED BY <1>1, <1>2

\* writeAtOffset: the first cluster of a file goes to its entry.
LEMMA LinkFileFirst ==
    ASSUME NEW f \in Table, NEW d \in Disk, NEW c \in CallSet, CallInv(f, d, c), c.op = "write",
           c.at = "link", c.chain = <<>>,
           NEW s \in SlotCell, s.kind = "file", s.first = c.new, s.size = c.ent.size
    PROVE  LET c2 == [[c EXCEPT !.ent.first = c.new]
                         EXCEPT !.chain = Append(c.chain, c.new), !.at = "grow"]
           IN  c2 \in CallSet /\ CallInv(f, Put(d, PlaceOf(f, c.ent), s), c2)
<1> DEFINE c1 == [c EXCEPT !.ent.first = c.new]
           c2 == [c1 EXCEPT !.chain = Append(c.chain, c.new), !.at = "grow"]
<1>1. FileInv(f, d, c)
    BY WriteIs DEF WriteInv
<1>2. /\ c.ent.first = 0 /\ SlotOk(f, s) /\ Unowned(f, d, s.first) /\ f[s.first] = Eoc
      /\ ChainOf(f, c.new) = <<c.new>> /\ c.new \in Clusters
    BY FirstIs
<1>3. /\ c1 \in CallSet /\ c1.ent.first = c.new /\ c1.ent.size = c.ent.size
      /\ c1.ent.dir = c.ent.dir /\ c1.ent.off = c.ent.off /\ c1.ent.kind = c.ent.kind
      /\ c1.op = c.op /\ c1.dir = c.dir /\ c1.size = c.size
    <2>1. c.new \in Nat
        BY CallIs
    <2> QED BY <2>1, EntIs
<1>4. Append(c.chain, c.new) \in Seq(Clusters) /\ Append(c.chain, c.new) = <<c.new>>
    <2>1. c.chain \in Seq(Clusters)
        BY CallIs
    <2> QED BY <1>2, <2>1, AppendIs
<1> HIDE DEF c1
<1>5. /\ c2 \in CallSet /\ c2.at = "grow" /\ c2.ent = c1.ent /\ c2.op = c1.op /\ c2.dir = c1.dir
      /\ c2.chain = <<c.new>> /\ c2.size = c1.size
    BY <1>3, <1>4, AtsAre DEF CallSet
<1> HIDE DEF c2
<1>6. Flushed(c, s, c2) /\ GoesOn(c2)
    BY <1>1, <1>3, <1>5 DEF Flushed, GoesOn, FileInv
<1>7. SpanInv(f, c2)
    BY <1>2, <1>3, <1>5 DEF SpanInv, Stage
<1>8. CallInv(f, Put(d, PlaceOf(f, c.ent), s), c2)
    BY <1>2, <1>6, <1>7, FlushKept
<1> QED BY <1>5, <1>8 DEF c1, c2

\* writeAtOffset: a later cluster is linked to the last one.
LEMMA LinkFileNext ==
    ASSUME NEW f \in Table, NEW d \in Disk, NEW c \in CallSet, CallInv(f, d, c), c.op = "write",
           c.at = "link", c.chain # <<>>, NEW g, Changes(f, g, c.chain[Len(c.chain)], c.new)
    PROVE  LET c2 == [c EXCEPT !.chain = Append(c.chain, c.new), !.at = "grow"]
           IN  c.chain[Len(c.chain)] \in Clusters /\ c2 \in CallSet /\ CallInv(g, d, c2)
<1> DEFINE a == c.ent.first
           t == ChainOf(f, a)
           c2 == [c EXCEPT !.chain = Append(c.chain, c.new), !.at = "grow"]
<1>1. SpanInv(f, c) /\ a # 0 /\ Whole(f, a) /\ c.new \in Clusters
    BY WriteIs, FirstIs DEF WriteInv
<1>2. c.chain = t
    BY <1>1 DEF SpanInv, Stage
<1>3. t[Len(t)] \in Clusters
    <2>1. Len(t) \in 1 .. Len(t)
        BY <1>1, WholeIs
    <2> QED BY <1>1, <2>1, WholeIs
<1>4. Changes(f, g, t[Len(t)], c.new)
    BY <1>2
<1>5. ChainOf(g, a) = Append(t, c.new)
    BY <1>1, <1>4, LinkEnds
<1>6. Append(c.chain, c.new) \in Seq(Clusters)
    <2>1. c.chain \in Seq(Clusters)
        BY CallIs
    <2> QED BY <1>1, <2>1, AppendIs
<1>7. /\ c2 \in CallSet /\ c2.at = "grow" /\ c2.ent = c.ent /\ c2.op = "write" /\ c2.dir = c.dir
      /\ c2.chain = Append(c.chain, c.new) /\ c2.size = c.size
    BY <1>6, AtsAre DEF CallSet
<1> HIDE DEF c2
<1>8. Alike(c, c2) /\ GoesOn(c2)
    BY <1>7 DEF Alike, GoesOn
<1>9. SpanInv(g, c2)
    BY <1>2, <1>5, <1>7 DEF SpanInv, Stage
<1>10. CallInv(g, d, c2)
    BY <1>1, <1>4, <1>8, <1>9, LinkKept
<1> QED BY <1>2, <1>3, <1>7, <1>10 DEF c2

\* writeAtOffset: a cluster of the file is written.
LEMMA PutKept ==
    ASSUME NEW f \in Table, NEW d \in Disk, NEW c \in CallSet, CallInv(f, d, c), c.op = "write",
           c.at = "put", NEW e, Rewrites(d, e, c.chain[c.k])
    PROVE  LET c2 == IF c.k < ClustersFor(c.off + c.size) THEN [c EXCEPT !.k = @ + 1]
                     ELSE [c EXCEPT !.at = IF c.off + c.size > c.ent.size THEN "size" ELSE "done"]
           IN  c2 \in CallSet /\ CallInv(f, e, c2)
<1> DEFINE a == c.ent.first
           t == ChainOf(f, a)
           N == ClustersFor(c.off + c.size)
<1>1. /\ SpanInv(f, c) /\ Len(t) \in Nat /\ (a = 0 => t = <<>>) /\ (a # 0 => Whole(f, a))
    BY WriteIs DEF WriteInv
<1>2. c.chain = t /\ N <= Len(t) /\ c.k \in 1 .. N
    BY <1>1 DEF SpanInv, Stage
<1>3. c.off + c.size \in Nat /\ N \in Nat /\ c.k \in Nat
    <2>1. c.off \in Nat /\ c.size \in Nat /\ c.k \in Nat
        BY CallIs
    <2>2. c.off + c.size \in Nat
        BY <2>1
    <2> QED BY <2>1, <2>2, ClustersForIs
<1>4. c.chain[c.k] \in Own(f, a)
    <2>1. c.k \in 1 .. Len(t)
        BY <1>1, <1>2, <1>3
    <2>2. Len(t) # 0
        BY <1>1, <2>1
    <2>3. a # 0
        <3>1. Len(<<>>) = 0
            OBVIOUS
        <3> QED BY <1>1, <2>2, <3>1
    <2> QED BY <1>1, <1>2, <2>1, <2>3, WholeIs
<1>5. \E u \in Own(f, a) : Rewrites(d, e, u)
    BY <1>4
<1>6. CASE c.k < N
    <2> DEFINE c2 == [c EXCEPT !.k = @ + 1]
    <2>1. c.k + 1 \in 1 .. N /\ c.k + 1 \in Nat
        BY <1>2, <1>3, <1>6
    <2>2. /\ c2 \in CallSet /\ c2.op = "write" /\ c2.at = "put" /\ c2.dir = c.dir /\ c2.off = c.off
          /\ c2.ent = c.ent /\ c2.size = c.size /\ c2.chain = c.chain /\ c2.k = c.k + 1
        BY <2>1 DEF CallSet
    <2> HIDE DEF c2
    <2>3. Alike(c, c2) /\ GoesOn(c2)
        BY <2>2 DEF Alike, GoesOn
    <2>4. SpanInv(f, c2)
        BY <1>2, <2>1, <2>2 DEF SpanInv, Stage
    <2>5. CallInv(f, e, c2)
        BY <1>5, <2>3, <2>4, RowKept
    <2> QED BY <1>6, <2>2, <2>5 DEF c2
<1>7. CASE ~(c.k < N) /\ c.off + c.size > c.ent.size
    <2> DEFINE c2 == [c EXCEPT !.at = "size"]
    <2>1. /\ c2 \in CallSet /\ c2.op = "write" /\ c2.at = "size" /\ c2.dir = c.dir /\ c2.off = c.off
          /\ c2.ent = c.ent /\ c2.size = c.size /\ c2.chain = c.chain
        BY AtsAre DEF CallSet
    <2> HIDE DEF c2
    <2>2. Alike(c, c2) /\ GoesOn(c2)
        BY <2>1 DEF Alike, GoesOn
    <2>3. c.off + c.size <= Len(t) * CellsPerCluster
        BY <1>1, <1>2, <1>3, ClustersForIs
    <2>4. SpanInv(f, c2)
        BY <1>2, <2>1, <2>3 DEF SpanInv, Stage
    <2>5. CallInv(f, e, c2)
        BY <1>5, <2>2, <2>4, RowKept
    <2> QED BY <1>7, <2>1, <2>5 DEF c2
<1>8. CASE ~(c.k < N) /\ ~(c.off + c.size > c.ent.size)
    <2>1. Alike(c, c) /\ GoesOn(c)
        BY DEF Alike, GoesOn
    <2>2. CallInv(f, e, c)
        BY <1>1, <1>5, <2>1, RowKept
    <2>3. Sound(f, e)
        BY <2>2 DEF CallInv, View, Drops
    <2>4. [c EXCEPT !.at = "done"] \in CallSet /\ CallInv(f, e, [c EXCEPT !.at = "done"])
        BY <2>3, EndKept
    <2> QED BY <1>8, <2>4
<1> QED BY <1>6, <1>7, <1>8

\* writeAtOffset: the size is flushed when the clusters are there.
LEMMA FlushSizeKept ==
    ASSUME NEW f \in Table, NEW d \in Disk, NEW c \in CallSet, CallInv(f, d, c), c.op = "write",
           c.at = "size",
           NEW s \in SlotCell, s.kind = "file", s.first = c.ent.first, s.size = c.off + c.size
    PROVE  LET c2 == [[c EXCEPT !.ent.size = c.off + c.size] EXCEPT !.at = "done"]
           IN  c2 \in CallSet /\ CallInv(f, Put(d, PlaceOf(f, c.ent), s), c2)
<1> DEFINE a == c.ent.first
           t == ChainOf(f, a)
           c1 == [c EXCEPT !.ent.size = c.off + c.size]
           e == Put(d, PlaceOf(f, c.ent), s)
<1>1. /\ SpanInv(f, c) /\ FileInv(f, d, c) /\ Len(t) \in Nat
      /\ (a = 0 => t = <<>>) /\ (a # 0 => Whole(f, a))
    BY WriteIs DEF WriteInv
<1>2. c.off + c.size \in Nat /\ c.off + c.size # 0 /\ c.off + c.size <= Len(t) * CellsPerCluster
    <2>1. c.off \in Nat /\ c.size \in Nat
        BY CallIs
    <2>2. c.chain = t /\ c.off + c.size <= Len(c.chain) * CellsPerCluster /\ c.size # 0
        BY <1>1 DEF SpanInv, FileInv, Stage
    <2> QED BY <2>1, <2>2
<1>3. SlotOk(f, s)
    <2>1. CASE a = 0
        <3>1. Len(t) = 0 /\ 0 * CellsPerCluster = 0
            BY <1>1, <2>1, Geometry
        <3> QED BY <1>2, <3>1
    <2>2. CASE a # 0
        BY <1>1, <1>2, <2>2 DEF SlotOk
    <2> QED BY <2>1, <2>2
<1>4. Sound(f, e)
    BY <1>3, FlushFile
<1>5. c1 \in CallSet
    BY <1>2, EntIs
<1> HIDE DEF c1, e
<1>6. [c1 EXCEPT !.at = "done"] \in CallSet /\ CallInv(f, e, [c1 EXCEPT !.at = "done"])
    BY <1>4, <1>5, EndKept
<1> QED BY <1>6 DEF c1, e

-----------------------------------------------------------------------------
(* write of no bytes.                                                      *)

\* What the invariant says of a write of no bytes, after the chain is freed.
LEMMA TruncateIs ==
    ASSUME NEW f \in Table, NEW d \in Disk, NEW c \in CallSet, CallInv(f, d, c), c.op = "truncate",
           c.at \in {"append", "more", "flush"}
    PROVE  LET x == PlaceOf(f, c.ent)  v == View(f, d, c) IN
           /\ Sound(f, v) /\ DirOk(f, v, c) /\ Whole(f, c.dir) /\ c.ent.dir = c.dir /\ SlotInDir(f, c)
           /\ x \in Places(f, v) /\ x \in Spots
           /\ \A z \in Spots : z # x => Cell(v, z) = Cell(d, z)
           /\ c.at # "flush" => Cell(v, x) = Deleted
           /\ c.ent.kind = "file" /\ c.ent.first = 0 /\ c.ent.size = 0 /\ c.off = 0 /\ c.left = 0
           /\ MakeInv(f, d, c) /\ DropInv(f, c) /\ Stage(c) = c.at
<1> DEFINE x == PlaceOf(f, c.ent)
           v == View(f, d, c)
<1>1. Sound(f, v) /\ DirOk(f, v, c) /\ MakeInv(f, d, c) /\ DropInv(f, c) /\ Stage(c) = c.at
    BY DEF CallInv, Drops, Stage
<1>2. /\ SlotInDir(f, c) /\ c.ent.dir = c.dir
      /\ c.ent.kind = "file" /\ c.ent.first = 0 /\ c.ent.size = 0 /\ c.off = 0 /\ c.left = 0
    BY <1>1 DEF DropInv, DirOk
<1>3. Whole(f, c.dir) /\ x \in Places(f, v) /\ x \in Spots
    BY <1>1, <1>2, CallDir
<1>4. CASE c.at = "flush"
    <2>1. v = d
        BY <1>4 DEF View
    <2> QED BY <1>1, <1>2, <1>3, <1>4, <2>1
<1>5. CASE c.at # "flush"
    <2>1. v = Put(d, x, Deleted)
        BY <1>5 DEF View, Drops
    <2> HIDE DEF x, v
    <2>2. Cell(v, x) = Deleted /\ \A z \in Spots : z # x => Cell(v, z) = Cell(d, z)
        BY <1>3, <2>1, PutIs, ZeroIs
    <2> QED BY <1>1, <1>2, <1>3, <1>5, <2>2 DEF x, v
<1> QED BY <1>4, <1>5

\* A write of no bytes: append has nothing to fill.
LEMMA TruncateStart ==
    ASSUME NEW f \in Table, NEW d \in Disk, NEW c \in CallSet, CallInv(f, d, c), c.op = "truncate",
           c.at = "append"
    PROVE  LET c2 == [c EXCEPT !.at = "more", !.last = 0]
           IN  c2 \in CallSet /\ CallInv(f, d, c2)
<1> DEFINE c2 == [c EXCEPT !.at = "more", !.last = 0]
<1>1. /\ Sound(f, View(f, d, c)) /\ DirOk(f, View(f, d, c), c)
      /\ MakeInv(f, d, c) /\ DropInv(f, c) /\ Stage(c) = c.at
    BY TruncateIs
<1>2. c2 \in CallSet
    BY AtsAre DEF CallSet
<1>3. /\ c2.op = "truncate" /\ c2.at = "more" /\ c2.ent = c.ent /\ c2.dir = c.dir /\ c2.k = c.k
      /\ c2.off = c.off /\ c2.left = c.left /\ c2.new = c.new
    BY DEF CallSet
<1> HIDE DEF c2
<1>4. View(f, d, c2) = View(f, d, c) /\ Stage(c2) = "more"
    BY <1>3 DEF View, Stage, Drops
<1>5. FitInv(c2) /\ MakeInv(f, d, c2)
    <2>1. FitInv(c2)
        BY <1>3, <1>4 DEF FitInv
    <2> QED BY <1>3, <1>4, <2>1 DEF MakeInv
<1>6. DirOk(f, View(f, d, c2), c2) /\ AllocInv(f, d, c2) /\ DropInv(f, c2)
    BY <1>1, <1>3, <1>4 DEF DirOk, AllocInv, DropInv, SlotInDir
<1>7. CallInv(f, d, c2)
    BY <1>1, <1>3, <1>4, <1>5, <1>6 DEF CallInv, StagesOf
<1> QED BY <1>2, <1>7 DEF c2

\* A write of no bytes: the entry on the disk is emptied.
LEMMA TruncateFlush ==
    ASSUME NEW f \in Table, NEW d \in Disk, NEW c \in CallSet, CallInv(f, d, c), c.op = "truncate",
           c.at \in {"more", "flush"},
           NEW s \in SlotCell, s.kind = "file", s.first = 0, s.size = 0
    PROVE  LET e == Put(d, PlaceOf(f, c.ent), s)
           IN  e \in Disk /\ Sound(f, e) /\ (c.at = "more" => DirOk(f, e, c))
<1> DEFINE x == PlaceOf(f, c.ent)
           v == View(f, d, c)
           e == Put(d, x, s)
<1>1. /\ Sound(f, v) /\ DirOk(f, v, c) /\ x \in Places(f, v) /\ x \in Spots
      /\ \A z \in Spots : z # x => Cell(v, z) = Cell(d, z)
    BY TruncateIs
<1> HIDE DEF x, v
<1>2. e \in Disk /\ Cell(e, x) = s /\ \A z \in Spots : z # x => Cell(e, z) = Cell(d, z)
    <2>1. s \in CellSet
        BY DEF CellSet
    <2> QED BY <1>1, <2>1, PutIs
<1> HIDE DEF e
<1>3. Blank(Cell(e, x)) /\ ~IsDir(Cell(e, x)) /\ \A z \in Spots : z # x => Cell(e, z) = Cell(v, z)
    BY <1>1, <1>2 DEF Blank, IsDir
<1>4. Writes(f, v, f, e, TheRoot, 0)
    <2>1. Whole(f, Root)
        BY <1>1 DEF Sound
    <2>2. ASSUME NEW z \in Places(f, v), IsEntry(Cell(e, z)), ~Blank(Cell(e, z))
          PROVE  Cell(e, z) = Cell(v, z) /\ SlotOk(f, Cell(e, z))
        <3>1. Cell(e, z) = Cell(v, z)
            BY <1>3, <2>2, PlaceIs
        <3>2. z \in EntryPlaces(f, v)
            BY <2>2, <3>1 DEF EntryPlaces
        <3> QED BY <1>1, <3>1, <3>2 DEF Sound
    <2> QED BY <1>1, <2>1, <2>2 DEF Writes
<1>5. Sound(f, e)
    BY <1>4, Grows
<1>6. ASSUME c.at = "more" PROVE DirOk(f, e, c)
    <2>1. Cell(v, x) = Deleted
        BY <1>6, TruncateIs DEF x, v
    <2>2. ~IsDir(Cell(v, x))
        BY <2>1, ZeroIs DEF IsDir, IsEntry
    <2>3. PICK y \in Dirs(f, v) : First(v, y) = c.dir
        BY <1>1 DEF DirOk
    <2>4. y \in Dirs(f, e) /\ First(e, y) = c.dir
        <3>1. CASE y = TheRoot
            BY <2>3, <3>1, RootIs
        <3>2. CASE y # TheRoot
            <4>1. y \in Spots /\ y[1] \in Own(f, Root) /\ IsDir(Cell(v, y))
                BY <2>3, <3>2 DEF Dirs
            <4>2. Cell(e, y) = Cell(v, y)
                BY <1>3, <2>2, <4>1
            <4> QED BY <2>3, <4>1, <4>2, SpotIs DEF Dirs
        <3> QED BY <3>1, <3>2
    <2> QED BY <1>1, <2>4 DEF DirOk
<1> QED BY <1>2, <1>5, <1>6 DEF e, x

\* A write of no bytes: the end of append.
LEMMA TruncateEnds ==
    ASSUME NEW f \in Table, NEW d \in Disk, NEW c \in CallSet, CallInv(f, d, c), c.op = "truncate",
           c.at = "more",
           NEW s \in SlotCell, s.kind = "file", s.first = 0, s.size = 0
    PROVE  LET c2 == [[c EXCEPT !.ent.size = c.off]
                         EXCEPT !.chain = ChainOf(f, c.ent.first), !.at = "flush"]
           IN  c2 \in CallSet /\ CallInv(f, Put(d, PlaceOf(f, c.ent), s), c2)
<1> DEFINE c1 == [c EXCEPT !.ent.size = c.off]
           c2 == [c1 EXCEPT !.chain = ChainOf(f, c.ent.first), !.at = "flush"]
           e == Put(d, PlaceOf(f, c.ent), s)
<1>1. /\ c.ent.kind = "file" /\ c.ent.first = 0 /\ c.ent.size = 0 /\ c.off = 0 /\ c.left = 0
      /\ SlotInDir(f, c) /\ c.ent.dir = c.dir
    BY TruncateIs
<1>2. e \in Disk /\ Sound(f, e) /\ DirOk(f, e, c)
    BY TruncateFlush
<1> HIDE DEF e
<1>3. /\ c1 \in CallSet /\ c1.ent.first = 0 /\ c1.ent.size = 0
      /\ c1.ent.dir = c.ent.dir /\ c1.ent.off = c.ent.off /\ c1.ent.kind = "file"
      /\ c1.op = "truncate" /\ c1.dir = c.dir /\ c1.off = 0 /\ c1.left = 0
    <2>1. c.off \in Nat
        BY <1>1
    <2>2. /\ c1 \in CallSet /\ c1.ent.first = c.ent.first /\ c1.ent.size = c.off
          /\ c1.ent.dir = c.ent.dir /\ c1.ent.off = c.ent.off /\ c1.ent.kind = c.ent.kind
          /\ c1.op = c.op /\ c1.dir = c.dir /\ c1.off = c.off /\ c1.left = c.left
        BY <2>1, EntIs
    <2> QED BY <1>1, <2>2
<1> HIDE DEF c1
<1>4. ChainOf(f, c.ent.first) \in Seq(Clusters)
    <2>1. ChainOf(f, c.ent.first) = <<>>
        BY <1>1, NoChain
    <2> QED BY <2>1
<1>5. /\ c2 \in CallSet /\ c2.at = "flush" /\ c2.ent = c1.ent /\ c2.op = "truncate"
      /\ c2.dir = c.dir /\ c2.off = 0 /\ c2.left = 0
    BY <1>3, <1>4, AtsAre DEF CallSet
<1> HIDE DEF c2
<1>6. View(f, e, c2) = e /\ Stage(c2) = "flush"
    BY <1>5 DEF View, Stage
<1>7. DirOk(f, e, c2) /\ AllocInv(f, e, c2) /\ DropInv(f, c2)
    BY <1>1, <1>2, <1>3, <1>5 DEF DirOk, AllocInv, DropInv, SlotInDir
<1>8. MakeInv(f, e, c2)
    <2>1. FitInv(c2)
        BY <1>5, <1>6 DEF FitInv
    <2> QED BY <1>5, <1>6, <2>1 DEF MakeInv
<1>9. CallInv(f, e, c2)
    BY <1>2, <1>5, <1>6, <1>7, <1>8 DEF CallInv, StagesOf
<1> QED BY <1>5, <1>9 DEF c1, c2, e

-----------------------------------------------------------------------------
(* The steps.                                                              *)

\* The file system has one caller at a time, and the first cluster of an
\* entry fits into its sixteen bits.
OneCaller == \E p : Callers = {p}
SixteenBits == LastCluster < FirstLimit

\* The first cluster is kept whole in an entry.
LEMMA FirstFits ==
    ASSUME SixteenBits, NEW n \in Clusters \cup {0}
    PROVE  n % FirstLimit = n
<1>1. n \in Nat /\ FirstLimit \in Nat /\ LastCluster \in Nat /\ n < FirstLimit
    BY GeometryAssumption, Geometry DEF SixteenBits, Clusters
<1>2. PICK q \in Nat : n \div FirstLimit = q
    BY <1>1
<1>3. PICK r \in 0 .. FirstLimit - 1 : n % FirstLimit = r
    BY <1>1
<1>4. n = FirstLimit * q + r
    BY <1>1, <1>2, <1>3
<1>5. q = 0
    <2>1. SUFFICES ASSUME q >= 1 PROVE FALSE
        BY <1>2
    <2>2. FirstLimit * q >= FirstLimit
        BY <1>1, <2>1
    <2> QED BY <1>1, <1>3, <1>4, <2>2
<1> QED BY <1>1, <1>3, <1>4, <1>5

\* A call that is somewhere satisfies the invariant.
LEMMA HasCall ==
    ASSUME FatInv, NEW p \in Callers, NEW at, At(p, at)
    PROVE  /\ call[p] \in CallSet /\ CallInv(fat, data, call[p]) /\ call[p].at = at
           /\ fat \in Table /\ data \in Disk /\ call[p] # Idle
BY DEF FatInv, At

\* The step of the only caller.
Steps(p, c) ==
    /\ call' = [call EXCEPT ![p] = c] /\ c \in CallSet
    /\ fat' \in Table /\ data' \in Disk /\ CallInv(fat', data', c)

\* If the only call keeps its part of the invariant, all of it is kept.
LEMMA Kept ==
    ASSUME FatInv, OneCaller, NEW p \in Callers, NEW c, Steps(p, c)
    PROVE  FatInv'
<1>1. Callers = {p}
    BY DEF OneCaller
<1>2. c # Idle
    BY CallIs DEF Steps
<1>3. call' \in [Callers -> {Idle} \cup CallSet] /\ call'[p] = c
    BY DEF Steps, FatInv
<1>4. ~Quiet'
    BY <1>2, <1>3 DEF Quiet
<1>5. \A q \in Callers : call'[q] # Idle => CallInv(fat', data', call'[q])
    BY <1>1, <1>3 DEF Steps
<1> QED BY <1>3, <1>4, <1>5 DEF FatInv, Steps

\* A call that ends, or cannot go on.
LEMMA EndSteps ==
    ASSUME FatInv, NEW p \in Callers, call[p] \in CallSet, Sound(fat, data),
           NEW at \in {"done", "failed"}, Go(p, [call[p] EXCEPT !.at = at]), NoWrite
    PROVE  Steps(p, [call[p] EXCEPT !.at = at])
<1>1. fat \in Table /\ data \in Disk /\ fat' = fat /\ data' = data
    BY DEF FatInv, NoWrite
<1>2. [call[p] EXCEPT !.at = at] \in CallSet /\ CallInv(fat, data, [call[p] EXCEPT !.at = at])
    BY EndKept
<1> QED BY <1>1, <1>2 DEF Steps, Go

\* FindCluster is a step of its caller that keeps the invariant.
LEMMA FindSteps ==
    ASSUME FatInv, NEW p \in Callers, FindCluster(p)
    PROVE  \E c : Steps(p, c)
<1>1. /\ call[p] \in CallSet /\ CallInv(fat, data, call[p]) /\ call[p].at = "find"
      /\ fat \in Table /\ data \in Disk
    BY HasCall DEF FindCluster
<1>2. NoWrite /\ fat' = fat /\ data' = data
    BY DEF FindCluster, NoWrite
<1>3. CASE Free = {}
    <2>1. Go(p, [call[p] EXCEPT !.at = "failed"])
        BY <1>3 DEF FindCluster, Fails
    <2>2. Sound(fat, data)
        BY <1>1 DEF CallInv, View
    <2> QED BY <1>1, <1>2, <2>1, <2>2, EndSteps
<1>4. CASE Free # {}
    <2> DEFINE n == Least(Free)
    <2>1. Go(p, [call[p] EXCEPT !.new = n, !.at = "mark"])
        BY <1>4 DEF FindCluster
    <2>2. n \in Free
        <3>1. Free \subseteq Nat
            BY Geometry DEF Free
        <3>2. \E x \in Free : \A y \in Free : x <= y
            BY <1>4, <3>1, LeastNumber
        <3> QED BY <3>2 DEF Least
    <2>3. n \in Clusters /\ fat[n] = 0
        BY <2>2 DEF Free
    <2> HIDE DEF n
    <2> DEFINE c2 == [call[p] EXCEPT !.new = n, !.at = "mark"]
    <2>4. c2 \in CallSet /\ CallInv(fat, data, c2)
        BY <1>1, <2>3, FindKept
    <2> HIDE DEF c2
    <2>5. Steps(p, c2)
        BY <1>1, <1>2, <2>1, <2>4 DEF Steps, Go, c2
    <2> QED BY <2>5
<1> QED BY <1>3, <1>4

\* MarkCluster is a step of its caller that keeps the invariant.
LEMMA MarkSteps ==
    ASSUME FatInv, NEW p \in Callers, MarkCluster(p)
    PROVE  \E c : Steps(p, c)
<1> DEFINE c == call[p]
<1>1. /\ c \in CallSet /\ CallInv(fat, data, c) /\ c.at = "mark"
      /\ fat \in Table /\ data \in Disk
    BY HasCall DEF MarkCluster
<1>2. fat' = [fat EXCEPT ![c.new] = Eoc] /\ data' = data /\ Go(p, [c EXCEPT !.at = c.next])
    BY DEF MarkCluster, SetNextCluster
<1>3. c.new \in Clusters
    BY <1>1 DEF CallInv, AllocInv
<1>4. Changes(fat, fat', c.new, Eoc)
    BY <1>1, <1>2, <1>3, SetIs
<1> DEFINE c2 == [c EXCEPT !.at = c.next]
<1>5. c2 \in CallSet /\ CallInv(fat', data, c2)
    BY <1>1, <1>4, MarkKept
<1>6. fat' \in Table
    BY <1>4 DEF Changes
<1>7. Steps(p, c2)
    <2> HIDE DEF c2
    <2>1. call' = [call EXCEPT ![p] = c2]
        BY <1>2 DEF Go, c2
    <2> QED BY <1>1, <1>2, <1>5, <1>6, <2>1 DEF Steps
<1> QED BY <1>7

\* FreeCluster is a step of its caller that keeps the invariant.
LEMMA FreeSteps ==
    ASSUME FatInv, NEW p \in Callers, FreeCluster(p)
    PROVE  \E c : Steps(p, c)
<1> DEFINE c == call[p]
           c2 == IF fat[c.last] \in {0, Eoc} THEN [c EXCEPT !.at = c.next]
                 ELSE [c EXCEPT !.last = fat[c.last]]
<1>1. /\ c \in CallSet /\ CallInv(fat, data, c) /\ c.at = "free"
      /\ fat \in Table /\ data \in Disk
    BY HasCall DEF FreeCluster
<1>2. fat' = [fat EXCEPT ![c.last] = 0] /\ data' = data /\ Go(p, c2)
    BY DEF FreeCluster, SetNextCluster
<1>3. c.last \in Clusters
    <2>1. Whole(fat, c.last)
        BY <1>1 DEF CallInv, AllocInv
    <2> QED BY <2>1, WholeIs
<1>4. Changes(fat, fat', c.last, 0)
    BY <1>1, <1>2, <1>3, SetIs
<1>5. c2 \in CallSet /\ CallInv(fat', data, c2)
    BY <1>1, <1>4, FreeKept
<1>6. fat' \in Table
    BY <1>4 DEF Changes
<1>7. Steps(p, c2)
    <2> HIDE DEF c2
    <2>1. call' = [call EXCEPT ![p] = c2]
        BY <1>2 DEF Go
    <2> QED BY <1>1, <1>2, <1>5, <1>6, <2>1 DEF Steps
<1> QED BY <1>7

\* The cluster of the image that StoreDirectory writes.
LEMMA RowOfImage ==
    ASSUME NEW s \in Seq(CellSet), NEW k \in 1 .. ClustersFor(Len(s))
    PROVE  LET row == Part(Padded(s), k) IN
           /\ row \in [Cols -> CellSet]
           /\ \A i \in Cols : row[i] = IF Nth(k, i) <= Len(s) THEN s[Nth(k, i)] ELSE Zero
<1> DEFINE N == ClustersFor(Len(s))
           m == N * CellsPerCluster - Len(s)
           t == Padded(s)
           a == (k - 1) * CellsPerCluster + 1
           b == k * CellsPerCluster
           row == SubSeq(t, a, b)
<1>1. Len(s) \in Nat /\ N \in Nat /\ Len(s) <= N * CellsPerCluster /\ N * CellsPerCluster \in Nat
    <2>1. Len(s) \in Nat
        BY LenProperties
    <2>2. N \in Nat /\ Len(s) <= N * CellsPerCluster
        BY <2>1, ClustersForIs
    <2> QED BY <2>1, <2>2, Times
<1>2. m \in Nat /\ Len(s) + m = N * CellsPerCluster
    <2> HIDE DEF N
    <2> QED BY <1>1
<1>3. t = s \o Zeros(m)
    BY DEF Padded
<1>4. Zeros(m) \in Seq(CellSet) /\ Len(Zeros(m)) = m /\ \A i \in 1 .. m : Zeros(m)[i] = Zero
    <2> HIDE DEF m
    <2>1. Zeros(m) = [i \in 1 .. m |-> Zero] /\ Zero \in CellSet
        BY ZeroIs DEF Zeros
    <2> HIDE DEF Zeros
    <2>2. Zeros(m) \in Seq(CellSet)
        BY <1>2, <2>1, IsASeq
    <2> QED BY <1>2, <2>1, <2>2, LenProperties
<1> HIDE DEF m
<1>5. /\ t \in Seq(CellSet)
      /\ \A i \in 1 .. N * CellsPerCluster : t[i] = IF i <= Len(s) THEN s[i] ELSE Zero
    <2>1. /\ t \in Seq(CellSet) /\ Len(t) = Len(s) + m
          /\ \A i \in 1 .. Len(s) + m : t[i] = IF i <= Len(s) THEN s[i] ELSE Zeros(m)[i - Len(s)]
        <3> DEFINE z == Zeros(m)
        <3>1. z \in Seq(CellSet) /\ Len(z) = m /\ t = s \o z
            BY <1>3, <1>4
        <3> HIDE DEF z, t
        <3>2. /\ s \o z \in Seq(CellSet) /\ Len(s \o z) = Len(s) + Len(z)
              /\ \A i \in 1 .. Len(s) + Len(z) : (s \o z)[i] = IF i <= Len(s) THEN s[i] ELSE z[i - Len(s)]
            BY <3>1, ConcatProperties
        <3> QED BY <3>1, <3>2 DEF z
    <2>2. ASSUME NEW i \in 1 .. N * CellsPerCluster PROVE t[i] = IF i <= Len(s) THEN s[i] ELSE Zero
        <3>1. t[i] = IF i <= Len(s) THEN s[i] ELSE Zeros(m)[i - Len(s)]
            BY <1>2, <2>1
        <3>2. ~(i <= Len(s)) => i - Len(s) \in 1 .. m
            <4> HIDE DEF N
            <4> QED BY <1>1, <1>2
        <3> QED BY <1>4, <3>1, <3>2
    <2> QED BY <2>1, <2>2
<1> HIDE DEF t
<1>6. ASSUME NEW i \in Cols PROVE Nth(k, i) \in 1 .. N * CellsPerCluster /\ (a + i) - 1 = Nth(k, i)
    <2>1. k \in Nat \ {0} /\ k <= N
        BY <1>1
    <2>2. Nth(k, i) \in Nat \ {0} /\ Which(Nth(k, i)) = k
        BY <2>1, CellOfPlace
    <2>3. Nth(k, i) <= N * CellsPerCluster
        BY <1>1, <2>1, <2>2, PlaceInChain
    <2>4. (k - 1) * CellsPerCluster \in Nat /\ i \in Nat
        BY <2>1, Times, Geometry DEF Cols
    <2>5. (a + i) - 1 = Nth(k, i)
        BY <2>4 DEF Nth
    <2> QED BY <1>1, <2>2, <2>3, <2>5
<1>7. a \in Nat /\ b \in Nat /\ (b - a) + 1 = CellsPerCluster /\ a <= b
    <2>1. k - 1 \in Nat /\ k \in Nat /\ (k - 1) + 1 = k
        BY <1>1
    <2>2. (k - 1) * CellsPerCluster \in Nat
        BY <2>1, Times
    <2>3. b = (k - 1) * CellsPerCluster + CellsPerCluster
        <3>1. ((k - 1) + 1) * CellsPerCluster = (k - 1) * CellsPerCluster + CellsPerCluster
            BY <2>1, Times
        <3> QED BY <2>1, <3>1
    <2>4. ASSUME NEW z \in Nat PROVE LET x == z + 1  y == z + CellsPerCluster
                                     IN  x \in Nat /\ y \in Nat /\ (y - x) + 1 = CellsPerCluster /\ x <= y
        BY Geometry
    <2> QED BY <2>2, <2>3, <2>4
<1> HIDE DEF N, a, b
<1>8. ASSUME NEW j \in a .. b PROVE t[j] \in CellSet
    <2> DEFINE i == (j - a) + 1
    <2>1. i \in Cols /\ (a + i) - 1 = j
        <3>1. i \in Nat /\ i >= 1 /\ i <= (b - a) + 1 /\ (a + i) - 1 = j
            BY <1>7
        <3> QED BY <1>7, <3>1 DEF Cols
    <2>2. j \in 1 .. N * CellsPerCluster
        BY <1>6, <2>1
    <2>3. t[j] = IF j <= Len(s) THEN s[j] ELSE Zero
        BY <1>5, <2>2
    <2>4. j <= Len(s) => s[j] \in CellSet
        BY <1>1, <2>2, ElementOfSeq
    <2> QED BY <2>3, <2>4, ZeroIs
<1>9. /\ row \in Seq(CellSet) /\ Len(row) = (IF a <= b THEN (b - a) + 1 ELSE 0)
      /\ \A i \in 1 .. (b - a) + 1 : row[i] = t[(a + i) - 1]
    BY <1>7, <1>8, SubSeqProperties
<1> HIDE DEF row
<1>10. row \in [Cols -> CellSet]
    BY <1>7, <1>9, LenProperties DEF Cols
<1>11. ASSUME NEW i \in Cols PROVE row[i] = IF Nth(k, i) <= Len(s) THEN s[Nth(k, i)] ELSE Zero
    <2>1. row[i] = t[Nth(k, i)]
        BY <1>6, <1>7, <1>9 DEF Cols
    <2> QED BY <1>5, <1>6, <2>1
<1>12. Part(Padded(s), k) = row
    BY DEF Part, row, t, a, b
<1> QED BY <1>10, <1>11, <1>12

\* ExtendDirectory is a step of its caller that keeps the invariant.
LEMMA ExtendSteps ==
    ASSUME FatInv, NEW p \in Callers, ExtendDirectory(p)
    PROVE  \E c : Steps(p, c)
<1> DEFINE c == call[p]
<1>1. /\ c \in CallSet /\ CallInv(fat, data, c) /\ c.at = "extend"
      /\ fat \in Table /\ data \in Disk
    BY HasCall DEF ExtendDirectory
<1>2. CASE Len(c.chain) < ClustersFor(Len(c.image))
    <2> DEFINE c2 == Allocate(c, "linkdir")
    <2>1. call' = [call EXCEPT ![p] = c2] /\ fat' = fat /\ data' = data
        BY <1>2 DEF ExtendDirectory, Go, NoWrite
    <2>2. c2 \in CallSet /\ CallInv(fat, data, c2)
        BY <1>1, <1>2, ExtendMore
    <2> HIDE DEF c2
    <2> QED BY <1>1, <2>1, <2>2 DEF Steps
<1>3. CASE ~(Len(c.chain) < ClustersFor(Len(c.image)))
    <2> DEFINE c2 == [c EXCEPT !.at = "store"]
    <2>1. call' = [call EXCEPT ![p] = c2] /\ data' = data
          /\ fat' = [fat EXCEPT ![c.chain[Len(c.chain)]] = Eoc]
        BY <1>3 DEF ExtendDirectory, Go, SetNextCluster
    <2>2. /\ c2 \in CallSet /\ CallInv(fat, data, c2)
          /\ c.chain[Len(c.chain)] \in Clusters /\ fat[c.chain[Len(c.chain)]] = Eoc
        BY <1>1, <1>3, ExtendEnds
    <2>3. fat' = fat
        BY <1>1, <2>1, <2>2, SetSame
    <2> HIDE DEF c2
    <2> QED BY <1>1, <2>1, <2>2, <2>3 DEF Steps
<1> QED BY <1>2, <1>3

\* LinkDirectory is a step of its caller that keeps the invariant.
LEMMA LinkDirectorySteps ==
    ASSUME FatInv, NEW p \in Callers, LinkDirectory(p)
    PROVE  \E c : Steps(p, c)
<1> DEFINE c == call[p]
           u == c.chain[Len(c.chain)]
           c2 == [c EXCEPT !.chain = Append(@, c.new), !.at = "extend"]
<1>1. /\ c \in CallSet /\ CallInv(fat, data, c) /\ c.at = "linkdir"
      /\ fat \in Table /\ data \in Disk
    BY HasCall DEF LinkDirectory
<1>2. /\ call' = [call EXCEPT ![p] = c2] /\ data' = data
      /\ fat' = [fat EXCEPT ![u] = c.new]
    BY DEF LinkDirectory, Go, SetNextCluster
<1>3. /\ Stage(c) = "linkdir" /\ Sound(fat, View(fat, data, c)) /\ DirOk(fat, View(fat, data, c), c)
      /\ AllocInv(fat, data, c) /\ (c.op # "write" => MakeInv(fat, data, c)) /\ c.op # "write"
    BY <1>1 DEF CallInv, Stage, StagesOf
<1>4. c.chain = ChainOf(fat, c.dir) /\ Whole(fat, c.dir) /\ c.new \in Clusters
    <2>1. c.chain = ChainOf(fat, c.dir)
        BY <1>3 DEF MakeInv, ImageInv
    <2>2. c.new \in Clusters
        BY <1>1, <1>3 DEF AllocInv, Unowned
    <2> QED BY <1>1, <1>3, <2>1, <2>2, CallDir
<1>5. u \in Clusters
    <2>1. Len(c.chain) \in 1 .. Len(c.chain)
        BY <1>4, WholeIs
    <2> QED BY <1>4, <2>1, WholeIs
<1>6. Changes(fat, fat', u, c.new)
    BY <1>1, <1>2, <1>4, <1>5, SetIs
<1>7. c2 \in CallSet /\ CallInv(fat', data, c2)
    BY <1>1, <1>6, LinkDirectoryKept
<1>8. fat' \in Table
    BY <1>6 DEF Changes
<1> HIDE DEF c2
<1> QED BY <1>1, <1>2, <1>7, <1>8 DEF Steps

\* StoreDirectory is a step of its caller that keeps the invariant.
LEMMA StoreSteps ==
    ASSUME FatInv, NEW p \in Callers, StoreDirectory(p)
    PROVE  \E c : Steps(p, c)
<1> DEFINE c == call[p]
           N == ClustersFor(Len(c.image))
           row == Part(Padded(c.image), c.k)
           c2 == IF c.k < N THEN [c EXCEPT !.k = @ + 1]
                 ELSE IF c.op = "mkdir" THEN Allocate(c, "dots") ELSE [c EXCEPT !.at = "done"]
<1>1. /\ c \in CallSet /\ CallInv(fat, data, c) /\ c.at = "store"
      /\ fat \in Table /\ data \in Disk
    BY HasCall DEF StoreDirectory
<1>2. /\ Stage(c) = "store" /\ c.op # "write"
    BY <1>1 DEF CallInv, Stage, StagesOf
<1>3. /\ MakeInv(fat, data, c) /\ Sound(fat, View(fat, data, c)) /\ DirOk(fat, View(fat, data, c), c)
    BY <1>1, <1>2 DEF CallInv
<1>4. c.chain = ChainOf(fat, c.dir) /\ c.k \in 1 .. N /\ N <= Len(c.chain)
    BY <1>1, <1>2, <1>3 DEF MakeInv, ImageInv, FitInv
<1>5. Whole(fat, c.dir)
    BY <1>1, <1>3, CallDir
<1>6. Len(c.chain) \in Nat /\ N \in Nat /\ c.image \in Seq(CellSet)
    <2>1. c.image \in Seq(CellSet)
        BY <1>1, CallIs
    <2>2. Len(c.image) \in Nat
        BY <2>1, LenProperties
    <2> QED BY <1>4, <1>5, <2>1, <2>2, WholeIs, ClustersForIs
<1>7. c.chain[c.k] \in Clusters
    <2>1. c.k \in 1 .. Len(c.chain)
        BY <1>4, <1>6
    <2> QED BY <1>4, <1>5, <2>1, WholeIs
<1>8. row \in [Cols -> CellSet]
      /\ \A i \in Cols : row[i] = IF Nth(c.k, i) <= Len(c.image) THEN c.image[Nth(c.k, i)] ELSE Zero
    BY <1>4, <1>6, RowOfImage
<1>9. data' = [data EXCEPT ![c.chain[c.k]] = row] /\ fat' = fat
    BY DEF StoreDirectory, WriteCluster
<1> HIDE DEF row
<1>10. Rewrites(data, data', c.chain[c.k]) /\ data'[c.chain[c.k]] = row
    <2> DEFINE u == c.chain[c.k]
    <2> HIDE DEF u
    <2>1. u \in Clusters /\ row \in [Cols -> CellSet] /\ data' = [data EXCEPT ![u] = row]
        BY <1>7, <1>8, <1>9 DEF u
    <2>2. Rewrites(data, [data EXCEPT ![u] = row], u) /\ [data EXCEPT ![u] = row][u] = row
        <3>1. data \in Disk /\ u \in Clusters /\ row \in [Cols -> CellSet]
            BY <1>1, <2>1
        <3> QED BY ONLY <3>1, RowIs
    <2> QED BY <2>1, <2>2 DEF u
<1>11. Stores(data, data', c) /\ data' \in Disk
    BY <1>8, <1>10 DEF Stores, Rewrites
<1>12. c2 \in CallSet /\ CallInv(fat, data', c2)
    BY <1>1, <1>11, StoreKept
<1>13. call' = [call EXCEPT ![p] = c2]
    <2>1. Less(Len(c.chain), N) = N
        BY <1>4, <1>6 DEF Less
    <2>2. CASE c.k < N
        BY <2>1, <2>2 DEF StoreDirectory, Go
    <2>3. CASE ~(c.k < N) /\ c.op = "mkdir"
        BY <2>1, <2>3 DEF StoreDirectory, Go
    <2>4. CASE ~(c.k < N) /\ c.op # "mkdir"
        BY <2>1, <2>4 DEF StoreDirectory, Succeeds, Go
    <2> QED BY <2>2, <2>3, <2>4
<1> HIDE DEF c2
<1> QED BY <1>1, <1>9, <1>11, <1>12, <1>13 DEF Steps

\* The first cells of a new directory.
LEMMA RowOfDots ==
    ASSUME NEW a \in Nat, NEW b \in Nat
    PROVE  LET row == <<Dot(".", a), Dot("..", b)>> \o Zeros(CellsPerCluster - 2) IN
           row \in [Cols -> CellSet] /\ \A i \in Cols : ~IsEntry(row[i])
<1> DEFINE m == CellsPerCluster - 2
           dots == <<Dot(".", a), Dot("..", b)>>
           z == Zeros(m)
           S == {x \in CellSet : ~IsEntry(x)}
           row == dots \o z
<1>1. m \in Nat /\ 2 + m = CellsPerCluster
    BY Geometry
<1>2. Dot(".", a) \in S /\ Dot("..", b) \in S /\ Zero \in S
    <2>1. Dot(".", a) \in CellSet /\ Dot("..", b) \in CellSet
        BY DEF Dot, CellSet
    <2>2. ~IsEntry(Dot(".", a)) /\ ~IsEntry(Dot("..", b))
        BY DEF Dot, IsEntry
    <2> QED BY <2>1, <2>2, ZeroIs
<1> HIDE DEF S
<1>3. dots \in Seq(S) /\ Len(dots) = 2
    BY <1>2
<1>4. z \in Seq(S) /\ Len(z) = m
    <2> HIDE DEF m
    <2>1. z = [i \in 1 .. m |-> Zero]
        BY DEF Zeros
    <2> HIDE DEF z
    <2>2. z \in Seq(S)
        BY <1>1, <1>2, <2>1, IsASeq
    <2> QED BY <1>1, <2>1, <2>2, LenProperties
<1> HIDE DEF m, dots, z
<1>5. row \in Seq(S) /\ Len(row) = CellsPerCluster
    <2>1. dots \o z \in Seq(S) /\ Len(dots \o z) = Len(dots) + Len(z)
        BY <1>3, <1>4, ConcatProperties
    <2> QED BY <1>1, <1>3, <1>4, <2>1
<1> HIDE DEF row
<1>6. row \in [Cols -> S]
    BY <1>5, LenProperties DEF Cols
<1>7. row \in [Cols -> CellSet] /\ \A i \in Cols : ~IsEntry(row[i])
    BY <1>6 DEF S
<1> QED BY <1>7 DEF row, dots, z, m

\* WriteDots is a step of its caller that keeps the invariant.
LEMMA WriteDotsSteps ==
    ASSUME FatInv, NEW p \in Callers, WriteDots(p)
    PROVE  \E c : Steps(p, c)
<1> DEFINE c == call[p]
           row == <<Dot(".", c.new), Dot("..", c.dir)>> \o Zeros(CellsPerCluster - 2)
           c2 == [c EXCEPT !.at = "eoc"]
<1>1. /\ c \in CallSet /\ CallInv(fat, data, c) /\ c.at = "dots"
      /\ fat \in Table /\ data \in Disk
    BY HasCall DEF WriteDots
<1>2. /\ call' = [call EXCEPT ![p] = c2] /\ fat' = fat
      /\ data' = [data EXCEPT ![c.new] = row]
    BY DEF WriteDots, Go, WriteCluster
<1>3. row \in [Cols -> CellSet] /\ \A i \in Cols : ~IsEntry(row[i])
    <2>1. c.new \in Nat /\ c.dir \in Nat
        BY <1>1, CallIs
    <2> QED BY <2>1, RowOfDots
<1> HIDE DEF row
<1>4. c.new \in Clusters /\ c2 \in CallSet /\ CallInv(fat, data', c2)
    BY <1>1, <1>2, <1>3, DotsKept
<1>5. data' \in Disk
    BY <1>1, <1>2, <1>3, <1>4, RowIs DEF Rewrites
<1> HIDE DEF c2
<1> QED BY <1>1, <1>2, <1>4, <1>5 DEF Steps

\* EndDots is a step of its caller that keeps the invariant.
LEMMA EndDotsSteps ==
    ASSUME FatInv, SixteenBits, NEW p \in Callers, EndDots(p)
    PROVE  \E c : Steps(p, c)
<1> DEFINE c == call[p]
           c2 == [c EXCEPT !.at = "flushdir", !.ent.first = c.new]
<1>1. /\ c \in CallSet /\ CallInv(fat, data, c) /\ c.at = "eoc"
      /\ fat \in Table /\ data \in Disk
    BY HasCall DEF EndDots
<1>2. c.new \in Clusters /\ fat[c.new] = Eoc /\ c2 \in CallSet /\ CallInv(fat, data, c2)
    BY <1>1, EndDotsKept
<1>3. c.new % FirstLimit = c.new
    BY <1>2, FirstFits
<1>4. /\ fat' = [fat EXCEPT ![c.new] = Eoc] /\ data' = data
      /\ Go(p, [c EXCEPT !.at = "flushdir", !.ent.first = c.new % FirstLimit])
    BY DEF EndDots, SetNextCluster
<1>5. fat' = fat
    BY <1>1, <1>2, <1>4, SetSame
<1>6. call' = [call EXCEPT ![p] = c2]
    BY <1>3, <1>4 DEF Go
<1> HIDE DEF c2
<1> QED BY <1>1, <1>2, <1>4, <1>5, <1>6 DEF Steps

\* flushEntry finds the slot, and writes it.
LEMMA FlushIs ==
    ASSUME FatInv, SixteenBits, NEW p \in Callers, NEW c \in CallSet, NEW at, FlushEntry(p, c, at),
           Whole(fat, c.ent.dir), c.ent.off < Len(ChainOf(fat, c.ent.dir)) * CellsPerCluster,
           c.ent.first \in Clusters \cup {0}
    PROVE  LET s == Slot(c.ent.kind, c.ent.name, c.ent.first, c.ent.size)
           IN  /\ s \in SlotCell /\ s.kind = c.ent.kind /\ s.first = c.ent.first /\ s.size = c.ent.size
               /\ data' = Put(data, PlaceOf(fat, c.ent), s) /\ data' \in Disk
               /\ fat' = fat /\ call' = [call EXCEPT ![p] = [c EXCEPT !.at = at]]
<1> DEFINE e == c.ent
           s == Slot(e.kind, e.name, e.first, e.size)
           t == ChainOf(fat, e.dir)
           x == PlaceOf(fat, e)
           i == e.off \div CellsPerCluster + 1
<1>1. data \in Disk /\ fat \in Table
    BY DEF FatInv
<1>2. e.off \in Nat /\ e.kind \in {"file", "dir"} /\ e.name \in Names /\ e.first \in Nat /\ e.size \in Nat
    BY CallIs
<1>3. e.first % FirstLimit = e.first
    BY FirstFits
<1>4. s \in SlotCell /\ s.kind = e.kind /\ s.first = e.first /\ s.size = e.size
    BY <1>2, <1>3 DEF Slot, SlotCell
<1> HIDE DEF s
<1>5. i = Which(e.off + 1) /\ (e.off % CellsPerCluster) + 1 = Where(e.off + 1)
    <2> DEFINE n == (e.off + 1) - 1
    <2>1. n = e.off
        BY <1>2
    <2>2. Which(e.off + 1) = n \div CellsPerCluster + 1 /\ Where(e.off + 1) = (n % CellsPerCluster) + 1
        BY DEF Which, Where
    <2> HIDE DEF n
    <2> QED BY <2>1, <2>2
<1> HIDE DEF i
<1>6. i \in 1 .. Len(t) /\ Len(t) \in Nat
    <2>1. e.off + 1 \in Nat \ {0} /\ Len(t) \in Nat
        BY <1>2, WholeIs
    <2>2. Which(e.off + 1) \in Nat \ {0}
        BY <2>1, PlaceOfCell
    <2>3. e.off + 1 <= Len(t) * CellsPerCluster
        <3>1. Len(t) * CellsPerCluster \in Nat
            BY <2>1, Times
        <3> QED BY <1>2, <3>1
    <2>4. Which(e.off + 1) <= Len(t)
        BY <2>1, <2>3, PlaceInChain
    <2> QED BY <1>5, <2>1, <2>2, <2>4
<1>7. ~(i > Len(t)) /\ t[i] \in Clusters
    <2>1. t[i] \in Clusters
        BY <1>6, WholeIs
    <2> QED BY <1>6, <2>1
<1>8. /\ data' = [data EXCEPT ![t[i]] = [data[t[i]] EXCEPT ![(e.off % CellsPerCluster) + 1] = s]]
      /\ fat' = fat /\ call' = [call EXCEPT ![p] = [c EXCEPT !.at = at]]
    <2>1. Chain(e.dir) = t
        BY ChainIsOf
    <2> QED BY <1>7, <2>1 DEF FlushEntry, WriteCluster, Go, i, s
<1>9. data' = Put(data, x, s)
    <2>1. x[1] = t[i] /\ x[2] = (e.off % CellsPerCluster) + 1
        BY <1>5 DEF PlaceOf
    <2> HIDE DEF x
    <2> QED BY <1>8, <2>1 DEF Put
<1>10. x \in Spots
    <2>1. x = <<t[i], Where(e.off + 1)>>
        BY <1>5 DEF PlaceOf
    <2>2. Where(e.off + 1) \in Cols
        BY <1>2, PlaceOfCell
    <2> QED BY <1>7, <2>1, <2>2 DEF Spots
<1>11. data' \in Disk
    <2>1. s \in CellSet
        BY <1>4 DEF CellSet
    <2> HIDE DEF x
    <2> QED BY <1>1, <1>9, <1>10, <2>1, PutIs
<1> QED BY <1>4, <1>8, <1>9, <1>11 DEF s

\* FlushDirectory is a step of its caller that keeps the invariant.
LEMMA FlushDirectorySteps ==
    ASSUME FatInv, SixteenBits, NEW p \in Callers, FlushDirectory(p)
    PROVE  \E c : Steps(p, c)
<1> DEFINE c == call[p]
           s == Slot(c.ent.kind, c.ent.name, c.ent.first, c.ent.size)
           c2 == [c EXCEPT !.at = "done"]
<1>1. /\ c \in CallSet /\ CallInv(fat, data, c) /\ c.at = "flushdir"
      /\ fat \in Table /\ data \in Disk /\ FlushEntry(p, c, "done")
    BY HasCall DEF FlushDirectory
<1>2. Stage(c) = "flushdir" /\ c.op # "write" /\ AllocInv(fat, data, c)
    BY <1>1 DEF CallInv, Stage, StagesOf
<1>3. /\ Sound(fat, View(fat, data, c)) /\ DirOk(fat, View(fat, data, c), c)
      /\ MakeInv(fat, data, c)
    BY <1>1, <1>2 DEF CallInv
<1>4. /\ SlotInDir(fat, c) /\ c.ent.first = c.new /\ c.new \in Clusters /\ c.ent.dir = c.dir
      /\ Whole(fat, c.ent.dir)
    <2>1. SlotInDir(fat, c) /\ c.ent.first = c.new /\ c.new \in Clusters /\ c.ent.dir = c.dir
        BY <1>1, <1>2, <1>3 DEF MakeInv, AllocInv, Unowned, DirOk
    <2> QED BY <1>1, <1>3, <2>1, CallDir
<1>5. /\ s \in SlotCell /\ s.kind = c.ent.kind /\ s.first = c.ent.first /\ s.size = c.ent.size
      /\ data' = Put(data, PlaceOf(fat, c.ent), s) /\ data' \in Disk
      /\ fat' = fat /\ call' = [call EXCEPT ![p] = [c EXCEPT !.at = "done"]]
    <2>1. c.ent.off < Len(ChainOf(fat, c.ent.dir)) * CellsPerCluster
        BY <1>4 DEF SlotInDir
    <2> QED BY <1>1, <1>4, <2>1, FlushIs
<1> HIDE DEF s
<1>6. c2 \in CallSet /\ CallInv(fat, data', c2)
    BY <1>1, <1>5, FlushDirectoryKept
<1> QED BY <1>1, <1>5, <1>6 DEF Steps

\* The bytes of a file, over those of a cluster.
LEMMA RowOfBytes ==
    ASSUME NEW d \in Disk, NEW u \in Clusters, NEW from, NEW n, NEW v \in Values \cup {0}
    PROVE  Overlaid(d[u], from, n, v) \in [Cols -> CellSet]
<1>1. Byte(v) \in CellSet
    BY ZeroIs DEF Byte, CellSet
<1>2. d[u] \in [Cols -> CellSet]
    BY DEF Disk
<1> QED BY <1>1, <1>2 DEF Overlaid

\* What a flush of a file's entry reads.
LEMMA FileFits ==
    ASSUME NEW f \in Table, NEW d \in Disk, NEW c \in CallSet, CallInv(f, d, c), c.op = "write",
           c.at \notin {"done", "failed"}
    PROVE  /\ Whole(f, c.ent.dir) /\ c.ent.off < Len(ChainOf(f, c.ent.dir)) * CellsPerCluster
           /\ c.ent.first \in Clusters \cup {0} /\ c.ent.kind = "file"
           /\ c.value \in Values \cup {0}
<1>1. /\ Whole(f, c.dir) /\ c.ent.dir = c.dir /\ SlotInDir(f, c) /\ WriteInv(f, d, c)
      /\ (c.ent.first # 0 => Whole(f, c.ent.first))
    BY WriteIs
<1>2. c.ent.first \in Clusters \cup {0}
    BY <1>1, WholeIs
<1>3. c.value \in Values \cup {0}
    BY CallIs
<1> QED BY <1>1, <1>2, <1>3 DEF SlotInDir, WriteInv, FileInv

\* AppendStart is a step of its caller that keeps the invariant.
LEMMA AppendStartSteps ==
    ASSUME FatInv, NEW p \in Callers, AppendStart(p)
    PROVE  \E c : Steps(p, c)
<1> DEFINE c == call[p]
           s == ChainOf(fat, c.ent.first)
           used == c.ent.size % CellsPerCluster
           n == Less(CellsPerCluster - used, c.left)
           last == IF s = <<>> THEN 0 ELSE s[Len(s)]
           started == [c EXCEPT !.at = "more", !.last = last]
           writes == c.ent.size > 0 /\ used # 0 /\ s # <<>>
<1>1. /\ c \in CallSet /\ CallInv(fat, data, c) /\ c.at = "append"
      /\ fat \in Table /\ data \in Disk
    BY HasCall DEF AppendStart
<1>2. c.op \in {"write", "truncate"}
    <2>1. "append" \in StagesOf(c.op) /\ c.op \in {"create", "mkdir", "write", "truncate", "unlink", "rmdir"}
        BY <1>1, CallIs DEF CallInv, Stage
    <2> QED BY <2>1 DEF StagesOf
<1>3. /\ writes => /\ data' = [data EXCEPT ![s[Len(s)]] = Overlaid(data[s[Len(s)]], used, n, 0)]
                   /\ fat' = fat /\ call' = [call EXCEPT ![p] = [started EXCEPT !.left = @ - n]]
      /\ ~writes => data' = data /\ fat' = fat /\ call' = [call EXCEPT ![p] = started]
    BY ChainIsOf DEF AppendStart, WriteCluster, Go, NoWrite, Last
<1>4. c.ent.size \in Nat /\ c.left \in Nat
    BY <1>1, CallIs
<1>5. n \in Nat
    <2>1. used \in 0 .. CellsPerCluster - 1
        BY <1>4, Divided
    <2> HIDE DEF used
    <2> QED BY <1>4, <2>1, Geometry DEF Less
<1>6. CASE c.op = "truncate"
    <2>1. c.ent.first = 0 /\ c.ent.size = 0
        BY <1>1, <1>6, TruncateIs
    <2>2. s = <<>>
        BY <2>1, NoChain
    <2>3. data' = data /\ fat' = fat /\ call' = [call EXCEPT ![p] = [c EXCEPT !.at = "more", !.last = 0]]
        BY <1>3, <2>2
    <2>4. [c EXCEPT !.at = "more", !.last = 0] \in CallSet
          /\ CallInv(fat, data, [c EXCEPT !.at = "more", !.last = 0])
        BY <1>1, <1>6, TruncateStart
    <2> QED BY <1>1, <2>3, <2>4 DEF Steps
<1>7. CASE c.op = "write" /\ ~writes
    <2> DEFINE c2 == [c EXCEPT !.at = "more", !.last = last, !.left = c.left - 0]
    <2>1. c2 \in CallSet /\ CallInv(fat, data, c2)
        BY <1>1, <1>7, AppendStartKept
    <2>2. c2 = started
        <3>1. c.left - 0 = c.left
            BY <1>4
        <3> HIDE DEF last
        <3> QED BY <1>1, <3>1 DEF CallSet
    <2> HIDE DEF c2, started
    <2> QED BY <1>1, <1>3, <1>7, <2>1, <2>2 DEF Steps
<1>8. CASE c.op = "write" /\ writes
    <2> DEFINE c2 == [c EXCEPT !.at = "more", !.last = last, !.left = c.left - n]
               u == s[Len(s)]
               row == Overlaid(data[u], used, n, 0)
    <2>1. u \in Clusters
        <3>1. c.ent.first = 0 => s = <<>>
            BY NoChain
        <3>2. Whole(fat, c.ent.first)
            BY <1>1, <1>8, <3>1, WriteIs
        <3>3. Len(s) \in 1 .. Len(s)
            BY <3>2, WholeIs
        <3> QED BY <3>2, <3>3, WholeIs
    <2>2. row \in [Cols -> CellSet]
        BY <1>1, <2>1, RowOfBytes
    <2>3. data' = [data EXCEPT ![u] = row]
        BY <1>3, <1>8
    <2> HIDE DEF row
    <2>4. Rewrites(data, data', u)
        BY <1>1, <2>1, <2>2, <2>3, RowIs
    <2>5. c2 \in CallSet /\ CallInv(fat, data', c2)
        BY <1>1, <1>5, <1>8, <2>4, AppendStartKept
    <2>6. [started EXCEPT !.left = @ - n] = c2
        <3>1. started.left = c.left
            BY <1>1 DEF CallSet
        <3> HIDE DEF last, n
        <3> QED BY <3>1
    <2> HIDE DEF c2, started
    <2>7. data' \in Disk /\ fat' = fat /\ call' = [call EXCEPT ![p] = c2]
        BY <1>3, <1>8, <2>4, <2>6 DEF Rewrites
    <2> QED BY <1>1, <2>5, <2>7 DEF Steps
<1> QED BY <1>2, <1>6, <1>7, <1>8

\* What a flush of a truncated file's entry reads.
LEMMA TruncateFits ==
    ASSUME NEW f \in Table, NEW d \in Disk, NEW c \in CallSet, CallInv(f, d, c), c.op = "truncate",
           c.at \in {"append", "more", "flush"}
    PROVE  /\ Whole(f, c.ent.dir) /\ c.ent.off < Len(ChainOf(f, c.ent.dir)) * CellsPerCluster
           /\ c.ent.first = 0 /\ c.ent.kind = "file" /\ c.ent.size = 0 /\ c.off = 0 /\ c.left = 0
           /\ ChainOf(f, c.ent.first) = <<>>
<1>1. /\ Whole(f, c.dir) /\ c.ent.dir = c.dir /\ SlotInDir(f, c)
      /\ c.ent.first = 0 /\ c.ent.kind = "file" /\ c.ent.size = 0 /\ c.off = 0 /\ c.left = 0
    BY TruncateIs
<1> QED BY <1>1, NoChain DEF SlotInDir

\* AppendMore is a step of its caller that keeps the invariant.
LEMMA AppendMoreSteps ==
    ASSUME FatInv, SixteenBits, NEW p \in Callers, AppendMore(p)
    PROVE  \E c : Steps(p, c)
<1> DEFINE c == call[p]
           t == ChainOf(fat, c.ent.first)
           b == [c EXCEPT !.ent.size = c.off]
           c1 == [b EXCEPT !.chain = t]
           s == Slot(c.ent.kind, c.ent.name, c.ent.first, c.off)
<1>1. /\ c \in CallSet /\ CallInv(fat, data, c) /\ c.at = "more"
      /\ fat \in Table /\ data \in Disk
    BY HasCall DEF AppendMore
<1>2. c.op \in {"write", "truncate"}
    <2>1. "more" \in StagesOf(c.op) /\ c.op \in {"create", "mkdir", "write", "truncate", "unlink", "rmdir"}
        BY <1>1, CallIs DEF CallInv, Stage
    <2> QED BY <2>1 DEF StagesOf
<1>3. CASE c.left > 0
    <2>1. c.op = "write"
        <3>1. c.op = "truncate" => c.left = 0
            BY <1>1, TruncateFits
        <3> QED BY <1>2, <1>3, <3>1
    <2> DEFINE c2 == Allocate(c, "linkmore")
    <2>2. call' = [call EXCEPT ![p] = c2] /\ fat' = fat /\ data' = data
        BY <1>3 DEF AppendMore, Go, NoWrite
    <2>3. c2 \in CallSet /\ CallInv(fat, data, c2)
        BY <1>1, <2>1, AppendMoreKept
    <2> HIDE DEF c2
    <2> QED BY <1>1, <2>2, <2>3 DEF Steps
<1>4. CASE ~(c.left > 0)
    <2>1. FlushEntry(p, c1, IF c.op = "write" THEN "grow" ELSE "flush")
        <3>1. c1 = [c EXCEPT !.ent.size = c.off, !.chain = Chain(c.ent.first)]
            BY ChainIsOf
        <3> QED BY <1>4, <3>1 DEF AppendMore
    <2>2. /\ Whole(fat, c.ent.dir) /\ c.ent.off < Len(ChainOf(fat, c.ent.dir)) * CellsPerCluster
          /\ c.ent.first \in Clusters \cup {0} /\ c.ent.kind = "file"
        BY <1>1, <1>2, FileFits, TruncateFits
    <2>3. t \in Seq(Clusters)
        <3>1. CASE c.ent.first = 0
            <4>1. t = <<>>
                BY <3>1, NoChain
            <4> QED BY <4>1
        <3>2. CASE c.ent.first # 0
            <4>1. c.op = "write"
                BY <1>1, <1>2, <3>2, TruncateFits
            <4>2. Whole(fat, c.ent.first)
                BY <1>1, <3>2, <4>1, WriteIs
            <4> QED BY <4>2, WholeIs
        <3> QED BY <3>1, <3>2
    <2>4. c.off \in Nat /\ c.ent \in EntrySet
        BY <1>1, CallIs
    <2>5. /\ b \in CallSet /\ b.ent = [c.ent EXCEPT !.size = c.off]
        <3>1. c \in CallSet /\ c.off \in Nat
            BY <1>1, <2>4
        <3> QED BY ONLY <3>1, EntIs DEF b
    <2>6. /\ b.ent.dir = c.ent.dir /\ b.ent.off = c.ent.off /\ b.ent.kind = c.ent.kind
          /\ b.ent.name = c.ent.name /\ b.ent.first = c.ent.first /\ b.ent.size = c.off
        BY <2>4, <2>5 DEF EntrySet
    <2> HIDE DEF b, t
    <2>7. c1 \in CallSet /\ c1.ent = b.ent
        BY <2>3, <2>5 DEF CallSet
    <2> HIDE DEF c1
    <2>8. PlaceOf(fat, c1.ent) = PlaceOf(fat, c.ent)
        BY <2>6, <2>7 DEF PlaceOf
    <2> DEFINE at == IF c.op = "write" THEN "grow" ELSE "flush"
               z == Slot(c1.ent.kind, c1.ent.name, c1.ent.first, c1.ent.size)
    <2>9. /\ z \in SlotCell /\ z.kind = c1.ent.kind /\ z.first = c1.ent.first /\ z.size = c1.ent.size
          /\ data' = Put(data, PlaceOf(fat, c1.ent), z) /\ data' \in Disk
          /\ fat' = fat /\ call' = [call EXCEPT ![p] = [c1 EXCEPT !.at = at]]
        <3>1. /\ Whole(fat, c1.ent.dir) /\ c1.ent.off < Len(ChainOf(fat, c1.ent.dir)) * CellsPerCluster
              /\ c1.ent.first \in Clusters \cup {0}
            BY <2>2, <2>6, <2>7
        <3> QED BY <2>1, <2>7, <3>1, FlushIs
    <2> HIDE DEF z
    <2>10. /\ z \in SlotCell /\ z.kind = "file" /\ z.first = c.ent.first /\ z.size = c.off
           /\ data' = Put(data, PlaceOf(fat, c.ent), z)
        BY <2>2, <2>6, <2>7, <2>8, <2>9
    <2>11. CASE c.op = "write"
        <3> DEFINE c2 == [c EXCEPT !.ent.size = c.off, !.chain = t, !.at = "grow"]
        <3>1. c2 \in CallSet /\ CallInv(fat, data', c2)
            BY <1>1, <1>4, <2>10, <2>11, AppendEndKept DEF t
        <3>2. c2 = [c1 EXCEPT !.at = at]
            BY <2>11 DEF c1, b
        <3> HIDE DEF c2, at
        <3> QED BY <1>1, <2>9, <3>1, <3>2 DEF Steps
    <2>12. CASE c.op = "truncate"
        <3> DEFINE c2 == [[c EXCEPT !.ent.size = c.off] EXCEPT !.chain = t, !.at = "flush"]
        <3>1. c2 \in CallSet /\ CallInv(fat, data', c2)
            <4>1. z.first = 0 /\ z.size = 0
                BY <1>1, <2>10, <2>12, TruncateFits
            <4> QED BY <1>1, <2>10, <2>12, <4>1, TruncateEnds DEF t
        <3>2. c2 = [c1 EXCEPT !.at = at]
            BY <2>12 DEF c1, b
        <3> HIDE DEF c2, at
        <3> QED BY <1>1, <2>9, <3>1, <3>2 DEF Steps
    <2> QED BY <1>2, <2>11, <2>12
<1> QED BY <1>3, <1>4

\* Where a call is tells which call it is.
LEMMA OpIs ==
    ASSUME NEW f, NEW d, NEW c \in CallSet, CallInv(f, d, c)
    PROVE  /\ c.at \in {"linkmore", "fill", "grow", "link", "put", "size"} => c.op = "write"
           /\ c.at = "flush" => c.op = "truncate"
           /\ c.at = "slots" => c.op \in {"unlink", "rmdir"}
<1>1. c.op \in {"create", "mkdir", "write", "truncate", "unlink", "rmdir"}
    BY CallIs
<1>2. c.at \notin {"find", "mark", "free"} => c.at \in StagesOf(c.op)
    BY DEF CallInv, Stage
<1>3. CASE c.op \in {"create", "mkdir"}
    BY <1>2, <1>3 DEF StagesOf
<1>4. CASE c.op = "write"
    BY <1>2, <1>4 DEF StagesOf
<1>5. CASE c.op = "truncate"
    BY <1>2, <1>5 DEF StagesOf
<1>6. CASE c.op \in {"unlink", "rmdir"}
    BY <1>2, <1>6 DEF StagesOf
<1> QED BY <1>1, <1>3, <1>4, <1>5, <1>6

\* LinkMore is a step of its caller that keeps the invariant.
LEMMA LinkMoreSteps ==
    ASSUME FatInv, SixteenBits, NEW p \in Callers, LinkMore(p)
    PROVE  \E c : Steps(p, c)
<1> DEFINE c == call[p]
           c1 == [c EXCEPT !.ent.first = c.new]
<1>1. /\ c \in CallSet /\ CallInv(fat, data, c) /\ c.at = "linkmore"
      /\ fat \in Table /\ data \in Disk
    BY HasCall DEF LinkMore
<1>2. c.op = "write"
    BY <1>1, OpIs
<1>3. /\ Whole(fat, c.ent.dir) /\ c.ent.off < Len(ChainOf(fat, c.ent.dir)) * CellsPerCluster
      /\ c.ent.kind = "file" /\ c.new \in Clusters
    BY <1>1, <1>2, FileFits, FirstIs
<1>4. CASE c.last = 0
    <2>1. FlushEntry(p, c1, "fill")
        <3>1. c.new % FirstLimit = c.new
            BY <1>3, FirstFits
        <3> QED BY <1>4, <3>1 DEF LinkMore
    <2>2. /\ c1 \in CallSet /\ c1.ent.first = c.new /\ c1.ent.size = c.ent.size
          /\ c1.ent.dir = c.ent.dir /\ c1.ent.off = c.ent.off /\ c1.ent.kind = c.ent.kind
        <3>1. c.new \in Nat
            BY <1>1, CallIs
        <3> QED BY <1>1, <3>1, EntIs
    <2> HIDE DEF c1
    <2>3. PlaceOf(fat, c1.ent) = PlaceOf(fat, c.ent)
        BY <2>2 DEF PlaceOf
    <2> DEFINE z == Slot(c1.ent.kind, c1.ent.name, c1.ent.first, c1.ent.size)
               c2 == [c1 EXCEPT !.at = "fill"]
    <2>4. /\ z \in SlotCell /\ z.kind = c1.ent.kind /\ z.first = c1.ent.first /\ z.size = c1.ent.size
          /\ data' = Put(data, PlaceOf(fat, c1.ent), z) /\ data' \in Disk
          /\ fat' = fat /\ call' = [call EXCEPT ![p] = c2]
        <3>1. /\ Whole(fat, c1.ent.dir) /\ c1.ent.off < Len(ChainOf(fat, c1.ent.dir)) * CellsPerCluster
              /\ c1.ent.first \in Clusters \cup {0}
            BY <1>3, <2>2
        <3> QED BY <2>1, <2>2, <3>1, FlushIs
    <2> HIDE DEF z
    <2>5. c2 \in CallSet /\ CallInv(fat, data', c2)
        <3>1. /\ z \in SlotCell /\ z.kind = "file" /\ z.first = c.new /\ z.size = c.ent.size
              /\ data' = Put(data, PlaceOf(fat, c.ent), z)
            BY <1>3, <2>2, <2>3, <2>4
        <3> QED BY <1>1, <1>2, <1>4, <3>1, LinkMoreFirst DEF c1
    <2> HIDE DEF c2
    <2> QED BY <1>1, <2>4, <2>5 DEF Steps
<1>5. CASE c.last # 0
    <2> DEFINE c2 == [c EXCEPT !.at = "fill"]
    <2>1. fat' = [fat EXCEPT ![c.last] = c.new] /\ data' = data /\ call' = [call EXCEPT ![p] = c2]
        BY <1>5 DEF LinkMore, SetNextCluster, Go
    <2>2. c.last \in Clusters
        <3>1. c.ent.first # 0 /\ WriteInv(fat, data, c)
            BY <1>1, <1>2, <1>5, FirstIs, WriteIs
        <3>2. Whole(fat, c.ent.first) /\ c.last = ChainOf(fat, c.ent.first)[Len(ChainOf(fat, c.ent.first))]
            <4>1. Stage(c) = "linkmore"
                BY <1>1 DEF Stage
            <4>2. Whole(fat, c.ent.first)
                BY <1>1, <1>2, <3>1, WriteIs
            <4> QED BY <3>1, <4>1, <4>2 DEF WriteInv, SpanInv
        <3>3. Len(ChainOf(fat, c.ent.first)) \in 1 .. Len(ChainOf(fat, c.ent.first))
            BY <3>2, WholeIs
        <3> QED BY <3>2, <3>3, WholeIs
    <2>3. Changes(fat, fat', c.last, c.new)
        BY <1>1, <1>3, <2>1, <2>2, SetIs
    <2>4. c2 \in CallSet /\ CallInv(fat', data, c2)
        BY <1>1, <1>2, <1>5, <2>3, LinkMoreNext
    <2>5. fat' \in Table
        BY <2>3 DEF Changes
    <2> HIDE DEF c2
    <2> QED BY <1>1, <2>1, <2>4, <2>5 DEF Steps
<1> QED BY <1>4, <1>5

\* FillMore is a step of its caller that keeps the invariant.
LEMMA FillMoreSteps ==
    ASSUME FatInv, NEW p \in Callers, FillMore(p)
    PROVE  \E c : Steps(p, c)
<1> DEFINE c == call[p]
           row == Zeros(CellsPerCluster)
           c2 == [c EXCEPT !.at = "more", !.last = c.new, !.left = @ - Less(CellsPerCluster, @)]
<1>1. /\ c \in CallSet /\ CallInv(fat, data, c) /\ c.at = "fill"
      /\ fat \in Table /\ data \in Disk
    BY HasCall DEF FillMore
<1>2. c.op = "write"
    BY <1>1, OpIs
<1>3. fat' = fat /\ data' = [data EXCEPT ![c.new] = row] /\ call' = [call EXCEPT ![p] = c2]
    BY DEF FillMore, WriteCluster, Go
<1>4. row \in [Cols -> CellSet]
    BY ZeroIs
<1> HIDE DEF row
<1>5. c.new \in Clusters
    <2>1. WriteInv(fat, data, c) /\ (c.ent.first = 0 => ChainOf(fat, c.ent.first) = <<>>)
          /\ (c.ent.first # 0 => Whole(fat, c.ent.first))
        BY <1>1, <1>2, WriteIs
    <2>2. ChainOf(fat, c.ent.first) # <<>> /\ c.new = ChainOf(fat, c.ent.first)[Len(ChainOf(fat, c.ent.first))]
        BY <1>1, <2>1 DEF WriteInv, SpanInv
    <2>3. Whole(fat, c.ent.first)
        BY <2>1, <2>2
    <2>4. Len(ChainOf(fat, c.ent.first)) \in 1 .. Len(ChainOf(fat, c.ent.first))
        BY <2>3, WholeIs
    <2> QED BY <2>2, <2>3, <2>4, WholeIs
<1>6. Rewrites(data, data', c.new)
    BY <1>1, <1>3, <1>4, <1>5, RowIs
<1>7. c2 \in CallSet /\ CallInv(fat, data', c2)
    BY <1>1, <1>2, <1>6, FillMoreKept
<1>8. data' \in Disk
    BY <1>6 DEF Rewrites
<1> HIDE DEF c2
<1> QED BY <1>1, <1>3, <1>7, <1>8 DEF Steps

\* FlushTruncated is a step of its caller that keeps the invariant.
LEMMA FlushTruncatedSteps ==
    ASSUME FatInv, SixteenBits, NEW p \in Callers, FlushTruncated(p)
    PROVE  \E c : Steps(p, c)
<1> DEFINE c == call[p]
           s == Slot(c.ent.kind, c.ent.name, c.ent.first, c.ent.size)
           c2 == [c EXCEPT !.at = "done"]
<1>1. /\ c \in CallSet /\ CallInv(fat, data, c) /\ c.at = "flush"
      /\ fat \in Table /\ data \in Disk /\ FlushEntry(p, c, "done")
    BY HasCall DEF FlushTruncated
<1>2. c.op = "truncate"
    BY <1>1, OpIs
<1>3. /\ Whole(fat, c.ent.dir) /\ c.ent.off < Len(ChainOf(fat, c.ent.dir)) * CellsPerCluster
      /\ c.ent.first = 0 /\ c.ent.kind = "file" /\ c.ent.size = 0
    BY <1>1, <1>2, TruncateFits
<1>4. /\ s \in SlotCell /\ s.kind = c.ent.kind /\ s.first = c.ent.first /\ s.size = c.ent.size
      /\ data' = Put(data, PlaceOf(fat, c.ent), s) /\ data' \in Disk
      /\ fat' = fat /\ call' = [call EXCEPT ![p] = [c EXCEPT !.at = "done"]]
    BY <1>1, <1>3, FlushIs
<1> HIDE DEF s
<1>5. Sound(fat, data')
    <2>1. s.kind = "file" /\ s.first = 0 /\ s.size = 0
        BY <1>3, <1>4
    <2> QED BY <1>1, <1>2, <1>4, <2>1, TruncateFlush
<1>6. c2 \in CallSet /\ CallInv(fat, data', c2)
    BY <1>1, <1>5, EndKept
<1> QED BY <1>1, <1>4, <1>6 DEF Steps

\* GrowFile is a step of its caller that keeps the invariant.
LEMMA GrowSteps ==
    ASSUME FatInv, NEW p \in Callers, GrowFile(p)
    PROVE  \E c : Steps(p, c)
<1> DEFINE c == call[p]
           c2 == IF Len(c.chain) < ClustersFor(c.off + c.size) THEN Allocate(c, "link")
                 ELSE [c EXCEPT !.at = "put", !.k = c.off \div CellsPerCluster + 1]
<1>1. /\ c \in CallSet /\ CallInv(fat, data, c) /\ c.at = "grow"
      /\ fat \in Table /\ data \in Disk
    BY HasCall DEF GrowFile
<1>2. c.op = "write"
    BY <1>1, OpIs
<1>3. fat' = fat /\ data' = data /\ call' = [call EXCEPT ![p] = c2]
    BY DEF GrowFile, NoWrite, Go
<1>4. c2 \in CallSet /\ CallInv(fat, data, c2)
    BY <1>1, <1>2, GrowKept
<1> HIDE DEF c2
<1> QED BY <1>1, <1>3, <1>4 DEF Steps

\* LinkFile is a step of its caller that keeps the invariant.
LEMMA LinkFileSteps ==
    ASSUME FatInv, SixteenBits, NEW p \in Callers, LinkFile(p)
    PROVE  \E c : Steps(p, c)
<1> DEFINE c == call[p]
           t == Append(c.chain, c.new)
           b == [c EXCEPT !.ent.first = c.new]
           c1 == [b EXCEPT !.chain = t]
<1>1. /\ c \in CallSet /\ CallInv(fat, data, c) /\ c.at = "link"
      /\ fat \in Table /\ data \in Disk
    BY HasCall DEF LinkFile
<1>2. c.op = "write"
    BY <1>1, OpIs
<1>3. /\ Whole(fat, c.ent.dir) /\ c.ent.off < Len(ChainOf(fat, c.ent.dir)) * CellsPerCluster
      /\ c.ent.kind = "file" /\ c.new \in Clusters
    BY <1>1, <1>2, FileFits, FirstIs
<1>4. t \in Seq(Clusters) /\ c.chain \in Seq(Clusters)
    <2>1. c.chain \in Seq(Clusters)
        BY <1>1, CallIs
    <2> QED BY <1>3, <2>1, AppendIs
<1>5. CASE c.chain = <<>>
    <2>1. c.new \in Nat
        BY <1>1, CallIs
    <2>2. /\ b \in CallSet /\ b.ent.first = c.new /\ b.ent.size = c.ent.size
          /\ b.ent.dir = c.ent.dir /\ b.ent.off = c.ent.off /\ b.ent.kind = c.ent.kind
        BY <1>1, <2>1, EntIs
    <2>3. FlushEntry(p, c1, "grow")
        <3> DEFINE c0 == [c EXCEPT !.chain = t]
        <3>1. c0.ent = c.ent /\ c0.new = c.new /\ c.new % FirstLimit = c.new
            BY <1>1, <1>3, FirstFits DEF CallSet
        <3>2. FlushEntry(p, [c0 EXCEPT !.ent.first = c0.new % FirstLimit], "grow")
            BY <1>5 DEF LinkFile
        <3>3. [c0 EXCEPT !.ent.first = c0.new % FirstLimit] = c1
            <4>1. c0 \in CallSet /\ c0.new % FirstLimit = c.new
                BY <1>1, <1>4, <3>1 DEF CallSet
            <4> DEFINE x == [c.ent EXCEPT !.first = c.new]
            <4>2. b = [c EXCEPT !.ent = x]
                OBVIOUS
            <4>3. [c0 EXCEPT !.ent.first = c0.new % FirstLimit] = [c0 EXCEPT !.ent = x]
                BY <3>1, <4>1
            <4> HIDE DEF x, t
            <4>4. [[c EXCEPT !.chain = t] EXCEPT !.ent = x] = [[c EXCEPT !.ent = x] EXCEPT !.chain = t]
                BY <1>1 DEF CallSet
            <4> QED BY <4>2, <4>3, <4>4
        <3> QED BY <3>2, <3>3
    <2> HIDE DEF b
    <2>4. c1 \in CallSet /\ c1.ent = b.ent
        BY <1>4, <2>2 DEF CallSet
    <2> HIDE DEF c1
    <2>5. PlaceOf(fat, c1.ent) = PlaceOf(fat, c.ent)
        BY <2>2, <2>4 DEF PlaceOf
    <2> DEFINE z == Slot(c1.ent.kind, c1.ent.name, c1.ent.first, c1.ent.size)
               c2 == [c1 EXCEPT !.at = "grow"]
    <2>6. /\ z \in SlotCell /\ z.kind = c1.ent.kind /\ z.first = c1.ent.first /\ z.size = c1.ent.size
          /\ data' = Put(data, PlaceOf(fat, c1.ent), z) /\ data' \in Disk
          /\ fat' = fat /\ call' = [call EXCEPT ![p] = c2]
        <3>1. /\ Whole(fat, c1.ent.dir) /\ c1.ent.off < Len(ChainOf(fat, c1.ent.dir)) * CellsPerCluster
              /\ c1.ent.first \in Clusters \cup {0}
            BY <1>3, <2>2, <2>4
        <3> QED BY <2>3, <2>4, <3>1, FlushIs
    <2> HIDE DEF z
    <2>7. c2 \in CallSet /\ CallInv(fat, data', c2)
        <3>1. /\ z \in SlotCell /\ z.kind = "file" /\ z.first = c.new /\ z.size = c.ent.size
              /\ data' = Put(data, PlaceOf(fat, c.ent), z)
            BY <1>3, <2>2, <2>4, <2>5, <2>6
        <3> DEFINE c3 == [[c EXCEPT !.ent.first = c.new]
                             EXCEPT !.chain = Append(c.chain, c.new), !.at = "grow"]
        <3>2. c3 \in CallSet /\ CallInv(fat, data', c3)
            BY <1>1, <1>2, <1>5, <3>1, LinkFileFirst
        <3>3. c3 = c2
            BY DEF c1, b
        <3> QED BY <3>2, <3>3
    <2> HIDE DEF c2
    <2> QED BY <1>1, <2>6, <2>7 DEF Steps
<1>6. CASE c.chain # <<>>
    <2> DEFINE c2 == [c EXCEPT !.chain = Append(c.chain, c.new), !.at = "grow"]
               u == c.chain[Len(c.chain)]
    <2>1. fat' = [fat EXCEPT ![u] = c.new] /\ data' = data /\ call' = [call EXCEPT ![p] = c2]
        <3> DEFINE c0 == [c EXCEPT !.chain = t]
        <3>1. c0.new = c.new /\ [c0 EXCEPT !.at = "grow"] = c2
            BY <1>1 DEF CallSet
        <3>2. fat' = [fat EXCEPT ![u] = c0.new] /\ data' = data
              /\ call' = [call EXCEPT ![p] = [c0 EXCEPT !.at = "grow"]]
            BY <1>6 DEF LinkFile, SetNextCluster, Go, Last
        <3> QED BY <3>1, <3>2
    <2>2. u \in Clusters
        <3>1. Len(c.chain) \in 1 .. Len(c.chain)
            BY <1>4, <1>6, EmptySeq, LenProperties
        <3> QED BY <1>4, <3>1, ElementOfSeq
    <2>3. Changes(fat, fat', u, c.new)
        BY <1>1, <1>3, <2>1, <2>2, SetIs
    <2>4. c2 \in CallSet /\ CallInv(fat', data, c2)
        BY <1>1, <1>2, <1>6, <2>3, LinkFileNext
    <2>5. fat' \in Table
        BY <2>3 DEF Changes
    <2> HIDE DEF c2
    <2> QED BY <1>1, <2>1, <2>4, <2>5 DEF Steps
<1> QED BY <1>5, <1>6

\* PutCluster is a step of its caller that keeps the invariant.
LEMMA PutSteps ==
    ASSUME FatInv, NEW p \in Callers, PutCluster(p)
    PROVE  \E c : Steps(p, c)
<1> DEFINE c == call[p]
           u == c.chain[c.k]
           N == ClustersFor(c.off + c.size)
           c2 == IF c.k < N THEN [c EXCEPT !.k = @ + 1]
                 ELSE [c EXCEPT !.at = IF c.off + c.size > c.ent.size THEN "size" ELSE "done"]
<1>1. /\ c \in CallSet /\ CallInv(fat, data, c) /\ c.at = "put"
      /\ fat \in Table /\ data \in Disk
    BY HasCall DEF PutCluster
<1>2. c.op = "write"
    BY <1>1, OpIs
<1>3. PICK from, n : data' = [data EXCEPT ![u] = Overlaid(data[u], from, n, c.value)]
    BY DEF PutCluster, WriteCluster
<1>4. fat' = fat /\ call' = [call EXCEPT ![p] = c2]
    BY DEF PutCluster, WriteCluster, Go
<1>5. u \in Clusters
    <2>1. WriteInv(fat, data, c)
        BY <1>1, <1>2, WriteIs
    <2>2. N <= Len(c.chain) /\ c.k \in 1 .. N
        BY <1>1, <2>1 DEF WriteInv, SpanInv
    <2>3. c.chain \in Seq(Clusters) /\ Len(c.chain) \in Nat /\ c.off \in Nat /\ c.size \in Nat
        BY <1>1, CallIs, LenProperties
    <2>4. N \in Nat
        <3>1. c.off + c.size \in Nat
            BY <2>3
        <3> QED BY <3>1, ClustersForIs
    <2> HIDE DEF N
    <2>5. c.k \in 1 .. Len(c.chain)
        BY <2>2, <2>3, <2>4
    <2> QED BY <2>3, <2>5, ElementOfSeq
<1>6. c.value \in Values \cup {0}
    BY <1>1, CallIs
<1> DEFINE row == Overlaid(data[u], from, n, c.value)
<1>7. row \in [Cols -> CellSet]
    BY <1>1, <1>5, <1>6, RowOfBytes
<1> HIDE DEF row
<1>8. Rewrites(data, data', u)
    BY <1>1, <1>3, <1>5, <1>7, RowIs DEF row
<1>9. c2 \in CallSet /\ CallInv(fat, data', c2)
    BY <1>1, <1>2, <1>8, PutKept
<1>10. data' \in Disk
    BY <1>8 DEF Rewrites
<1> HIDE DEF c2
<1> QED BY <1>1, <1>4, <1>9, <1>10 DEF Steps

\* FlushSize is a step of its caller that keeps the invariant.
LEMMA FlushSizeSteps ==
    ASSUME FatInv, SixteenBits, NEW p \in Callers, FlushSize(p)
    PROVE  \E c : Steps(p, c)
<1> DEFINE c == call[p]
           c1 == [c EXCEPT !.ent.size = c.off + c.size]
           c2 == [c1 EXCEPT !.at = "done"]
<1>1. /\ c \in CallSet /\ CallInv(fat, data, c) /\ c.at = "size"
      /\ fat \in Table /\ data \in Disk /\ FlushEntry(p, c1, "done")
    BY HasCall DEF FlushSize
<1>2. c.op = "write"
    BY <1>1, OpIs
<1>3. /\ Whole(fat, c.ent.dir) /\ c.ent.off < Len(ChainOf(fat, c.ent.dir)) * CellsPerCluster
      /\ c.ent.kind = "file" /\ c.ent.first \in Clusters \cup {0}
    BY <1>1, <1>2, FileFits
<1>4. /\ c1 \in CallSet /\ c1.ent.first = c.ent.first /\ c1.ent.size = c.off + c.size
      /\ c1.ent.dir = c.ent.dir /\ c1.ent.off = c.ent.off /\ c1.ent.kind = c.ent.kind
    <2>1. c.off \in Nat /\ c.size \in Nat
        BY <1>1, CallIs
    <2>2. c.off + c.size \in Nat
        BY <2>1
    <2> QED BY <1>1, <2>2, EntIs
<1> HIDE DEF c1
<1>5. PlaceOf(fat, c1.ent) = PlaceOf(fat, c.ent)
    BY <1>4 DEF PlaceOf
<1> DEFINE z == Slot(c1.ent.kind, c1.ent.name, c1.ent.first, c1.ent.size)
<1>6. /\ z \in SlotCell /\ z.kind = c1.ent.kind /\ z.first = c1.ent.first /\ z.size = c1.ent.size
      /\ data' = Put(data, PlaceOf(fat, c1.ent), z) /\ data' \in Disk
      /\ fat' = fat /\ call' = [call EXCEPT ![p] = c2]
    <2>1. /\ Whole(fat, c1.ent.dir) /\ c1.ent.off < Len(ChainOf(fat, c1.ent.dir)) * CellsPerCluster
          /\ c1.ent.first \in Clusters \cup {0}
        BY <1>3, <1>4
    <2> QED BY <1>1, <1>4, <2>1, FlushIs
<1> HIDE DEF z
<1>7. c2 \in CallSet /\ CallInv(fat, data', c2)
    <2>1. /\ z \in SlotCell /\ z.kind = "file" /\ z.first = c.ent.first /\ z.size = c.off + c.size
          /\ data' = Put(data, PlaceOf(fat, c.ent), z)
        BY <1>3, <1>4, <1>5, <1>6
    <2> QED BY <1>1, <1>2, <2>1, FlushSizeKept DEF c1
<1> HIDE DEF c2
<1> QED BY <1>1, <1>6, <1>7 DEF Steps

-----------------------------------------------------------------------------
(* What a call reads when it begins.                                       *)

\* What readFile of a chain returns, cell by cell.
LEMMA CellsIs ==
    ASSUME data \in Disk, NEW s \in Seq(Clusters)
    PROVE  /\ Cells(s) \in Seq(CellSet) /\ Len(s) * CellsPerCluster \in Nat /\ Len(s) \in Nat
           /\ Len(Cells(s)) = Len(s) * CellsPerCluster
           /\ DOMAIN Cells(s) = 1 .. Len(s) * CellsPerCluster
           /\ \A i \in 1 .. Len(s) * CellsPerCluster :
                 /\ Which(i) \in 1 .. Len(s) /\ Where(i) \in Cols /\ s[Which(i)] \in Clusters
                 /\ Cells(s)[i] = Cell(data, <<s[Which(i)], Where(i)>>)
                 /\ Cells(s)[i] \in CellSet
<1> DEFINE n == Len(s) * CellsPerCluster
           C(i) == Cell(data, <<s[Which(i)], Where(i)>>)
<1>1. n \in Nat /\ Len(s) \in Nat
    BY LenProperties, Times
<1>2. ASSUME NEW i \in 1 .. n
      PROVE  /\ Which(i) \in 1 .. Len(s) /\ Where(i) \in Cols /\ s[Which(i)] \in Clusters
             /\ C(i) \in CellSet
    <2>1. i \in Nat \ {0} /\ i <= n
        BY <1>1
    <2>2. Which(i) \in 1 .. Len(s) /\ Where(i) \in Cols
        BY <1>1, <2>1, PlaceOfCell, PlaceInChain
    <2>3. s[Which(i)] \in Clusters
        BY <2>2, ElementOfSeq
    <2> QED BY <2>2, <2>3 DEF Cell, Disk
<1>3. Cells(s) = [i \in 1 .. n |-> C(i)]
    BY DEF Cells, Which, Where, Cell
<1> HIDE DEF n, C
<1>4. Cells(s) \in Seq(CellSet)
    BY <1>1, <1>2, <1>3, IsASeq
<1>5. Len(Cells(s)) = n /\ DOMAIN Cells(s) = 1 .. n
    BY <1>1, <1>3, <1>4, LenProperties
<1>6. \A i \in 1 .. n : Cells(s)[i] = C(i)
    BY <1>3
<1> QED BY <1>1, <1>2, <1>4, <1>5, <1>6 DEF n, C

\* An entry is what its cell says, at a place of its directory.
SlotOf(e) == [kind |-> e.kind, name |-> e.name, first |-> e.first, size |-> e.size]

\* What a listed entry is: a slot on the disk, in the directory that was read.
LEMMA EntriesIs ==
    ASSUME data \in Disk, NEW dir \in Clusters, Whole(fat, dir), NEW e \in Entries(dir)
    PROVE  /\ e \in EntrySet /\ e.dir = dir /\ e.off \in Nat
           /\ e.off < Len(ChainOf(fat, dir)) * CellsPerCluster
           /\ Which(e.off + 1) \in 1 .. Len(ChainOf(fat, dir)) /\ Where(e.off + 1) \in Cols
           /\ PlaceOf(fat, e) \in Spots /\ PlaceOf(fat, e)[1] \in Own(fat, dir)
           /\ IsEntry(Cell(data, PlaceOf(fat, e)))
           /\ Cell(data, PlaceOf(fat, e)) = SlotOf(e)
           /\ e.first \in Nat /\ e.size \in Nat /\ e.kind \in {"file", "dir"} /\ e.name \in Names
<1> DEFINE s == ChainOf(fat, dir)
           cells == Cells(s)
           n == Len(s) * CellsPerCluster
<1>1. s \in Seq(Clusters) /\ Len(s) \in Nat /\ \A i \in 1 .. Len(s) : s[i] \in Own(fat, dir)
    BY WholeIs
<1> HIDE DEF s
<1>2. /\ DOMAIN cells = 1 .. n /\ n \in Nat
      /\ \A i \in 1 .. n : /\ Which(i) \in 1 .. Len(s) /\ Where(i) \in Cols /\ s[Which(i)] \in Clusters
                           /\ cells[i] = Cell(data, <<s[Which(i)], Where(i)>>) /\ cells[i] \in CellSet
    BY <1>1, CellsIs
<1>3. Entries(dir) = {Entry(dir, i - 1, cells[i]) : i \in Live(cells)}
    BY ChainIsOf DEF Entries, s
<1> HIDE DEF cells, n
<1>4. PICK i \in Live(cells) : e = Entry(dir, i - 1, cells[i])
    BY <1>3
<1>5. i \in 1 .. n /\ IsEntry(cells[i])
    BY <1>2, <1>4 DEF Live, IsEntry
<1>6. i - 1 \in Nat /\ (i - 1) + 1 = i /\ i - 1 < n
    BY <1>2, <1>5
<1>7. e.dir = dir /\ e.off = i - 1 /\ SlotOf(e) = [kind |-> cells[i].kind, name |-> cells[i].name,
         first |-> cells[i].first, size |-> cells[i].size]
    BY <1>4 DEF Entry, SlotOf
<1>8. PlaceOf(fat, e) = <<s[Which(i)], Where(i)>>
    BY <1>6, <1>7 DEF PlaceOf, s
<1>9. PlaceOf(fat, e) \in Spots /\ PlaceOf(fat, e)[1] \in Own(fat, dir)
      /\ Cell(data, PlaceOf(fat, e)) = cells[i]
    BY <1>1, <1>2, <1>5, <1>8 DEF Spots
<1>10. cells[i] \in SlotCell
    BY <1>5, <1>9, EntryIs
<1>11. SlotOf(e) = cells[i]
    BY <1>7, <1>10 DEF SlotCell
<1>12. /\ e \in EntrySet /\ e.first \in Nat /\ e.size \in Nat
       /\ e.kind \in {"file", "dir"} /\ e.name \in Names
    BY <1>4, <1>6, <1>10, Geometry DEF SlotCell, EntrySet, Entry
<1> QED BY <1>2, <1>5, <1>6, <1>7, <1>9, <1>11, <1>12 DEF s, n

\* Where a call starts is a directory.
LEMMA HomeIs ==
    ASSUME data \in Disk, Sound(fat, data), NEW home \in Homes
    PROVE  /\ \E y \in Dirs(fat, data) : First(data, y) = home.first
           /\ home.path \in Seq(Names) /\ home.first \in Clusters
           /\ Whole(fat, home.first)
<1>1. Whole(fat, Root) /\ Root \in Clusters
    BY Geometry DEF Sound
<1>2. CASE home = [path |-> <<>>, first |-> Root]
    BY <1>1, <1>2, RootIs
<1>3. ASSUME NEW e \in Entries(Root), Usable(e), home = [path |-> <<e.name>>, first |-> e.first]
      PROVE  /\ \E y \in Dirs(fat, data) : First(data, y) = home.first
             /\ home.path \in Seq(Names) /\ home.first \in Clusters
             /\ Whole(fat, home.first)
    <2> DEFINE x == PlaceOf(fat, e)
    <2>1. x \in Spots /\ x[1] \in Own(fat, Root) /\ Cell(data, x) = SlotOf(e) /\ e.name \in Names
        BY <1>1, <1>3, EntriesIs
    <2> HIDE DEF x
    <2>2. Cell(data, x).kind = e.kind /\ Cell(data, x).first = e.first
        BY <2>1 DEF SlotOf
    <2>3. x \in Dirs(fat, data) /\ First(data, x) = e.first
        BY <1>3, <2>1, <2>2, SpotIs DEF Usable, IsDir, Dirs
    <2>4. Whole(fat, e.first)
        BY <2>3, PlaceIs, HolderIs
    <2> QED BY <1>3, <2>1, <2>3, <2>4, WholeIs
<1>4. home = [path |-> <<>>, first |-> Root]
      \/ \E e \in Entries(Root) : Usable(e) /\ home = [path |-> <<e.name>>, first |-> e.first]
    BY DEF Homes
<1> QED BY <1>2, <1>3, <1>4

\* A call begins when no call is at work.
LEMMA Begun ==
    ASSUME FatInv, OneCaller, NEW p \in Callers, call[p] = Idle
    PROVE  Quiet /\ Sound(fat, data) /\ fat \in Table /\ data \in Disk
BY DEF FatInv, OneCaller, Quiet

-----------------------------------------------------------------------------
(* The calls begin.                                                        *)

\* The slots of a new name: those of the long name, and a blank entry.
LEMMA NewSlotsAre ==
    ASSUME SixteenBits, NEW name \in Names, NEW kind \in {"file", "dir"}
    PROVE  LET slots == NewSlots(name, kind)  k == Slots[name] IN
           /\ k \in 1 .. CellsPerCluster /\ k \in Nat
           /\ \A j \in 1 .. k : slots[j] \in CellSet /\ (IsEntry(slots[j]) => Blank(slots[j]))
           /\ slots[k].kind = kind /\ Len(slots) = k
<1> DEFINE k == Slots[name]
           lfn == [j \in 1 .. k - 1 |-> Lfn(name, k - j)]
           slot == Slot(kind, name, 0, 0)
<1>1. k \in 1 .. CellsPerCluster /\ k \in Nat /\ k >= 1
    BY Geometry, GeometryAssumption
<1>2. slot \in CellSet /\ Blank(slot) /\ slot.kind = kind
    <2>1. 0 % FirstLimit = 0
        BY FirstFits
    <2>2. slot = [kind |-> kind, name |-> name, first |-> 0, size |-> 0]
        BY <2>1 DEF Slot
    <2> HIDE DEF slot
    <2> QED BY <2>2 DEF CellSet, SlotCell, Blank
<1> HIDE DEF slot, k
<1>3. ASSUME NEW j \in 1 .. k - 1 PROVE lfn[j] \in CellSet /\ ~IsEntry(lfn[j])
    <2>1. k - j \in Nat /\ lfn[j] = Lfn(name, k - j)
        BY <1>1
    <2> HIDE DEF lfn
    <2> QED BY <2>1 DEF Lfn, CellSet, IsEntry
<1>4. /\ lfn \in Seq(CellSet) /\ Len(lfn) = k - 1
    <2>1. k - 1 \in Nat
        BY <1>1
    <2>2. lfn \in Seq(CellSet)
        BY <1>3, <2>1, IsASeq
    <2> QED BY <2>1, <2>2, LenProperties
<1> HIDE DEF lfn
<1> DEFINE slots == Append(lfn, slot)
<1>5. NewSlots(name, kind) = lfn \o <<slot>>
    BY DEF NewSlots, lfn, slot, k
<1>6. /\ \A j \in 1 .. k - 1 : (lfn \o <<slot>>)[j] = lfn[j]
      /\ (lfn \o <<slot>>)[k] = slot /\ Len(lfn \o <<slot>>) = k
    <2> DEFINE one == <<slot>>
    <2>1. one \in Seq(CellSet) /\ Len(one) = 1 /\ one[1] = slot
        BY <1>2
    <2> HIDE DEF one
    <2>2. \A j \in 1 .. Len(lfn) + Len(one) :
             (lfn \o one)[j] = IF j <= Len(lfn) THEN lfn[j] ELSE one[j - Len(lfn)]
        BY <1>4, <2>1, ConcatProperties
    <2> DEFINE both == lfn \o one
    <2>9. Len(lfn) + Len(one) = k
        BY <1>1, <1>4, <2>1
    <2>7. Len(lfn) + Len(one) = k /\ \A j \in 1 .. Len(lfn) + Len(one) :
             both[j] = IF j <= Len(lfn) THEN lfn[j] ELSE one[j - Len(lfn)]
        BY ONLY <2>2, <2>9 DEF both
    <2> HIDE DEF both
    <2>3. \A j \in 1 .. k : both[j] = IF j <= k - 1 THEN lfn[j] ELSE one[j - (k - 1)]
        BY <1>4, <2>7
    <2>4. k \in 1 .. k /\ ~(k <= k - 1) /\ k - (k - 1) = 1
        BY <1>1
    <2>5. both[k] = slot
        BY <2>1, <2>3, <2>4
    <2>6. ASSUME NEW j \in 1 .. k - 1 PROVE both[j] = lfn[j]
        <3>1. j \in 1 .. k /\ j <= k - 1
            BY <1>1
        <3> QED BY <2>3, <3>1
    <2>8. Len(both) = k
        <3>1. Len(lfn \o one) = Len(lfn) + Len(one)
            BY ONLY <1>4, <2>1, ConcatProperties
        <3> QED BY <2>9, <3>1 DEF both
    <2> QED BY <2>5, <2>6, <2>8 DEF one, both
<1> DEFINE new == NewSlots(name, kind)
<1>7. \A j \in 1 .. k : new[j] \in CellSet /\ (IsEntry(new[j]) => Blank(new[j]))
    <2>1. \A j \in 1 .. k : j = k \/ j \in 1 .. k - 1
        BY <1>1
    <2> HIDE DEF new
    <2>2. \A j \in 1 .. k - 1 : new[j] = lfn[j]
        BY <1>5, <1>6 DEF new
    <2>3. new[k] = slot
        BY <1>5, <1>6 DEF new
    <2> QED BY <1>2, <1>3, <2>1, <2>2, <2>3
<1>8. new[k].kind = kind /\ Len(new) = k
    BY <1>2, <1>5, <1>6
<1> QED BY <1>1, <1>7, <1>8 DEF k

\* There is a first place with room.
LEMMA PlaceFound ==
    ASSUME NEW cells \in Seq(CellSet), NEW k \in Nat
    PROVE  Place(cells, k) \in 0 .. Len(cells)
<1> DEFINE T == {i \in 0 .. Len(cells) : Room(cells, i, k)}
<1>1. Len(cells) \in Nat /\ DOMAIN cells = 1 .. Len(cells)
    BY LenProperties
<1>2. Len(cells) \in T
    <2>1. \A j \in Len(cells) + 1 .. Len(cells) + k : j \notin DOMAIN cells
        BY <1>1
    <2> QED BY <1>1, <2>1 DEF Room
<1>3. T \subseteq Nat /\ T # {} /\ T \subseteq 0 .. Len(cells)
    BY <1>1, <1>2
<1>4. Place(cells, k) = Least(T)
    BY DEF Place
<1> HIDE DEF T
<1>5. \E x \in T : \A y \in T : x <= y
    BY <1>3, LeastNumber
<1> QED BY <1>3, <1>4, <1>5 DEF Least

\* The slots of a new entry, and the directory with them.
NewOk(slots, k) ==
    /\ Len(slots) = k
    /\ \A j \in 1 .. k : slots[j] \in CellSet /\ (IsEntry(slots[j]) => Blank(slots[j]))

InsertOk(cells, k, slots, t, off) ==
    /\ t \in Seq(CellSet) /\ off \in Nat /\ Len(t) \in Nat
    /\ off < Len(t) /\ Len(t) <= Len(cells) + k
    /\ t[off + 1] = slots[k]
    /\ \A j \in 1 .. Len(t) : IsEntry(t[j]) =>
          Blank(t[j]) \/ (j \in 1 .. Len(cells) /\ t[j] = cells[j])

\* createFile's image keeps the entries of the directory, each at its place, and
\* adds none but the new one, which is blank.
LEMMA InsertedIs ==
    ASSUME NEW cells \in Seq(CellSet), NEW i \in 0 .. Len(cells), NEW k \in Nat \ {0},
           NEW slots, NewOk(slots, k)
    PROVE  InsertOk(cells, k, slots, Inserted(cells, i, slots), i + k - 1)
<1> DEFINE end == i + k
           m == IF end > Len(cells) THEN end ELSE Len(cells)
           kept(j) == IF j > Len(cells) \/ (j = end + 1 /\ cells[j] = Deleted) THEN Zero ELSE cells[j]
           V(j) == IF j \in i + 1 .. end THEN slots[j - i] ELSE kept(j)
           t == Inserted(cells, i, slots)
<1>1. Len(cells) \in Nat /\ i \in Nat /\ m \in Nat /\ end \in Nat /\ end >= 1 /\ end <= m /\ m <= Len(cells) + k
      /\ \A j \in 1 .. Len(cells) : cells[j] \in CellSet
    BY LenProperties, ElementOfSeq
<1>10. Len(slots) = k /\ \A j \in 1 .. k : slots[j] \in CellSet /\ (IsEntry(slots[j]) => Blank(slots[j]))
    BY DEF NewOk
<1>2. t = [j \in 1 .. m |-> V(j)]
    BY <1>10 DEF Inserted
<1> HIDE DEF t, m
<1>3. ASSUME NEW j \in 1 .. m
      PROVE  V(j) \in CellSet /\ (IsEntry(V(j)) => Blank(V(j)) \/ (j \in 1 .. Len(cells) /\ V(j) = cells[j]))
    <2>1. CASE j \in i + 1 .. end
        <3>1. j - i \in 1 .. k
            BY <1>1, <2>1
        <3> QED BY <1>10, <2>1, <3>1
    <2>2. CASE j \notin i + 1 .. end /\ j > Len(cells)
        BY <2>2, ZeroIs
    <2>3. CASE j \notin i + 1 .. end /\ ~(j > Len(cells))
        <3>1. j \in 1 .. Len(cells)
            BY <1>1, <2>3
        <3> QED BY <1>1, <2>3, <3>1, ZeroIs
    <2> QED BY <2>1, <2>2, <2>3
<1>4. V(end) = slots[k] /\ end \in 1 .. m /\ (i + k - 1) + 1 = end /\ i + k - 1 \in Nat /\ i + k - 1 < m
    <2>1. end \in i + 1 .. end /\ end - i = k
        BY <1>1
    <2> QED BY <1>1, <2>1
<1> HIDE DEF V, end
<1>5. t \in Seq(CellSet)
    BY <1>1, <1>2, <1>3, IsASeq
<1>6. Len(t) = m
    BY <1>1, <1>2, <1>5, LenProperties
<1>7. \A j \in 1 .. m : t[j] = V(j)
    BY <1>2
<1>8. t[(i + k - 1) + 1] = slots[k]
    BY <1>4, <1>7
<1>9. \A j \in 1 .. m : IsEntry(t[j]) => Blank(t[j]) \/ (j \in 1 .. Len(cells) /\ t[j] = cells[j])
    BY <1>3, <1>7
<1> QED BY <1>1, <1>4, <1>5, <1>6, <1>8, <1>9 DEF t, InsertOk

\* What a new call has.
Asked(p, op, at, home, name, e) == [Asks(p, op, at, home, name) EXCEPT !.ent = e]
Fresh(c, op, at, home, e) ==
    /\ c \in CallSet /\ c.op = op /\ c.at = at /\ c.dir = home.first /\ c.ent = e
    /\ c.chain = <<>> /\ c.image = <<>> /\ c.new = 0 /\ c.last = 0 /\ c.next = ""
    /\ c.left = 0 /\ c.off = 0 /\ c.size = 0 /\ c.k = 1

\* The record of a new call.
LEMMA AsksIs ==
    ASSUME SixteenBits,
           NEW p, NEW op \in {"create", "mkdir", "write", "truncate", "unlink", "rmdir"}, NEW at \in Ats,
           NEW home, home.first \in Nat, home.path \in Seq(Names), NEW name \in Names,
           NEW e \in EntrySet
    PROVE  Fresh(Asked(p, op, at, home, name, e), op, at, home, e)
<1> DEFINE path == Append(home.path, name)
           e0 == Entry(0, 0, Slot("file", name, 0, 0))
           a == [op |-> op, at |-> at, dir |-> home.first, path |-> path, name |-> name,
                 ent |-> e0, chain |-> <<>>, image |-> <<>>,
                 new |-> 0, last |-> 0, next |-> "", left |-> 0, value |-> 0, off |-> 0, size |-> 0, k |-> 1]
           c == [a EXCEPT !.ent = e]
<1>1. path \in Seq(Names)
    BY AppendProperties
<1>2. Asks(p, op, at, home, name) = a
    BY DEF Asks
<1>3. e0 \in EntrySet
    <2>1. 0 % FirstLimit = 0
        BY FirstFits
    <2>2. e0 = [dir |-> 0, off |-> 0, kind |-> "file", name |-> name, first |-> 0, size |-> 0]
        BY <2>1 DEF Entry, Slot
    <2> HIDE DEF e0
    <2> QED BY <2>2 DEF EntrySet
<1> HIDE DEF path, e0
<1>4. a \in CallSet
    <2>1. <<>> \in Seq(Clusters) /\ <<>> \in Seq(CellSet)
        BY EmptySeq
    <2> QED BY <1>1, <1>3, <2>1 DEF CallSet
<1>5. /\ a.op = op /\ a.at = at /\ a.dir = home.first
      /\ a.chain = <<>> /\ a.image = <<>> /\ a.new = 0 /\ a.last = 0 /\ a.next = ""
      /\ a.left = 0 /\ a.off = 0 /\ a.size = 0 /\ a.k = 1
    OBVIOUS
<1> HIDE DEF a
<1>6. c \in CallSet
    BY <1>4 DEF CallSet
<1>7. /\ c.op = op /\ c.at = at /\ c.dir = home.first /\ c.ent = e
      /\ c.chain = <<>> /\ c.image = <<>> /\ c.new = 0 /\ c.last = 0 /\ c.next = ""
      /\ c.left = 0 /\ c.off = 0 /\ c.size = 0 /\ c.k = 1
    BY <1>4, <1>5 DEF CallSet
<1>8. Asked(p, op, at, home, name, e) = c
    BY <1>2 DEF Asked
<1> HIDE DEF c
<1> QED BY <1>6, <1>7, <1>8 DEF Fresh

\* createFile has read the directory and made its image.
LEMMA CreateKept ==
    ASSUME fat \in Table, data \in Disk, Sound(fat, data), SixteenBits,
           NEW p, NEW op \in {"create", "mkdir"}, NEW kind \in {"file", "dir"}, op = "mkdir" => kind = "dir",
           NEW home \in Homes, NEW name \in Names
    PROVE  LET cells == Cells(Chain(home.first))
               at == Place(cells, Slots[name])
               c == [Asks(p, op, "extend", home, name) EXCEPT
                        !.ent = Entry(home.first, at + Slots[name] - 1, Slot(kind, name, 0, 0)),
                        !.chain = Chain(home.first),
                        !.image = Inserted(cells, at, NewSlots(name, kind))]
           IN  c \in CallSet /\ CallInv(fat, data, c)
<1> DEFINE s == ChainOf(fat, home.first)
           cells == Cells(s)
           k == Slots[name]
           at == Place(cells, k)
           slots == NewSlots(name, kind)
           t == Inserted(cells, at, slots)
           off == at + k - 1
           e == Entry(home.first, off, Slot(kind, name, 0, 0))
           b == Asked(p, op, "extend", home, name, e)
           c == [b EXCEPT !.chain = s, !.image = t]
<1>1. /\ \E y \in Dirs(fat, data) : First(data, y) = home.first
      /\ home.path \in Seq(Names) /\ home.first \in Clusters
      /\ Whole(fat, home.first)
    BY HomeIs
<1>2. s \in Seq(Clusters) /\ Len(s) \in Nat
    BY <1>1, WholeIs
<1>3. Chain(home.first) = s
    BY ChainIsOf
<1> HIDE DEF s
<1>4. /\ cells \in Seq(CellSet) /\ Len(cells) = Len(s) * CellsPerCluster /\ Len(cells) \in Nat
      /\ \A i \in 1 .. Len(cells) : Which(i) \in 1 .. Len(s) /\ cells[i] = Cell(data, <<s[Which(i)], Where(i)>>)
    BY <1>2, CellsIs
<1> HIDE DEF cells
<1>5. /\ k \in 1 .. CellsPerCluster /\ k \in Nat \ {0}
      /\ NewOk(slots, k) /\ slots[k].kind = kind
    <2>1. k \in 1 .. CellsPerCluster /\ k \in Nat /\ k >= 1
        BY NewSlotsAre, Geometry
    <2> QED BY <2>1, NewSlotsAre DEF NewOk
<1> HIDE DEF slots, k
<1>6. at \in 0 .. Len(cells)
    BY <1>4, <1>5, PlaceFound
<1> HIDE DEF at
<1>7. /\ t \in Seq(CellSet) /\ off \in Nat /\ Len(t) \in Nat
      /\ off < Len(t) /\ Len(t) <= Len(cells) + k
      /\ t[off + 1] = slots[k]
      /\ \A j \in 1 .. Len(t) : IsEntry(t[j]) =>
            Blank(t[j]) \/ (j \in 1 .. Len(cells) /\ t[j] = cells[j])
    <2>1. InsertOk(cells, k, slots, t, off)
        BY <1>4, <1>5, <1>6, InsertedIs
    <2> QED BY <2>1 DEF InsertOk
<1> HIDE DEF t, off
<1>8. e \in EntrySet /\ e.dir = home.first /\ e.off = off /\ e.kind = kind /\ e.size = 0
    <2>1. 0 % FirstLimit = 0
        BY FirstFits
    <2>2. e = [dir |-> home.first, off |-> off, kind |-> kind, name |-> name, first |-> 0, size |-> 0]
        BY <2>1 DEF Entry, Slot
    <2>3. home.first \in Nat
        BY <1>1, Geometry
    <2> HIDE DEF e
    <2> QED BY <1>7, <2>2, <2>3 DEF EntrySet
<1> HIDE DEF e
<1>9. /\ b \in CallSet /\ b.op = op /\ b.at = "extend" /\ b.dir = home.first /\ b.ent = e
      /\ b.new = 0 /\ b.k = 1 /\ b.next = ""
    <2>1. "extend" \in Ats /\ home.first \in Nat
        BY <1>1, Geometry DEF Ats
    <2>2. op \in {"create", "mkdir", "write", "truncate", "unlink", "rmdir"}
        OBVIOUS
    <2>3. Fresh(b, op, "extend", home, e)
        BY <1>1, <1>8, <2>1, <2>2, AsksIs
    <2> QED BY <2>3 DEF Fresh
<1> HIDE DEF b
<1>10. c \in CallSet
    BY <1>2, <1>7, <1>9 DEF CallSet
<1>11. /\ c.op = op /\ c.at = "extend" /\ c.dir = home.first /\ c.ent = e
       /\ c.new = 0 /\ c.k = 1 /\ c.chain = s /\ c.image = t
    BY <1>9 DEF CallSet
<1> HIDE DEF c
<1>12. /\ Stage(c) = "extend" /\ Stage(c) \in StagesOf(c.op) /\ View(fat, data, c) = data
       /\ c.op \notin Drops /\ c.op # "write"
    BY <1>11 DEF Stage, StagesOf, View, Drops
<1>13. DirOk(fat, data, c)
    BY <1>1, <1>8, <1>11 DEF DirOk
<1>14. AllocInv(fat, data, c)
    BY <1>11 DEF AllocInv
<1>15. ImageInv(fat, data, c)
    <2>1. ASSUME NEW j \in 1 .. Len(t), IsEntry(t[j])
          PROVE  Blank(t[j]) \/ (Which(j) <= Len(c.chain) /\ t[j] = Cell(data, Spot(c, j)))
        <3>1. CASE j \in 1 .. Len(cells) /\ t[j] = cells[j]
            BY <1>2, <1>4, <1>11, <3>1 DEF Spot
        <3> QED BY <1>7, <2>1, <3>1
    <2>2. c.chain = ChainOf(fat, c.dir)
        BY <1>11 DEF s
    <2> QED BY <1>5, <1>7, <1>8, <1>11, <2>1, <2>2 DEF ImageInv
<1>16. FitInv(c)
    <2>1. Len(t) <= (Len(s) + 1) * CellsPerCluster
        <3>1. (Len(s) + 1) * CellsPerCluster = Len(s) * CellsPerCluster + CellsPerCluster
            BY <1>2, Times
        <3>2. k <= CellsPerCluster /\ CellsPerCluster \in Nat
            BY <1>5, Geometry
        <3> QED BY <1>4, <1>5, <1>7, <3>1, <3>2
    <2>2. ClustersFor(Len(t)) <= Len(s) + 1
        BY <1>2, <1>7, <2>1, ClustersForIs
    <2> QED BY <1>11, <1>12, <2>2 DEF FitInv
<1>17. MakeInv(fat, data, c)
    BY <1>8, <1>11, <1>12, <1>15, <1>16 DEF MakeInv
<1>18. CallInv(fat, data, c)
    BY <1>11, <1>12, <1>13, <1>14, <1>17 DEF CallInv
<1> DEFINE goal ==
        [Asks(p, op, "extend", home, name) EXCEPT
            !.ent = Entry(home.first, Place(Cells(Chain(home.first)), Slots[name]) + Slots[name] - 1,
                          Slot(kind, name, 0, 0)),
            !.chain = Chain(home.first),
            !.image = Inserted(Cells(Chain(home.first)), Place(Cells(Chain(home.first)), Slots[name]),
                               NewSlots(name, kind))]
<1>19. goal = c
    BY <1>3 DEF c, b, Asked, e, off, t, at, cells, slots, k
<1> HIDE DEF goal
<1>20. goal \in CallSet /\ CallInv(fat, data, goal)
    BY <1>10, <1>18, <1>19
<1> QED BY <1>20 DEF goal

\* CreateFile is a step of its caller that keeps the invariant.
LEMMA CreateSteps ==
    ASSUME FatInv, OneCaller, SixteenBits, NEW p \in Callers,
           NEW op \in {"create", "mkdir"}, NEW kind \in {"file", "dir"}, op = "mkdir" => kind = "dir",
           NEW home \in Homes, NEW name \in Names, CreateFile(p, op, kind, home, name)
    PROVE  \E c : Steps(p, c)
<1> DEFINE c ==
        [Asks(p, op, "extend", home, name) EXCEPT
            !.ent = Entry(home.first, Place(Cells(Chain(home.first)), Slots[name]) + Slots[name] - 1,
                          Slot(kind, name, 0, 0)),
            !.chain = Chain(home.first),
            !.image = Inserted(Cells(Chain(home.first)), Place(Cells(Chain(home.first)), Slots[name]),
                               NewSlots(name, kind))]
<1>1. call[p] = Idle /\ Go(p, c) /\ NoWrite
    BY DEF CreateFile
<1>2. Sound(fat, data) /\ fat \in Table /\ data \in Disk
    BY <1>1, Begun
<1>3. c \in CallSet /\ CallInv(fat, data, c)
    BY <1>2, CreateKept
<1> HIDE DEF c
<1> QED BY <1>1, <1>2, <1>3 DEF Steps, Go, NoWrite

\* The root is a directory in which files are created.
LEMMA RootHome == [path |-> <<>>, first |-> Root] \in Homes
BY DEF Homes

\* An open entry is one of the disk.
LEMMA OpenIs ==
    ASSUME fat \in Table, data \in Disk, Sound(fat, data), NEW home \in Homes, NEW e \in Entries(home.first)
    PROVE  LET x == PlaceOf(fat, e) IN
           /\ e \in EntrySet /\ e.dir = home.first /\ e.off \in Nat /\ e.size \in Nat /\ e.first \in Nat
           /\ e.off < Len(ChainOf(fat, home.first)) * CellsPerCluster
           /\ x \in EntryPlaces(fat, data) /\ x \in Places(fat, data) /\ x \in Holders(fat, data)
           /\ x \in Spots /\ x[1] \in Own(fat, home.first)
           /\ Cell(data, x).kind = e.kind /\ Cell(data, x).first = e.first /\ Cell(data, x).size = e.size
           /\ First(data, x) = e.first /\ Held(fat, data, x) = Own(fat, e.first)
           /\ e.first = 0 => ChainOf(fat, e.first) = <<>> /\ e.size = 0
           /\ e.first # 0 => /\ Whole(fat, e.first) /\ e.first > 2
                             /\ e.size <= Len(ChainOf(fat, e.first)) * CellsPerCluster
           /\ ChainOf(fat, e.first) \in Seq(Clusters)
<1> DEFINE x == PlaceOf(fat, e)
<1>1. /\ \E y \in Dirs(fat, data) : First(data, y) = home.first
      /\ home.first \in Clusters /\ Whole(fat, home.first)
    BY HomeIs
<1>2. /\ e \in EntrySet /\ e.dir = home.first /\ e.off \in Nat /\ e.size \in Nat /\ e.first \in Nat
      /\ e.off < Len(ChainOf(fat, home.first)) * CellsPerCluster
      /\ x \in Spots /\ x[1] \in Own(fat, home.first) /\ IsEntry(Cell(data, x)) /\ Cell(data, x) = SlotOf(e)
    BY <1>1, EntriesIs
<1> HIDE DEF x
<1>3. Cell(data, x).kind = e.kind /\ Cell(data, x).first = e.first /\ Cell(data, x).size = e.size
    BY <1>2 DEF SlotOf
<1>4. x \in Places(fat, data)
    <2>1. PICK y \in Dirs(fat, data) : First(data, y) = home.first
        BY <1>1
    <2>2. x[1] \in Held(fat, data, y)
        BY <1>2, <2>1 DEF Held
    <2> QED BY <1>2, <2>2 DEF Places
<1>5. x \in EntryPlaces(fat, data) /\ x \in Holders(fat, data)
    BY <1>2, <1>4 DEF EntryPlaces, Holders
<1>6. First(data, x) = e.first /\ Held(fat, data, x) = Own(fat, e.first)
    BY <1>3, <1>4, PlaceIs
<1>7. SlotOk(fat, Cell(data, x))
    BY <1>5 DEF Sound
<1>8. e.first # 0 => /\ Whole(fat, e.first) /\ e.size <= Len(ChainOf(fat, e.first)) * CellsPerCluster
    BY <1>3, <1>7 DEF SlotOk, Blank
<1>9. e.first = 0 => ChainOf(fat, e.first) = <<>> /\ e.size = 0
    <2>1. ~Whole(fat, 0)
        BY WholeIs, Geometry
    <2> QED BY <1>3, <1>7, <2>1, NoChain DEF SlotOk, Blank
<1>10. ASSUME e.first # 0 PROVE e.first > 2
    <2>1. e.first \in Clusters /\ e.first \in Held(fat, data, x)
        BY <1>6, <1>8, <1>10, WholeIs
    <2>2. Root \in Held(fat, data, TheRoot)
        BY RootIs, WholeIs DEF Sound
    <2>3. x # TheRoot /\ TheRoot \in Holders(fat, data)
        BY <1>2, SpotIs, RootIs
    <2>4. e.first # Root
        BY <1>5, <2>1, <2>2, <2>3, HoldersApart
    <2> QED BY <2>1, <2>4, Geometry DEF Clusters
<1>11. ChainOf(fat, e.first) \in Seq(Clusters)
    <2>1. <<>> \in Seq(Clusters)
        BY EmptySeq
    <2>2. e.first # 0 => ChainOf(fat, e.first) \in Seq(Clusters)
        BY <1>8, WholeIs
    <2> QED BY <1>9, <2>1, <2>2
<1> QED BY <1>2, <1>3, <1>4, <1>5, <1>6, <1>8, <1>9, <1>10, <1>11 DEF x

\* WriteAtOffset is a step of its caller that keeps the invariant.
LEMMA WriteSteps ==
    ASSUME FatInv, OneCaller, SixteenBits, NEW p \in Callers, NEW home \in Homes, NEW name \in Names,
           NEW off \in Nat, NEW n \in Nat \ {0}, NEW v \in Values, WriteAtOffset(p, home, name, off, n, v)
    PROVE  \E c : Steps(p, c)
<1>1. PICK e \in Named(home.first, name) :
         LET c == [Opened(p, "write", home, name, e) EXCEPT !.off = off, !.size = n]
         IN  /\ call[p] = Idle
             /\ e.kind = "file"
             /\ Go(p, IF off > e.size
                      THEN [c EXCEPT !.at = "append", !.left = off - e.size, !.value = v]
                      ELSE [c EXCEPT !.at = "grow", !.value = v, !.chain = Chain(e.first)])
             /\ NoWrite
    BY DEF WriteAtOffset
<1> DEFINE b == Asked(p, "write", "done", home, name, e)
           c == [b EXCEPT !.off = off, !.size = n]
           c1 == [c EXCEPT !.at = "append", !.left = off - e.size, !.value = v]
           c2 == [c EXCEPT !.at = "grow", !.value = v, !.chain = Chain(e.first)]
           x == PlaceOf(fat, e)
<1>2. Sound(fat, data) /\ fat \in Table /\ data \in Disk /\ call[p] = Idle
    BY <1>1, Begun
<1>3. e \in Entries(home.first) /\ e.kind = "file"
    BY <1>1 DEF Named
<1>4. /\ e \in EntrySet /\ e.dir = home.first /\ e.off \in Nat /\ e.size \in Nat /\ e.first \in Nat
      /\ e.off < Len(ChainOf(fat, home.first)) * CellsPerCluster
      /\ Cell(data, x).kind = e.kind /\ Cell(data, x).first = e.first /\ Cell(data, x).size = e.size
      /\ ChainOf(fat, e.first) \in Seq(Clusters)
    BY <1>2, <1>3, OpenIs
<1> HIDE DEF x
<1>5. /\ \E y \in Dirs(fat, data) : First(data, y) = home.first
      /\ home.path \in Seq(Names) /\ home.first \in Clusters /\ home.first \in Nat
    BY <1>2, HomeIs, Geometry
<1>6. Fresh(b, "write", "done", home, e)
    <2>1. "done" \in Ats
        BY DEF Ats
    <2> QED BY <1>4, <1>5, <2>1, AsksIs
<1>7. Go(p, IF off > e.size THEN c1 ELSE c2) /\ NoWrite
    BY <1>1 DEF Opened, Asked
<1> HIDE DEF b
<1>8. /\ c \in CallSet /\ c.op = "write" /\ c.dir = home.first /\ c.ent = e /\ c.off = off /\ c.size = n
    <2>1. c \in CallSet
        BY <1>6 DEF Fresh, CallSet
    <2>2. /\ c.op = "write" /\ c.dir = home.first /\ c.ent = e /\ c.off = off /\ c.size = n
        BY <1>6 DEF Fresh, CallSet
    <2> QED BY <2>1, <2>2
<1> HIDE DEF c
<1>9. ASSUME NEW d, d.op = "write", d.dir = home.first, d.ent = e, d.off = off, d.size = n,
             \/ d.at = "append" /\ off = e.size + d.left
             \/ d.at = "grow" /\ d.chain = ChainOf(fat, e.first)
      PROVE  CallInv(fat, data, d)
    <2>1. Stage(d) \in StagesOf("write") /\ d.at \notin {"extend", "store"}
        BY <1>9 DEF Stage, StagesOf
    <2>2. DirOk(fat, data, d)
        BY <1>4, <1>5, <1>9 DEF DirOk
    <2>3. AllocInv(fat, data, d)
        BY <1>9 DEF AllocInv
    <2>4. FileInv(fat, data, d)
        BY <1>3, <1>4, <1>9 DEF FileInv, SlotInDir, x
    <2>5. SpanInv(fat, d)
        BY <1>9 DEF SpanInv, Stage
    <2> QED BY <1>2, <1>9, <2>1, <2>2, <2>3, <2>4, <2>5, WriteCall DEF WriteInv
<1>10. CASE off > e.size
    <2>1. off - e.size \in Nat /\ off = e.size + (off - e.size)
        BY <1>4, <1>10
    <2>2. c1 \in CallSet
        BY <1>8, <2>1, AtsAre DEF CallSet
    <2>3. /\ c1.op = "write" /\ c1.dir = home.first /\ c1.ent = e /\ c1.off = off /\ c1.size = n
          /\ c1.at = "append" /\ c1.left = off - e.size
        BY <1>8 DEF CallSet
    <2>4. call' = [call EXCEPT ![p] = c1] /\ fat' = fat /\ data' = data
        BY <1>7, <1>10 DEF Go, NoWrite
    <2> HIDE DEF c1
    <2>5. CallInv(fat, data, c1)
        BY <1>9, <2>1, <2>3
    <2> QED BY <1>2, <2>2, <2>4, <2>5 DEF Steps
<1>11. CASE ~(off > e.size)
    <2>1. Chain(e.first) = ChainOf(fat, e.first)
        BY ChainIsOf
    <2>2. c2 \in CallSet
        BY <1>4, <1>8, <2>1, AtsAre DEF CallSet
    <2>3. /\ c2.op = "write" /\ c2.dir = home.first /\ c2.ent = e /\ c2.off = off /\ c2.size = n
          /\ c2.at = "grow" /\ c2.chain = ChainOf(fat, e.first)
        BY <1>8, <2>1 DEF CallSet
    <2>4. call' = [call EXCEPT ![p] = c2] /\ fat' = fat /\ data' = data
        BY <1>7, <1>11 DEF Go, NoWrite
    <2> HIDE DEF c2
    <2>5. CallInv(fat, data, c2)
        BY <1>9, <2>3
    <2> QED BY <1>2, <2>2, <2>4, <2>5 DEF Steps
<1> QED BY <1>10, <1>11

-----------------------------------------------------------------------------
(* deleteFile, deleteDirectory and write of no bytes.                      *)

\* Without the slot of an entry, what it holds is nobody's.
LEMMA Masked ==
    ASSUME NEW f, NEW d \in Disk, Sound(f, d), NEW x \in EntryPlaces(f, d)
    PROVE  LET v == Put(d, x, Deleted) IN
           /\ Sound(f, v) /\ ~IsEntry(Cell(v, x))
           /\ \A z \in Spots : z # x => Cell(v, z) = Cell(d, z)
           /\ \A y \in Dirs(f, d) : y # x => y \in Dirs(f, v) /\ First(v, y) = First(d, y)
           /\ \A u \in Held(f, d, x) : u \in Clusters => Unowned(f, v, u)
<1> DEFINE v == Put(d, x, Deleted)
<1>1. x \in Places(f, d) /\ x \in Holders(f, d) /\ x \in Spots /\ x # TheRoot
    BY PlaceIs, SpotIs
<1>2. /\ Cell(v, x) = Deleted /\ ~IsEntry(Cell(v, x))
      /\ \A z \in Spots : z # x => Cell(v, z) = Cell(d, z)
    BY <1>1, PutIs, ZeroIs
<1> HIDE DEF v
<1>3. ASSUME NEW z \in Places(f, d), IsEntry(Cell(v, z))
      PROVE  z # x /\ z \in EntryPlaces(f, d) /\ Cell(v, z) = Cell(d, z) /\ z \in Spots
    <2>1. z # x /\ z \in Spots
        BY <1>2, <1>3, PlaceIs
    <2>2. Cell(v, z) = Cell(d, z)
        BY <1>2, <2>1
    <2> QED BY <1>3, <2>1, <2>2 DEF EntryPlaces
<1>4. Writes(f, d, f, v, TheRoot, 0)
    <2>1. \A z \in Places(f, d) : IsEntry(Cell(v, z)) => SlotOk(f, Cell(v, z)) /\ Cell(v, z) = Cell(d, z)
        BY <1>3 DEF Sound
    <2>2. Whole(f, Root)
        BY DEF Sound
    <2> QED BY <2>1, <2>2 DEF Writes
<1>5. Sound(f, v) /\ EntryPlaces(f, v) \subseteq Places(f, d)
    BY <1>4, Grows
<1>6. ASSUME NEW y \in Dirs(f, d), y # x PROVE y \in Dirs(f, v) /\ First(v, y) = First(d, y)
    <2>1. CASE y = TheRoot
        BY <2>1, RootIs
    <2>2. CASE y # TheRoot
        <3>1. y \in Spots /\ y[1] \in Own(f, Root) /\ IsDir(Cell(d, y))
            BY <2>2 DEF Dirs
        <3>2. Cell(v, y) = Cell(d, y)
            BY <1>2, <1>6, <3>1
        <3> QED BY <3>1, <3>2, SpotIs DEF Dirs
    <2> QED BY <2>1, <2>2
<1>7. ASSUME NEW u \in Held(f, d, x), u \in Clusters, NEW z \in Holders(f, v), u \in Held(f, v, z) PROVE FALSE
    <2>1. CASE z = TheRoot
        <3>1. u \in Held(f, d, TheRoot) /\ TheRoot \in Holders(f, d)
            BY <1>7, <2>1, RootIs
        <3> QED BY <1>1, <3>1, HoldersApart
    <2>2. CASE z # TheRoot
        <3>1. z \in EntryPlaces(f, v) /\ z \in Places(f, d) /\ IsEntry(Cell(v, z))
            BY <1>5, <2>2, PlaceIs
        <3>2. z # x /\ z \in EntryPlaces(f, d) /\ Cell(v, z) = Cell(d, z) /\ z \in Spots
            BY <1>3, <3>1
        <3>3. Held(f, d, z) = Held(f, v, z) /\ z \in Holders(f, d)
            BY <3>2, SpotIs, PlaceIs DEF Held
        <3> QED BY <1>1, <1>7, <3>2, <3>3, HoldersApart
    <2> QED BY <2>1, <2>2
<1>8. \A u \in Held(f, d, x) : u \in Clusters => Unowned(f, v, u)
    BY <1>7 DEF Unowned
<1> QED BY <1>2, <1>5, <1>6, <1>8 DEF v

\* A call that has read the entry e, and will take its slot away.
Takes(home, e, c) ==
    /\ c \in CallSet /\ c.op \in Drops /\ c.dir = home.first
    /\ c.ent.dir = e.dir /\ c.ent.off = e.off /\ c.k = 1 /\ c.new = 0
    /\ c.op = "truncate" =>
          c.ent.kind = "file" /\ c.ent.first = 0 /\ c.ent.size = 0 /\ c.off = 0 /\ c.left = 0
\* Where it goes when the chain is freed.
Then(op) == IF op = "truncate" THEN "append" ELSE "slots"

\* A call that takes an entry away: its chain is nobody's once the slot is hidden.
LEMMA TakeKept ==
    ASSUME fat \in Table, data \in Disk, Sound(fat, data), NEW home \in Homes, NEW e \in Entries(home.first),
           NEW c, Takes(home, e, c)
    PROVE  LET c2 == Freeing(c, e.first, Then(c.op))
           IN  c2 \in CallSet /\ CallInv(fat, data, c2)
<1> DEFINE x == PlaceOf(fat, e)
           v == Put(data, x, Deleted)
           next == Then(c.op)
           c2 == Freeing(c, e.first, next)
<1>1. /\ e.dir = home.first /\ e.off \in Nat /\ e.first \in Nat
      /\ e.off < Len(ChainOf(fat, home.first)) * CellsPerCluster
      /\ x \in EntryPlaces(fat, data) /\ x \in Holders(fat, data) /\ x \in Spots /\ x[1] \in Own(fat, home.first)
      /\ First(data, x) = e.first /\ Held(fat, data, x) = Own(fat, e.first)
      /\ e.first # 0 => Whole(fat, e.first) /\ e.first > 2
    BY OpenIs
<1> HIDE DEF x
<1>2. /\ c \in CallSet /\ c.op \in Drops /\ c.dir = home.first
      /\ c.ent.dir = e.dir /\ c.ent.off = e.off /\ c.k = 1 /\ c.new = 0
      /\ c.op = "truncate" =>
            c.ent.kind = "file" /\ c.ent.first = 0 /\ c.ent.size = 0 /\ c.off = 0 /\ c.left = 0
    BY DEF Takes
<1>3. /\ Sound(fat, v)
      /\ \A y \in Dirs(fat, data) : y # x => y \in Dirs(fat, v) /\ First(v, y) = First(data, y)
      /\ \A u \in Held(fat, data, x) : u \in Clusters => Unowned(fat, v, u)
    BY <1>1, Masked
<1> HIDE DEF v
<1>4. \E y \in Dirs(fat, v) : First(v, y) = home.first
    <2>1. PICK y \in Dirs(fat, data) : First(data, y) = home.first
        BY HomeIs
    <2>2. y # x
        <3>1. SUFFICES ASSUME y = x PROVE FALSE
            OBVIOUS
        <3>2. x # TheRoot /\ x[1] \in Held(fat, data, TheRoot)
            BY <1>1, <2>1, <3>1, SpotIs, RootIs DEF Dirs
        <3>3. x[1] \in Held(fat, data, x)
            BY <1>1, <2>1, <3>1
        <3> QED BY <1>1, <3>2, <3>3, RootIs, HoldersApart
    <2> QED BY <1>3, <2>1, <2>2
<1>5. next \in {"append", "slots"} /\ next \in Ats /\ (c.op = "truncate" <=> next = "append")
    BY DEF Then, Ats
<1>6. /\ c2 \in CallSet /\ c2.op = c.op /\ c2.dir = c.dir /\ c2.ent = c.ent /\ c2.k = c.k /\ c2.new = c.new
      /\ c2.off = c.off /\ c2.left = c.left
      /\ \/ c2.at = "free" /\ c2.next = next /\ c2.last = e.first /\ e.first # 0
         \/ c2.at = next
    <2>1. CASE e.first > 2
        <3> DEFINE q == [c EXCEPT !.at = "free", !.last = e.first, !.next = next]
        <3>1. c2 = q
            BY <2>1 DEF Freeing
        <3>2. q \in CallSet
            BY <1>1, <1>2, <1>5, AtsAre DEF CallSet
        <3>3. /\ q.op = c.op /\ q.dir = c.dir /\ q.ent = c.ent /\ q.k = c.k /\ q.new = c.new
              /\ q.off = c.off /\ q.left = c.left
              /\ q.at = "free" /\ q.next = next /\ q.last = e.first
            BY <1>2 DEF CallSet
        <3> HIDE DEF q, c2
        <3> QED BY <2>1, <3>1, <3>2, <3>3
    <2>2. CASE ~(e.first > 2)
        <3> DEFINE q == [c EXCEPT !.at = next]
        <3>1. c2 = q
            BY <2>2 DEF Freeing
        <3>2. q \in CallSet
            BY <1>2, <1>5 DEF CallSet
        <3>3. /\ q.op = c.op /\ q.dir = c.dir /\ q.ent = c.ent /\ q.k = c.k /\ q.new = c.new
              /\ q.off = c.off /\ q.left = c.left /\ q.at = next
            BY <1>2 DEF CallSet
        <3> HIDE DEF q, c2
        <3> QED BY <3>1, <3>2, <3>3
    <2> QED BY <2>1, <2>2
<1> HIDE DEF c2
<1>7. PlaceOf(fat, c2.ent) = x
    BY <1>2, <1>6 DEF PlaceOf, x
<1>8. View(fat, data, c2) = v
    <2>1. c2.at \in {"free", "slots", "append"} /\ c2.op \in Drops
        BY <1>2, <1>5, <1>6
    <2> QED BY <1>7, <2>1 DEF View, v
<1>9. Stage(c2) = next /\ Stage(c2) \in StagesOf(c2.op) /\ c2.at \notin {"done", "failed", "find", "extend", "store"}
    <2>1. Stage(c2) = next /\ c2.at \notin {"done", "failed", "find", "extend", "store"}
        BY <1>5, <1>6 DEF Stage
    <2>2. next \in StagesOf(c2.op)
        BY <1>2, <1>6 DEF StagesOf, Drops, Then
    <2> QED BY <2>1, <2>2
<1>10. DirOk(fat, v, c2)
    BY <1>1, <1>2, <1>4, <1>6 DEF DirOk
<1>11. AllocInv(fat, data, c2)
    <2>1. CASE c2.at = "free"
        <3>1. Whole(fat, c2.last) /\ Own(fat, c2.last) = Held(fat, data, x)
            BY <1>1, <1>5, <1>6, <2>1
        <3>2. \A u \in Own(fat, c2.last) : Unowned(fat, v, u)
            BY <1>3, <3>1, WholeIs
        <3>3. c2.next = (IF c2.op = "truncate" THEN "append" ELSE "slots")
            BY <1>5, <1>6, <2>1
        <3> QED BY <1>2, <1>6, <1>8, <2>1, <3>1, <3>2, <3>3 DEF AllocInv
    <2>2. CASE c2.at # "free"
        BY <1>5, <1>6, <2>2 DEF AllocInv
    <2> QED BY <2>1, <2>2
<1>12. MakeInv(fat, data, c2)
    <2>1. FitInv(c2)
        BY <1>2, <1>5, <1>6, <1>9 DEF FitInv
    <2>2. c2.op # "mkdir"
        BY <1>2, <1>6 DEF Drops
    <2>3. c2.at \notin {"store", "eoc", "flushdir"}
        BY <1>5, <1>6
    <2> QED BY <1>5, <1>9, <2>1, <2>2, <2>3 DEF MakeInv
<1>13. DropInv(fat, c2)
    BY <1>1, <1>2, <1>6 DEF DropInv, SlotInDir
<1>14. c2.op # "write"
    BY <1>2, <1>6 DEF Drops
<1>15. CallInv(fat, data, c2)
    BY <1>3, <1>8, <1>9, <1>10, <1>11, <1>12, <1>13, <1>14 DEF CallInv
<1> QED BY <1>6, <1>15 DEF c2

\* The same as a step.
LEMMA TakeSteps ==
    ASSUME FatInv, OneCaller, NEW p \in Callers, call[p] = Idle,
           NEW home \in Homes, NEW e \in Entries(home.first), NEW c, Takes(home, e, c),
           Go(p, Freeing(c, e.first, Then(c.op))), NoWrite
    PROVE  \E c2 : Steps(p, c2)
<1> DEFINE c2 == Freeing(c, e.first, Then(c.op))
<1>1. Sound(fat, data) /\ fat \in Table /\ data \in Disk
    BY Begun
<1>2. c2 \in CallSet /\ CallInv(fat, data, c2)
    BY <1>1, TakeKept
<1>3. call' = [call EXCEPT ![p] = c2] /\ fat' = fat /\ data' = data
    BY DEF Go, NoWrite
<1> HIDE DEF c2
<1> QED BY <1>1, <1>2, <1>3 DEF Steps

\* A call that has just read the entry it will take away.
LEMMA TakesIs ==
    ASSUME FatInv, OneCaller, SixteenBits, NEW p \in Callers, call[p] = Idle,
           NEW op \in {"unlink", "rmdir"}, NEW home \in Homes, NEW name \in Names,
           NEW e \in Entries(home.first)
    PROVE  LET c == Opened(p, op, home, name, e) IN Takes(home, e, c) /\ c.op = op
<1> DEFINE c == Asked(p, op, "done", home, name, e)
<1>1. Sound(fat, data) /\ fat \in Table /\ data \in Disk
    BY Begun
<1>2. e \in EntrySet
    BY <1>1, OpenIs
<1>3. home.path \in Seq(Names) /\ home.first \in Nat /\ "done" \in Ats
    BY <1>1, HomeIs, Geometry DEF Ats
<1>4. op \in {"create", "mkdir", "write", "truncate", "unlink", "rmdir"}
    OBVIOUS
<1>5. Fresh(c, op, "done", home, e)
    BY <1>2, <1>3, <1>4, AsksIs
<1>6. Opened(p, op, home, name, e) = c
    BY DEF Opened, Asked
<1> HIDE DEF c
<1> QED BY <1>5, <1>6 DEF Fresh, Takes, Drops

\* Unlink is a step of its caller that keeps the invariant.
LEMMA UnlinkSteps ==
    ASSUME FatInv, OneCaller, SixteenBits, NEW p \in Callers, NEW home \in Homes, NEW name \in Names,
           Unlink(p, home, name)
    PROVE  \E c : Steps(p, c)
<1>1. PICK e \in Named(home.first, name) :
         /\ call[p] = Idle
         /\ e.kind = "file"
         /\ Go(p, Freeing(Opened(p, "unlink", home, name, e), e.first, "slots"))
         /\ NoWrite
    BY DEF Unlink
<1> DEFINE c == Opened(p, "unlink", home, name, e)
<1>2. e \in Entries(home.first)
    BY DEF Named
<1>3. Takes(home, e, c) /\ c.op = "unlink"
    BY <1>1, <1>2, TakesIs
<1> HIDE DEF c
<1>4. Go(p, Freeing(c, e.first, Then(c.op)))
    BY <1>1, <1>3 DEF Then, c
<1> QED BY <1>1, <1>2, <1>3, <1>4, TakeSteps

\* RemoveDirectory is a step of its caller that keeps the invariant.
LEMMA RemoveSteps ==
    ASSUME FatInv, OneCaller, SixteenBits, NEW p \in Callers, NEW name \in Names,
           RemoveDirectory(p, name)
    PROVE  \E c : Steps(p, c)
<1> DEFINE home == [path |-> <<>>, first |-> Root]
<1>1. PICK e \in Named(Root, name) :
         /\ call[p] = Idle
         /\ Go(p, Freeing(Opened(p, "rmdir", home, name, e), e.first, "slots"))
         /\ NoWrite
    BY DEF RemoveDirectory
<1> DEFINE c == Opened(p, "rmdir", home, name, e)
<1>2. home \in Homes /\ home.first = Root
    BY RootHome
<1> HIDE DEF home
<1>3. e \in Entries(home.first)
    BY <1>2 DEF Named
<1>4. Takes(home, e, c) /\ c.op = "rmdir"
    BY <1>1, <1>2, <1>3, TakesIs
<1> HIDE DEF c
<1>5. Go(p, Freeing(c, e.first, Then(c.op)))
    BY <1>1, <1>4 DEF Then, c
<1> QED BY <1>1, <1>2, <1>3, <1>4, <1>5, TakeSteps

\* Truncate is a step of its caller that keeps the invariant.
LEMMA TruncateSteps ==
    ASSUME FatInv, OneCaller, SixteenBits, NEW p \in Callers, NEW home \in Homes, NEW name \in Names,
           Truncate(p, home, name)
    PROVE  \E c : Steps(p, c)
<1>1. PICK e \in Named(home.first, name) :
         LET c == [Opened(p, "truncate", home, name, e) EXCEPT !.ent.first = 0, !.ent.size = 0]
         IN  /\ call[p] = Idle
             /\ e.kind = "file"
             /\ Go(p, Freeing(c, e.first, "append"))
             /\ NoWrite
    BY DEF Truncate
<1> DEFINE b == Asked(p, "truncate", "done", home, name, e)
           c == [b EXCEPT !.ent.first = 0, !.ent.size = 0]
<1>2. e \in Entries(home.first) /\ e.kind = "file"
    BY <1>1 DEF Named
<1>3. Sound(fat, data) /\ fat \in Table /\ data \in Disk
    BY <1>1, Begun
<1>4. e \in EntrySet
    BY <1>2, <1>3, OpenIs
<1>5. home.path \in Seq(Names) /\ home.first \in Nat /\ "done" \in Ats
    BY <1>3, HomeIs, Geometry DEF Ats
<1>6. Fresh(b, "truncate", "done", home, e)
    BY <1>4, <1>5, AsksIs
<1>7. Opened(p, "truncate", home, name, e) = b
    BY DEF Opened, Asked
<1> HIDE DEF b
<1>8. b \in CallSet /\ b.ent = e /\ b.op = "truncate" /\ b.dir = home.first
      /\ b.k = 1 /\ b.new = 0 /\ b.off = 0 /\ b.left = 0
    BY <1>6 DEF Fresh
<1> DEFINE e2 == [e EXCEPT !.first = 0, !.size = 0]
<1>9. e2 \in EntrySet /\ e2.dir = e.dir /\ e2.off = e.off /\ e2.kind = e.kind /\ e2.first = 0 /\ e2.size = 0
    BY <1>4 DEF EntrySet
<1>10. c = [b EXCEPT !.ent = e2]
    BY <1>4, <1>8 DEF CallSet, EntrySet
<1> HIDE DEF e2, c
<1>11. c \in CallSet
    BY <1>8, <1>9, <1>10 DEF CallSet
<1>12. c.ent = e2 /\ c.op = "truncate" /\ c.dir = home.first
       /\ c.k = 1 /\ c.new = 0 /\ c.off = 0 /\ c.left = 0
    BY <1>8, <1>10 DEF CallSet
<1>13. Takes(home, e, c)
    BY <1>2, <1>9, <1>11, <1>12 DEF Takes, Drops
<1>14. Go(p, Freeing(c, e.first, Then(c.op)))
    BY <1>1, <1>7, <1>12 DEF Then, c
<1> QED BY <1>1, <1>2, <1>13, <1>14, TakeSteps

\* The image without the slots of the entry.
LEMMA UnnamedIs ==
    ASSUME NEW cells \in Seq(CellSet), NEW off \in Nat, off < Len(cells)
    PROVE  LET t == Unnamed(cells, off) IN
           /\ t \in Seq(CellSet) /\ Len(t) = Len(cells) /\ t[off + 1] = Deleted
           /\ \A j \in 1 .. Len(t) : t[j] = Deleted \/ (j # off + 1 /\ t[j] = cells[j])
<1> DEFINE own == {j \in 1 .. off : \A k \in j .. off :
                   /\ cells[k].kind = "lfn"
                   /\ k > j => cells[k].order < Slots[cells[k].name] - 1}
           n == Len(cells)
           V(j) == IF j \in own \cup {off + 1} THEN Deleted ELSE cells[j]
           t == Unnamed(cells, off)
<1>1. n \in Nat /\ DOMAIN cells = 1 .. n /\ \A j \in 1 .. n : cells[j] \in CellSet
    BY LenProperties, ElementOfSeq
<1>2. t = [j \in 1 .. n |-> V(j)]
    BY <1>1 DEF Unnamed
<1> HIDE DEF t, own
<1>3. \A j \in 1 .. n : V(j) \in CellSet /\ (V(j) = Deleted \/ (j # off + 1 /\ V(j) = cells[j]))
    BY <1>1, ZeroIs
<1>4. V(off + 1) = Deleted /\ off + 1 \in 1 .. n
    BY <1>1
<1> HIDE DEF V, n
<1>5. t \in Seq(CellSet)
    BY <1>1, <1>2, <1>3, IsASeq
<1>6. Len(t) = n /\ \A j \in 1 .. n : t[j] = V(j)
    BY <1>1, <1>2, <1>5, LenProperties
<1> QED BY <1>3, <1>4, <1>5, <1>6 DEF t, n

\* deleteFile: the image with the slots of the entry marked.
LEMMA SlotsKept ==
    ASSUME NEW f \in Table, NEW d \in Disk, NEW c \in CallSet, CallInv(f, d, c), c.at = "slots",
           NEW t \in Seq(CellSet), Len(t) = Len(ChainOf(f, c.dir)) * CellsPerCluster,
           t[c.ent.off + 1] = Deleted,
           \A j \in 1 .. Len(t) : t[j] = Deleted \/
              (j # c.ent.off + 1 /\ t[j] = Cell(d, <<ChainOf(f, c.dir)[Which(j)], Where(j)>>))
    PROVE  LET c2 == [c EXCEPT !.image = t, !.chain = ChainOf(f, c.dir), !.at = "store"]
           IN  c2 \in CallSet /\ CallInv(f, d, c2)
<1> DEFINE s == ChainOf(f, c.dir)
           v == View(f, d, c)
           x == PlaceOf(f, c.ent)
           c2 == [c EXCEPT !.image = t, !.chain = s, !.at = "store"]
<1>1. Stage(c) = "slots"
    BY DEF Stage
<1>2. c.op \in {"unlink", "rmdir"} /\ c.op \in Drops /\ c.op # "write" /\ c.op # "truncate" /\ c.op # "mkdir"
    <2>1. c.op \in {"create", "mkdir", "write", "truncate", "unlink", "rmdir"}
        BY CallIs
    <2>2. "slots" \in StagesOf(c.op)
        BY <1>1 DEF CallInv
    <2> QED BY <2>1, <2>2 DEF StagesOf, Drops
<1>3. /\ Sound(f, v) /\ DirOk(f, v, c) /\ MakeInv(f, d, c) /\ DropInv(f, c)
    BY <1>2 DEF CallInv
<1>4. /\ Whole(f, c.dir) /\ x \in Spots /\ c.ent.dir = c.dir
      /\ Which(c.ent.off + 1) \in 1 .. Len(s) /\ c.ent.off < Len(s) * CellsPerCluster
    BY <1>3, CallDir DEF DropInv, SlotInDir, DirOk
<1>5. /\ s \in Seq(Clusters) /\ Len(s) \in Nat /\ Len(s) >= 1
      /\ \A i \in 1 .. Len(s) : s[i] \in Clusters
      /\ \A i, j \in 1 .. Len(s) : s[i] = s[j] => i = j
    BY <1>4, WholeIs
<1>6. c.k = 1 /\ c.new = 0
    BY <1>1, <1>3 DEF MakeInv, FitInv
<1>7. x = <<s[Which(c.ent.off + 1)], Where(c.ent.off + 1)>>
    BY <1>4 DEF PlaceOf
<1> HIDE DEF s
<1>8. v = Put(d, x, Deleted) /\ \A z \in Spots : z # x => Cell(v, z) = Cell(d, z)
    <2>1. v = Put(d, x, Deleted)
        BY <1>2 DEF View
    <2> QED BY <1>4, <2>1, PutIs, ZeroIs
<1>9. c2 \in CallSet
    BY <1>5, AtsAre DEF CallSet
<1>10. /\ c2.op = c.op /\ c2.dir = c.dir /\ c2.ent = c.ent /\ c2.new = c.new /\ c2.k = c.k
       /\ c2.image = t /\ c2.chain = s /\ c2.at = "store"
    BY DEF CallSet
<1> HIDE DEF c2, v, x
<1>11. View(f, d, c2) = v
    <2>1. PlaceOf(f, c2.ent) = x
        BY <1>10 DEF x
    <2> QED BY <1>2, <1>8, <1>10, <2>1 DEF View
<1>12. Stage(c2) = "store" /\ Stage(c2) \in StagesOf(c2.op)
    BY <1>2, <1>10 DEF Stage, StagesOf
<1>13. DirOk(f, v, c2) /\ AllocInv(f, d, c2)
    BY <1>3, <1>10 DEF DirOk, AllocInv
<1>14. Len(t) \in Nat /\ c.ent.off \in Nat /\ c.ent.off < Len(t)
    BY <1>4, LenProperties, CallIs DEF s
<1>15. ASSUME NEW j \in 1 .. Len(t), IsEntry(t[j])
       PROVE  Which(j) <= Len(s) /\ t[j] = Cell(v, <<s[Which(j)], Where(j)>>)
    <2>1. j # c.ent.off + 1 /\ t[j] = Cell(d, <<s[Which(j)], Where(j)>>)
        BY <1>15, ZeroIs DEF s
    <2>2. j \in Nat \ {0} /\ j <= Len(s) * CellsPerCluster
        BY <1>14 DEF s
    <2>3. Which(j) \in 1 .. Len(s) /\ Where(j) \in Cols /\ j = Nth(Which(j), Where(j))
        BY <1>5, <2>2, PlaceOfCell, PlaceInChain
    <2>4. c.ent.off + 1 = Nth(Which(c.ent.off + 1), Where(c.ent.off + 1))
        BY <1>14, PlaceOfCell
    <2>5. <<s[Which(j)], Where(j)>> # x
        BY <1>4, <1>5, <1>7, <2>1, <2>3, <2>4
    <2>6. <<s[Which(j)], Where(j)>> \in Spots
        BY <1>5, <2>3 DEF Spots
    <2> QED BY <1>8, <2>1, <2>3, <2>5, <2>6
<1>16. ImageInv(f, v, c2)
    <2>1. c2.chain = ChainOf(f, c2.dir) /\ Len(c2.image) = Len(c2.chain) * CellsPerCluster
        BY <1>10 DEF s
    <2>2. \A j \in 1 .. Len(c2.image) : IsEntry(c2.image[j]) =>
             Which(j) <= Len(c2.chain) /\ c2.image[j] = Cell(v, Spot(c2, j))
        BY <1>10, <1>15 DEF Spot
    <2> QED BY <1>2, <1>10, <1>14, <2>1, <2>2 DEF ImageInv
<1>17. FitInv(c2)
    <2> DEFINE n == ClustersFor(Len(t))
    <2>1. n \in Nat /\ n <= Len(s)
        BY <1>5, <1>14, ClustersForIs DEF s
    <2>2. ~(n <= 0)
        <3>1. n <= 0 <=> Len(t) <= 0 * CellsPerCluster
            BY <1>14, ClustersForIs
        <3>2. 0 * CellsPerCluster = 0
            BY Geometry
        <3> HIDE DEF n
        <3> QED BY <1>14, <3>1, <3>2
    <2>3. ClustersFor(Len(c2.image)) = n
        BY <1>10
    <2> HIDE DEF n
    <2>4. c2.k \in 1 .. n
        BY <1>6, <1>10, <2>1, <2>2
    <2> QED BY <1>6, <1>10, <1>12, <2>1, <2>3, <2>4 DEF FitInv
<1>18. MakeInv(f, d, c2)
    <2>1. ~(Which(c2.ent.off + 1) < c2.k)
        BY <1>4, <1>5, <1>6, <1>10
    <2> QED BY <1>2, <1>10, <1>11, <1>12, <1>16, <1>17, <2>1 DEF MakeInv
<1>19. DropInv(f, c2)
    BY <1>2, <1>3, <1>10 DEF DropInv, SlotInDir
<1>20. CallInv(f, d, c2)
    BY <1>2, <1>3, <1>10, <1>11, <1>12, <1>13, <1>18, <1>19 DEF CallInv
<1> QED BY <1>9, <1>20 DEF c2, s

\* MarkSlots is a step of its caller that keeps the invariant.
LEMMA MarkSlotsSteps ==
    ASSUME FatInv, NEW p \in Callers, MarkSlots(p)
    PROVE  \E c : Steps(p, c)
<1> DEFINE c == call[p]
           s == ChainOf(fat, c.dir)
           cells == Cells(s)
           t == Unnamed(cells, c.ent.off)
           c2 == [c EXCEPT !.image = t, !.chain = s, !.at = "store"]
<1>1. /\ c \in CallSet /\ CallInv(fat, data, c) /\ c.at = "slots"
      /\ fat \in Table /\ data \in Disk
    BY HasCall DEF MarkSlots
<1>2. call' = [call EXCEPT ![p] = c2] /\ fat' = fat /\ data' = data
    BY ChainIsOf DEF MarkSlots, Go, NoWrite
<1> HIDE DEF c
<1>3. c.op \in Drops
    <2>1. c.op \in {"create", "mkdir", "write", "truncate", "unlink", "rmdir"}
        BY <1>1, CallIs
    <2>2. "slots" \in StagesOf(c.op)
        BY <1>1 DEF CallInv, Stage
    <2> QED BY <2>1, <2>2 DEF StagesOf, Drops
<1>4. /\ Sound(fat, View(fat, data, c)) /\ DirOk(fat, View(fat, data, c), c) /\ DropInv(fat, c)
    BY <1>1, <1>3 DEF CallInv
<1>5. /\ Whole(fat, c.dir) /\ c.ent.off < Len(s) * CellsPerCluster /\ c.ent.off \in Nat
    BY <1>1, <1>4, CallDir, CallIs DEF DropInv, SlotInDir
<1>6. s \in Seq(Clusters)
    BY <1>5, WholeIs
<1> HIDE DEF s
<1>7. /\ cells \in Seq(CellSet) /\ Len(cells) = Len(s) * CellsPerCluster
      /\ \A i \in 1 .. Len(cells) : cells[i] = Cell(data, <<s[Which(i)], Where(i)>>)
    BY <1>1, <1>6, CellsIs
<1> HIDE DEF cells
<1>8. /\ t \in Seq(CellSet) /\ Len(t) = Len(cells) /\ t[c.ent.off + 1] = Deleted
      /\ \A j \in 1 .. Len(t) : t[j] = Deleted \/ (j # c.ent.off + 1 /\ t[j] = cells[j])
    BY <1>5, <1>7, UnnamedIs
<1> HIDE DEF t
<1>9. \A j \in 1 .. Len(t) : t[j] = Deleted \/
         (j # c.ent.off + 1 /\ t[j] = Cell(data, <<s[Which(j)], Where(j)>>))
    BY <1>7, <1>8
<1>10. c2 \in CallSet /\ CallInv(fat, data, c2)
    BY <1>1, <1>7, <1>8, <1>9, SlotsKept DEF s
<1> HIDE DEF c2
<1> QED BY <1>1, <1>2, <1>10 DEF Steps

-----------------------------------------------------------------------------
(* The end of a call, a crash, and the start.                              *)

\* A machine stops only in calls that add to the disk, and not between the
\* writes to a directory of several clusters.
CrashesAdd == CrashOps \subseteq {"create", "mkdir", "write"} /\ TornDirectories = FALSE

\* When no call is at work a sound disk is all there is to show.
LEMMA Quiets ==
    ASSUME FatInv, \A p \in Callers : call'[p] = Idle, call' \in [Callers -> {Idle} \cup CallSet],
           NoWrite, Sound(fat, data)
    PROVE  FatInv'
<1>1. fat' = fat /\ data' = data
    BY DEF NoWrite
<1>2. Sound(fat, data)'
    BY <1>1
<1>3. \A p \in Callers : (call[p] # Idle => CallInv(fat, data, call[p]))'
    OBVIOUS
<1> QED BY <1>1, <1>2, <1>3 DEF FatInv

\* The end of a call.
LEMMA ReturnKept ==
    ASSUME FatInv, OneCaller, NEW p \in Callers, Return(p)
    PROVE  FatInv'
<1> DEFINE c == call[p]
<1>1. At(p, "done") \/ At(p, "failed")
    BY DEF Return
<1>2. /\ c \in CallSet /\ CallInv(fat, data, c) /\ c.at \in {"done", "failed"}
    BY <1>1, HasCall
<1>3. View(fat, data, c) = data
    BY <1>2 DEF View
<1>4. Sound(fat, data)
    BY <1>2, <1>3 DEF CallInv
<1>5. call' = [call EXCEPT ![p] = Idle] /\ NoWrite
    BY DEF Return
<1>6. call \in [Callers -> {Idle} \cup CallSet]
    BY DEF FatInv
<1>7. \A q \in Callers : q = p
    BY DEF OneCaller
<1>8. (\A q \in Callers : call'[q] = Idle) /\ call' \in [Callers -> {Idle} \cup CallSet]
    BY <1>5, <1>6, <1>7
<1> QED BY <1>4, <1>5, <1>8, Quiets

\* A crash: what is on the disk is sound, as nothing was hidden but what is empty.
LEMMA CrashKept ==
    ASSUME FatInv, OneCaller, CrashesAdd, Crash
    PROVE  FatInv'
<1>1. PICK p \in Callers : call[p] # Idle /\ call[p].op \in CrashOps /\ ~HalfStored(call[p])
    BY DEF Crash, CrashesAdd
<1> DEFINE c == call[p]
<1>2. c \in CallSet /\ CallInv(fat, data, c)
    BY <1>1 DEF FatInv
<1>3. c.op \notin Drops
    BY <1>1 DEF CrashesAdd, Drops
<1>4. View(fat, data, c) = data
    BY <1>1, <1>3 DEF View, HalfStored
<1>5. Sound(fat, data)
    BY <1>2, <1>4 DEF CallInv
<1>6. call' = [q \in Callers |-> Idle] /\ NoWrite
    BY DEF Crash
<1>7. (\A q \in Callers : call'[q] = Idle) /\ call' \in [Callers -> {Idle} \cup CallSet]
    BY <1>6
<1> QED BY <1>5, <1>6, <1>7, Quiets

\* An empty disk.
LEMMA FatInit ==
    ASSUME Init
    PROVE  FatInv
<1>1. /\ fat = [c \in Clusters |-> IF c = Root THEN Eoc ELSE 0]
      /\ data = [c \in Clusters |-> Zeros(CellsPerCluster)]
      /\ call = [p \in Callers |-> Idle]
    BY DEF Init
<1>2. fat \in Table
    BY <1>1 DEF Table
<1>3. data \in Disk /\ \A x \in Spots : Cell(data, x) = Zero
    <2>1. data \in Disk
        BY <1>1, ZeroIs DEF Disk
    <2>2. ASSUME NEW x \in Spots PROVE Cell(data, x) = Zero
        <3>1. x[1] \in Clusters /\ x[2] \in Cols
            BY SpotIs
        <3>2. data[x[1]] = Zeros(CellsPerCluster)
            BY <1>1, <3>1
        <3> QED BY <3>1, <3>2, ZeroIs DEF Cell
    <2> QED BY <2>1, <2>2
<1>4. Whole(fat, Root)
    <2>1. fat[Root] = Eoc
        BY <1>1, Geometry
    <2> QED BY <2>1, Geometry, WholeOne
<1>5. EntryPlaces(fat, data) = {}
    <2>1. \A x \in EntryPlaces(fat, data) : x \in Spots /\ IsEntry(Cell(data, x))
        BY PlaceIs
    <2> QED BY <1>3, <2>1, ZeroIs
<1>6. Sound(fat, data)
    BY <1>4, <1>5 DEF Sound, Holders
<1> QED BY <1>1, <1>2, <1>3, <1>6 DEF FatInv

-----------------------------------------------------------------------------
(* The invariant.                                                          *)

\* A call begins.
LEMMA BeginKept ==
    ASSUME FatInv, OneCaller, SixteenBits, NEW p \in Callers, Begins(p)
    PROVE  FatInv'
<1>1. ASSUME NEW name \in Directories, MakeDirectory(p, name) PROVE \E c : Steps(p, c)
    <2>1. name \in Names
        BY GeometryAssumption DEF Names
    <2> QED BY <1>1, <2>1, RootHome, CreateSteps DEF MakeDirectory
<1>2. ASSUME NEW name \in Directories, RemoveDirectory(p, name) PROVE \E c : Steps(p, c)
    <2>1. name \in Names
        BY GeometryAssumption DEF Names
    <2> QED BY <1>2, <2>1, RemoveSteps
<1>3. ASSUME NEW home \in Homes,
             NEW name \in (IF home.path = <<>> THEN RootNames \ Directories ELSE InnerNames),
             \/ Create(p, home, name)
             \/ \E off \in Offsets, n \in Sizes, v \in Values : WriteAtOffset(p, home, name, off, n, v)
             \/ Truncate(p, home, name)
             \/ Unlink(p, home, name)
      PROVE  \E c : Steps(p, c)
    <2>1. name \in Names
        BY DEF Names
    <2>2. CASE Create(p, home, name)
        BY <2>1, <2>2, CreateSteps DEF Create
    <2>3. ASSUME NEW off \in Offsets, NEW n \in Sizes, NEW v \in Values, WriteAtOffset(p, home, name, off, n, v)
          PROVE  \E c : Steps(p, c)
        <3>1. off \in Nat /\ n \in Nat \ {0}
            BY GeometryAssumption
        <3> QED BY <2>1, <2>3, <3>1, WriteSteps
    <2>4. CASE Truncate(p, home, name)
        BY <2>1, <2>4, TruncateSteps
    <2>5. CASE Unlink(p, home, name)
        BY <2>1, <2>5, UnlinkSteps
    <2> QED BY <1>3, <2>2, <2>3, <2>4, <2>5
<1>4. \E c : Steps(p, c)
    BY <1>1, <1>2, <1>3 DEF Begins
<1> QED BY <1>4, Kept

\* A call goes on.
LEMMA ContinueKept ==
    ASSUME FatInv, OneCaller, SixteenBits, NEW p \in Callers, Continues(p)
    PROVE  FatInv'
<1>1. CASE Return(p)
    BY <1>1, ReturnKept
<1>2. CASE ~Return(p)
    <2>1. CASE FindCluster(p) \/ MarkCluster(p) \/ FreeCluster(p)
        BY <2>1, FindSteps, MarkSteps, FreeSteps, Kept
    <2>2. CASE ExtendDirectory(p) \/ LinkDirectory(p) \/ StoreDirectory(p)
        BY <2>2, ExtendSteps, LinkDirectorySteps, StoreSteps, Kept
    <2>3. CASE WriteDots(p) \/ EndDots(p) \/ FlushDirectory(p)
        BY <2>3, WriteDotsSteps, EndDotsSteps, FlushDirectorySteps, Kept
    <2>4. CASE AppendStart(p) \/ AppendMore(p) \/ LinkMore(p) \/ FillMore(p) \/ FlushTruncated(p)
        BY <2>4, AppendStartSteps, AppendMoreSteps, LinkMoreSteps, FillMoreSteps, FlushTruncatedSteps, Kept
    <2>5. CASE GrowFile(p) \/ LinkFile(p) \/ PutCluster(p) \/ FlushSize(p)
        BY <2>5, GrowSteps, LinkFileSteps, PutSteps, FlushSizeSteps, Kept
    <2>6. CASE MarkSlots(p)
        BY <2>6, MarkSlotsSteps, Kept
    <2> QED BY <1>2, <2>1, <2>2, <2>3, <2>4, <2>5, <2>6 DEF Continues
<1> QED BY <1>1, <1>2

\* Nothing happens.
LEMMA SameKept ==
    ASSUME FatInv, UNCHANGED vars
    PROVE  FatInv'
<1>1. fat' = fat /\ data' = data /\ call' = call
    BY DEF vars
<1> QED BY <1>1 DEF FatInv, Quiet

\* The inductive invariant, for any partition, names, sizes and offsets: every
\* step of createFile, createDirectory, writeFile, writeAtOffset, append,
\* deleteFile and deleteDirectory, every return and every crash in a call that
\* adds keeps the disk sound in the view of the call at work.
THEOREM FatSafe ==
    ASSUME OneCaller, SixteenBits, CrashesAdd
    PROVE  Spec => []FatInv
<1>1. Init => FatInv
    BY FatInit
<1>2. FatInv /\ [Next]_vars => FatInv'
    <2>1. SUFFICES ASSUME FatInv, [Next]_vars PROVE FatInv'
        OBVIOUS
    <2>2. CASE Crash
        BY <2>1, <2>2, CrashKept
    <2>3. ASSUME NEW p \in Callers, Begins(p) PROVE FatInv'
        BY <2>1, <2>3, BeginKept
    <2>4. ASSUME NEW p \in Callers, Continues(p) PROVE FatInv'
        BY <2>1, <2>4, ContinueKept
    <2>5. CASE UNCHANGED vars
        BY <2>1, <2>5, SameKept
    <2> QED BY <2>1, <2>2, <2>3, <2>4, <2>5 DEF Next
<1> QED BY <1>1, <1>2, PTL DEF Spec

-----------------------------------------------------------------------------
(* Sound chains.                                                           *)

\* Every entry is in a directory that is looked into.
LEMMA EntryHome ==
    ASSUME NEW e \in AllEntries
    PROVE  \E home \in Homes : e \in Entries(home.first)
<1>1. CASE e \in Entries(Root)
    <2> DEFINE home == [path |-> <<>>, first |-> Root]
    <2>1. home \in Homes /\ e \in Entries(home.first)
        BY <1>1, RootHome
    <2> QED BY <2>1
<1>2. ASSUME NEW d \in Entries(Root), Usable(d), e \in Entries(d.first)
      PROVE  \E home \in Homes : e \in Entries(home.first)
    <2> DEFINE home == [path |-> <<d.name>>, first |-> d.first]
    <2>1. home \in Homes
        BY <1>2 DEF Homes
    <2>2. e \in Entries(home.first)
        BY <1>2
    <2> QED BY <2>1, <2>2
<1> QED BY <1>1, <1>2 DEF AllEntries, Tops

\* Two entries have two places.
LEMMA EntryOnce ==
    ASSUME fat \in Table, data \in Disk, Sound(fat, data),
           NEW g \in Homes, NEW h \in Homes, NEW e \in Entries(g.first), NEW f \in Entries(h.first),
           PlaceOf(fat, e) = PlaceOf(fat, f)
    PROVE  e = f
<1> DEFINE x == PlaceOf(fat, e)
<1>1. PICK y \in Dirs(fat, data) : First(data, y) = g.first
    BY HomeIs
<1>2. PICK z \in Dirs(fat, data) : First(data, z) = h.first
    BY HomeIs
<1>3. x[1] \in Own(fat, g.first) /\ e.dir = g.first /\ e.off \in Nat /\ e \in EntrySet
    BY OpenIs
<1>4. x[1] \in Own(fat, h.first) /\ f.dir = h.first /\ f.off \in Nat /\ f \in EntrySet
    BY OpenIs
<1>5. g.first = h.first
    <2>1. x[1] \in Held(fat, data, y) /\ x[1] \in Held(fat, data, z)
        BY <1>1, <1>2, <1>3, <1>4 DEF Held
    <2>2. y \in Holders(fat, data) /\ z \in Holders(fat, data)
        BY PlaceIs
    <2>3. y = z
        BY <2>1, <2>2, HoldersApart
    <2> QED BY <1>1, <1>2, <2>3
<1> DEFINE s == ChainOf(fat, g.first)
           i == Which(e.off + 1)
           j == Which(f.off + 1)
<1>6. Whole(fat, g.first) /\ g.first \in Clusters
    BY HomeIs
<1>7. \A k, l \in 1 .. Len(s) : s[k] = s[l] => k = l
    BY <1>6, WholeIs
<1>8. i \in 1 .. Len(s) /\ Cell(data, x) = SlotOf(e)
    BY <1>6, EntriesIs
<1>9. j \in 1 .. Len(s) /\ Cell(data, PlaceOf(fat, f)) = SlotOf(f)
    BY <1>5, <1>6, EntriesIs
<1>10. s[i] = s[j] /\ Where(e.off + 1) = Where(f.off + 1)
    BY <1>3, <1>4, <1>5 DEF PlaceOf
<1>11. i = j
    BY <1>7, <1>8, <1>9, <1>10
<1>12. e.off = f.off
    <2>1. e.off + 1 = Nth(i, Where(e.off + 1))
        BY <1>3, PlaceOfCell
    <2>2. f.off + 1 = Nth(j, Where(f.off + 1))
        BY <1>4, PlaceOfCell
    <2>3. e.off + 1 = f.off + 1
        BY <1>10, <1>11, <2>1, <2>2
    <2> QED BY <1>3, <1>4, <2>3
<1>13. SlotOf(e) = SlotOf(f)
    BY <1>8, <1>9
<1>14. e.kind = f.kind /\ e.name = f.name /\ e.first = f.first /\ e.size = f.size
    BY <1>13 DEF SlotOf
<1> QED BY <1>3, <1>4, <1>5, <1>12, <1>14 DEF EntrySet

\* On a sound disk the chains are what ChainsSound asks for.
LEMMA SoundChains ==
    ASSUME FatInv
    PROVE  ChainsSound
<1>1. SUFFICES ASSUME Quiet PROVE
        LET kept == {e \in AllEntries : e.first # 0}
            own(e) == ToSet(Chain(e.first))
        IN  /\ \A e \in kept :
                  /\ fat[Last(Chain(e.first))] = Eoc
                  /\ e.size <= Len(Chain(e.first)) * CellsPerCluster
                  /\ own(e) \cap ToSet(Chain(Root)) = {}
                  /\ \A f \in kept \ {e} : own(e) \cap own(f) = {}
            /\ \A e \in AllEntries \ kept : e.size = 0
    BY DEF ChainsSound
<1>2. Sound(fat, data) /\ fat \in Table /\ data \in Disk
    BY <1>1 DEF FatInv
<1> DEFINE kept == {e \in AllEntries : e.first # 0}
           own(e) == Own(fat, e.first)
<1>3. \A e : ToSet(Chain(e.first)) = own(e)
    BY ChainIsOf DEF Own
<1>4. ToSet(Chain(Root)) = Own(fat, Root)
    BY ChainIsOf DEF Own
<1>5. ASSUME NEW e \in AllEntries
      PROVE  LET x == PlaceOf(fat, e) IN
             /\ x \in Holders(fat, data) /\ x # TheRoot /\ Held(fat, data, x) = own(e)
             /\ e.first = 0 => e.size = 0
             /\ e.first # 0 => Whole(fat, e.first) /\ e.size <= Len(ChainOf(fat, e.first)) * CellsPerCluster
    <2>1. PICK home \in Homes : e \in Entries(home.first)
        BY EntryHome
    <2> QED BY <1>2, <2>1, OpenIs, SpotIs
<1>6. ASSUME NEW e \in kept
      PROVE  /\ fat[Last(Chain(e.first))] = Eoc
             /\ e.size <= Len(Chain(e.first)) * CellsPerCluster
    <2>1. Chain(e.first) = ChainOf(fat, e.first)
        BY ChainIsOf
    <2>2. Whole(fat, e.first) /\ e.size <= Len(ChainOf(fat, e.first)) * CellsPerCluster
        BY <1>5
    <2>3. fat[ChainOf(fat, e.first)[Len(ChainOf(fat, e.first))]] = Eoc
        BY <2>2, WholeIs
    <2> QED BY <2>1, <2>2, <2>3 DEF Last
<1>7. ASSUME NEW e \in kept PROVE own(e) \cap Own(fat, Root) = {}
    <2>1. TheRoot \in Holders(fat, data) /\ Held(fat, data, TheRoot) = Own(fat, Root)
        BY RootIs
    <2> HIDE DEF own
    <2> QED BY <1>2, <1>5, <2>1, HoldersApart
<1>8. ASSUME NEW e \in kept, NEW f \in kept \ {e} PROVE own(e) \cap own(f) = {}
    <2>1. PICK g \in Homes : e \in Entries(g.first)
        BY EntryHome
    <2>2. PICK h \in Homes : f \in Entries(h.first)
        BY EntryHome
    <2>3. PlaceOf(fat, e) # PlaceOf(fat, f)
        BY <1>2, <2>1, <2>2, EntryOnce
    <2> HIDE DEF own
    <2> QED BY <1>2, <1>5, <2>3, HoldersApart
<1>9. \A e \in AllEntries \ kept : e.size = 0
    BY <1>5
<1> HIDE DEF own
<1> QED BY <1>3, <1>4, <1>6, <1>7, <1>8, <1>9

\* Chains of entries end, share no cluster and hold as many bytes as the entries
\* say, between any two calls (readClusterChain, allocateCluster, freeClusterChain).
THEOREM FatChainsSound ==
    ASSUME OneCaller, SixteenBits, CrashesAdd
    PROVE  Spec => []ChainsSound
<1>1. Spec => []FatInv
    BY FatSafe
<1>2. FatInv => ChainsSound
    BY SoundChains
<1> QED BY <1>1, <1>2, PTL

-----------------------------------------------------------------------------
(* A file read in parts.                                                   *)

\* Subsequences, place by place.
LEMMA SubSeqIs ==
    ASSUME NEW S, NEW s \in Seq(S), NEW a \in Nat \ {0}, NEW b \in Nat, b <= Len(s), a <= b + 1
    PROVE  /\ SubSeq(s, a, b) \in Seq(S) /\ Len(SubSeq(s, a, b)) = (b + 1) - a
           /\ (b + 1) - a \in Nat
           /\ \A i \in 1 .. (b + 1) - a : SubSeq(s, a, b)[i] = s[(a - 1) + i]
<1>1. Len(s) \in Nat /\ (b + 1) - a \in Nat
    BY LenProperties
<1>2. \A i \in a .. b : s[i] \in S
    BY <1>1, ElementOfSeq
<1> DEFINE t == SubSeq(s, a, b)
<1>3. /\ t \in Seq(S)
      /\ Len(t) = IF a <= b THEN b - a + 1 ELSE 0
      /\ \A i \in 1 .. b - a + 1 : t[i] = s[a + i - 1]
    BY <1>2, SubSeqProperties
<1> HIDE DEF t
<1>4. Len(t) = (b + 1) - a
    BY <1>1, <1>3
<1>5. ASSUME NEW i \in 1 .. (b + 1) - a PROVE t[i] = s[(a - 1) + i]
    <2>1. i \in 1 .. b - a + 1 /\ a + i - 1 = (a - 1) + i
        BY <1>1
    <2> QED BY <1>3, <2>1
<1> QED BY <1>1, <1>3, <1>4, <1>5 DEF t

\* The cell i of a file is the cell of the part that starts in its cluster.
LEMMA Shifted ==
    ASSUME NEW off \in Nat, NEW i \in Nat \ {0}
    PROVE  /\ off % CellsPerCluster \in 0 .. CellsPerCluster - 1
           /\ Skipped(off) \in Nat
           /\ Which(off + i) = Skipped(off) + Which((off % CellsPerCluster) + i)
           /\ Where(off + i) = Where((off % CellsPerCluster) + i)
           /\ (off % CellsPerCluster) + i \in Nat \ {0}
<1> DEFINE q == off \div CellsPerCluster
           r == off % CellsPerCluster
<1>1. q \in Nat /\ r \in 0 .. CellsPerCluster - 1 /\ off = q * CellsPerCluster + r
    BY Divided
<1>2. r \in Nat /\ r + i \in Nat \ {0}
    BY <1>1, Geometry
<1> HIDE DEF q, r
<1> DEFINE k == Which(r + i)
           w == Where(r + i)
<1>3. k \in Nat \ {0} /\ w \in Cols /\ r + i = Nth(k, w)
    BY <1>2, PlaceOfCell
<1> HIDE DEF k, w
<1>4. off + i = Nth(q + k, w)
    <2>1. k - 1 \in Nat /\ w \in Nat
        BY <1>3, Geometry DEF Cols
    <2>2. (q + (k - 1)) * CellsPerCluster = q * CellsPerCluster + (k - 1) * CellsPerCluster
        BY <1>1, <2>1, Geometry
    <2>3. (q + k) - 1 = q + (k - 1)
        BY <1>1, <2>1, <1>3
    <2>4. q * CellsPerCluster \in Nat /\ (k - 1) * CellsPerCluster \in Nat
        BY <1>1, <2>1, Times
    <2>5. r + i = (k - 1) * CellsPerCluster + w
        BY <1>3 DEF Nth
    <2>6. Nth(q + k, w) = (q * CellsPerCluster + (k - 1) * CellsPerCluster) + w
        BY <2>2, <2>3 DEF Nth
    <2>7. \A a, b \in Nat : off = a + r /\ r + i = b + w => off + i = (a + b) + w
        BY <1>1, <1>2, <2>1
    <2> QED BY <1>1, <2>4, <2>5, <2>6, <2>7
<1>5. q + k \in Nat \ {0}
    BY <1>1, <1>3
<1>6. Which(off + i) = q + k /\ Where(off + i) = w
    BY <1>3, <1>4, <1>5, CellOfPlace
<1> QED BY <1>1, <1>2, <1>6 DEF q, r, k, w, Skipped

\* What ReadPart takes: some clusters from the one of the offset on.
LEMMA PartIs ==
    ASSUME data \in Disk, NEW a, Whole(fat, a), NEW off \in Nat,
           off < Len(ChainOf(fat, a)) * CellsPerCluster, NEW n \in Nat \ {0}
    PROVE  LET part == ReadPart(a, off, n)
               full == Cells(Chain(a))
           IN  /\ part \in Seq(CellSet) /\ full \in Seq(CellSet)
               /\ Len(part) \in Nat \ {0} /\ Len(full) = Len(ChainOf(fat, a)) * CellsPerCluster
               /\ \A i \in 1 .. Len(part) : off + i <= Len(full) => part[i] = full[off + i]
<1> DEFINE s == ChainOf(fat, a)
           L == Len(s)
           k == Skipped(off)
           m == ClustersFor(n)
           hi == Less(L, k + m)
           taken == SubSeq(s, k + 1, hi)
           cells == Cells(taken)
           from == off % CellsPerCluster
           top == Less(Len(cells), from + n)
           part == SubSeq(cells, from + 1, top)
           full == Cells(s)
<1>1. s \in Seq(Clusters) /\ L \in Nat /\ L >= 1
    BY WholeIs
<1>2. Chain(a) = s
    BY ChainIsOf
<1> HIDE DEF s, L
<1>3. off < L * CellsPerCluster /\ L = Len(s)
    BY DEF L, s
<1>4. k \in Nat /\ from \in 0 .. CellsPerCluster - 1 /\ k < L
    <2>1. k \in Nat /\ from \in 0 .. CellsPerCluster - 1 /\ Which(off + 1) = k + Which(from + 1)
          /\ from + 1 \in Nat \ {0}
        BY Shifted
    <2> HIDE DEF from, k
    <2>2. off + 1 \in Nat \ {0} /\ off + 1 <= L * CellsPerCluster
        <3> DEFINE z == L * CellsPerCluster
        <3>1. z \in Nat /\ off < z
            BY <1>1, <1>3, Times
        <3> HIDE DEF z
        <3>2. off + 1 \in Nat \ {0} /\ off + 1 <= z
            BY <3>1
        <3> QED BY <3>2 DEF z
    <2>3. Which(off + 1) <= L
        BY <1>1, <2>2, PlaceInChain
    <2>4. Which(from + 1) \in Nat \ {0}
        BY <2>1, PlaceOfCell
    <2> QED BY <1>1, <2>1, <2>3, <2>4
<1>5. m \in Nat /\ m >= 1
    <2>1. m \in Nat /\ (m <= 0 <=> n <= 0 * CellsPerCluster)
        BY ClustersForIs
    <2>2. 0 * CellsPerCluster = 0
        BY Geometry
    <2> HIDE DEF m
    <2> QED BY <2>1, <2>2
<1> HIDE DEF k, m, from
<1>6. hi \in Nat /\ k + 1 <= hi /\ hi <= L
    BY <1>1, <1>4, <1>5 DEF Less
<1> HIDE DEF hi
<1>7. /\ taken \in Seq(Clusters) /\ Len(taken) = hi - k /\ hi - k \in Nat /\ hi - k >= 1
      /\ \A i \in 1 .. hi - k : taken[i] = s[k + i]
    <2>1. /\ taken \in Seq(Clusters) /\ Len(taken) = (hi + 1) - (k + 1)
          /\ \A i \in 1 .. (hi + 1) - (k + 1) : taken[i] = s[((k + 1) - 1) + i]
        <3>1. k + 1 \in Nat \ {0} /\ hi <= Len(s) /\ k + 1 <= hi + 1
            BY <1>3, <1>4, <1>6
        <3> QED BY <1>1, <1>6, <3>1, SubSeqIs
    <2> HIDE DEF taken
    <2>2. (hi + 1) - (k + 1) = hi - k /\ (k + 1) - 1 = k /\ hi - k \in Nat /\ hi - k >= 1
        BY <1>4, <1>6
    <2> QED BY <2>1, <2>2
<1> HIDE DEF taken
<1>8. /\ cells \in Seq(CellSet) /\ Len(cells) \in Nat /\ Len(cells) = (hi - k) * CellsPerCluster
      /\ \A i \in 1 .. Len(cells) :
            /\ Which(i) \in 1 .. hi - k
            /\ cells[i] = Cell(data, <<taken[Which(i)], Where(i)>>)
    BY <1>7, CellsIs
<1>9. /\ full \in Seq(CellSet) /\ Len(full) = L * CellsPerCluster /\ Len(full) \in Nat
      /\ \A i \in 1 .. Len(full) : full[i] = Cell(data, <<s[Which(i)], Where(i)>>)
    BY <1>1, <1>3, CellsIs
<1> HIDE DEF cells, full
<1>10. from \in Nat /\ from < Len(cells)
    <2>1. 1 * CellsPerCluster <= (hi - k) * CellsPerCluster
        BY <1>7, Times
    <2>2. 1 * CellsPerCluster = CellsPerCluster
        BY Geometry
    <2> DEFINE z == (hi - k) * CellsPerCluster
    <2> HIDE DEF z
    <2>3. CellsPerCluster <= z /\ Len(cells) = z
        BY <1>8, <2>1, <2>2 DEF z
    <2> QED BY <1>4, <1>8, <2>3, Geometry
<1>11. top \in Nat /\ from + 1 <= top /\ top <= Len(cells)
    BY <1>8, <1>10 DEF Less
<1> HIDE DEF top
<1>12. /\ part \in Seq(CellSet) /\ Len(part) = top - from /\ top - from \in Nat \ {0}
       /\ \A i \in 1 .. top - from : part[i] = cells[from + i]
    <2>1. /\ part \in Seq(CellSet) /\ Len(part) = (top + 1) - (from + 1)
          /\ \A i \in 1 .. (top + 1) - (from + 1) : part[i] = cells[((from + 1) - 1) + i]
        <3>1. from + 1 \in Nat \ {0} /\ from + 1 <= top + 1
            BY <1>10, <1>11
        <3> QED BY <1>8, <1>11, <3>1, SubSeqIs
    <2> HIDE DEF part
    <2>2. (top + 1) - (from + 1) = top - from /\ (from + 1) - 1 = from /\ top - from \in Nat \ {0}
        BY <1>10, <1>11
    <2> QED BY <2>1, <2>2
<1> HIDE DEF part
<1>13. ASSUME NEW i \in 1 .. Len(part), off + i <= Len(full) PROVE part[i] = full[off + i]
    <2>1. i \in Nat \ {0} /\ i \in 1 .. top - from /\ from + i \in 1 .. Len(cells)
        BY <1>8, <1>10, <1>11, <1>12, <1>13
    <2>2. off + i \in 1 .. Len(full)
        BY <1>9, <1>13, <2>1
    <2>3. Which(off + i) = k + Which(from + i) /\ Where(off + i) = Where(from + i)
        BY <2>1, Shifted DEF k, from
    <2>4. Which(from + i) \in 1 .. hi - k /\ cells[from + i] = Cell(data, <<taken[Which(from + i)], Where(from + i)>>)
        BY <1>8, <2>1
    <2>5. taken[Which(from + i)] = s[Which(off + i)]
        BY <1>7, <2>3, <2>4
    <2>6. full[off + i] = Cell(data, <<s[Which(off + i)], Where(off + i)>>)
        BY <1>9, <2>2
    <2> QED BY <1>12, <2>1, <2>3, <2>4, <2>5, <2>6
<1>14. ReadPart(a, off, n) = part
    BY <1>2 DEF ReadPart, part, top, from, cells, taken, hi, m, k, L
<1>15. Cells(Chain(a)) = full
    BY <1>2 DEF full
<1>16. Len(part) \in Nat \ {0} /\ Len(full) = Len(ChainOf(fat, a)) * CellsPerCluster
    BY <1>9, <1>12 DEF L, s
<1> QED BY <1>9, <1>12, <1>13, <1>14, <1>15, <1>16

\* A shorter sequence that agrees is a prefix.
LEMMA PrefixIs ==
    ASSUME NEW S, NEW s \in Seq(S), NEW t \in Seq(S), Len(s) <= Len(t),
           \A i \in 1 .. Len(s) : s[i] = t[i]
    PROVE  IsPrefix(s, t)
<1> DEFINE n == Len(s)
           u == SubSeq(s, 1, n)
           v == SubSeq(t, 1, n)
<1>1. n \in Nat /\ Len(t) \in Nat
    BY LenProperties
<1> HIDE DEF n
<1>2. n = Len(s) /\ n <= Len(t) /\ 1 \in Nat \ {0} /\ 1 <= n + 1 /\ (n + 1) - 1 = n /\ 1 - 1 = 0
    BY <1>1 DEF n
<1>3. u \in Seq(S) /\ Len(u) = n /\ \A i \in 1 .. n : u[i] = s[i]
    <2>1. u \in Seq(S) /\ Len(u) = (n + 1) - 1 /\ \A i \in 1 .. (n + 1) - 1 : u[i] = s[(1 - 1) + i]
        BY <1>1, <1>2, SubSeqIs
    <2> HIDE DEF u
    <2>2. \A i \in 1 .. n : (1 - 1) + i = i
        BY <1>1
    <2> QED BY <1>2, <2>1, <2>2
<1>4. v \in Seq(S) /\ Len(v) = n /\ \A i \in 1 .. n : v[i] = t[i]
    <2>1. v \in Seq(S) /\ Len(v) = (n + 1) - 1 /\ \A i \in 1 .. (n + 1) - 1 : v[i] = t[(1 - 1) + i]
        BY <1>1, <1>2, SubSeqIs
    <2> HIDE DEF v
    <2>2. \A i \in 1 .. n : (1 - 1) + i = i
        BY <1>1
    <2> QED BY <1>2, <2>1, <2>2
<1>5. u = v
    <2> HIDE DEF u, v
    <2>1. \A i \in 1 .. n : u[i] = v[i]
        BY <1>2, <1>3, <1>4
    <2> QED BY <1>3, <1>4, <2>1, SeqEqual
<1> QED BY <1>2, <1>5 DEF IsPrefix, u, v

\* A part of a file is what the whole has there.
LEMMA PartsAgree ==
    ASSUME FatInv
    PROVE  ReadsAgree
<1>1. SUFFICES ASSUME Quiet,
                      NEW e \in {x \in AllEntries : x.kind = "file"},
                      NEW off \in 0 .. e.size - 1, NEW n \in 1 .. CellsPerCluster + 1
               PROVE  LET part == ReadPart(e.first, off, n)
                      IN  /\ part # <<>>
                          /\ IsPrefix(SubSeq(part, 1, Less(Len(part), e.size - off)),
                                      SubSeq(Cells(Chain(e.first)), off + 1, e.size))
    BY DEF ReadsAgree
<1> DEFINE part == ReadPart(e.first, off, n)
           full == Cells(Chain(e.first))
           rest == e.size - off
           m == Less(Len(part), rest)
           s == SubSeq(part, 1, m)
           t == SubSeq(full, off + 1, e.size)
<1>2. Sound(fat, data) /\ fat \in Table /\ data \in Disk
    BY <1>1 DEF FatInv
<1>3. PICK home \in Homes : e \in Entries(home.first)
    BY EntryHome
<1>4. /\ e.size \in Nat
      /\ e.first = 0 => e.size = 0
      /\ e.first # 0 => Whole(fat, e.first) /\ e.size <= Len(ChainOf(fat, e.first)) * CellsPerCluster
    BY <1>2, <1>3, OpenIs
<1>5. off \in Nat /\ off < e.size /\ n \in Nat \ {0} /\ rest \in Nat \ {0} /\ off + rest = e.size
    BY <1>4, Geometry
<1>6. Whole(fat, e.first) /\ e.size <= Len(ChainOf(fat, e.first)) * CellsPerCluster
    BY <1>4, <1>5
<1> HIDE DEF rest
<1>7. Len(ChainOf(fat, e.first)) * CellsPerCluster \in Nat
    BY <1>6, WholeIs, Times
<1>8. off < Len(ChainOf(fat, e.first)) * CellsPerCluster
    <2> DEFINE z == Len(ChainOf(fat, e.first)) * CellsPerCluster
    <2> HIDE DEF z
    <2>1. z \in Nat /\ e.size <= z
        BY <1>6, <1>7 DEF z
    <2>2. off < z
        BY <1>4, <1>5, <2>1
    <2> QED BY <2>2 DEF z
<1>9. /\ part \in Seq(CellSet) /\ full \in Seq(CellSet)
      /\ Len(part) \in Nat \ {0} /\ Len(full) = Len(ChainOf(fat, e.first)) * CellsPerCluster
      /\ \A i \in 1 .. Len(part) : off + i <= Len(full) => part[i] = full[off + i]
    BY <1>2, <1>5, <1>6, <1>8, PartIs
<1> HIDE DEF part, full
<1>10. Len(full) \in Nat /\ e.size <= Len(full)
    BY <1>6, <1>7, <1>9
<1>11. m \in Nat \ {0} /\ m <= Len(part) /\ m <= rest
    BY <1>5, <1>9 DEF Less
<1> HIDE DEF m
<1>12. s \in Seq(CellSet) /\ Len(s) = m /\ \A i \in 1 .. m : s[i] = part[i]
    <2>1. s \in Seq(CellSet) /\ Len(s) = (m + 1) - 1 /\ \A i \in 1 .. (m + 1) - 1 : s[i] = part[(1 - 1) + i]
        <3>1. 1 \in Nat \ {0} /\ 1 <= m + 1
            BY <1>11
        <3> QED BY <1>9, <1>11, <3>1, SubSeqIs
    <2> HIDE DEF s
    <2>2. (m + 1) - 1 = m /\ \A i \in 1 .. m : (1 - 1) + i = i
        BY <1>11
    <2> QED BY <2>1, <2>2
<1>13. t \in Seq(CellSet) /\ Len(t) = rest /\ \A i \in 1 .. rest : t[i] = full[off + i]
    <2>1. /\ t \in Seq(CellSet) /\ Len(t) = (e.size + 1) - (off + 1)
          /\ \A i \in 1 .. (e.size + 1) - (off + 1) : t[i] = full[((off + 1) - 1) + i]
        <3>1. off + 1 \in Nat \ {0} /\ off + 1 <= e.size + 1
            BY <1>4, <1>5
        <3> QED BY <1>4, <1>9, <1>10, <3>1, SubSeqIs
    <2> HIDE DEF t
    <2>2. (e.size + 1) - (off + 1) = rest /\ (off + 1) - 1 = off
        BY <1>4, <1>5
    <2> QED BY <2>1, <2>2
<1> HIDE DEF s, t
<1>14. \A i \in 1 .. Len(s) : s[i] = t[i]
    <2>1. TAKE i \in 1 .. Len(s)
    <2>2. i \in 1 .. m /\ i \in 1 .. Len(part) /\ i \in 1 .. rest /\ off + i <= Len(full)
        BY <1>4, <1>5, <1>9, <1>10, <1>11, <1>12
    <2> QED BY <1>9, <1>12, <1>13, <2>2
<1>15. Len(s) <= Len(t)
    BY <1>11, <1>12, <1>13
<1>16. IsPrefix(s, t)
    BY <1>12, <1>13, <1>14, <1>15, PrefixIs
<1>17. part # <<>>
    BY <1>9
<1> QED BY <1>16, <1>17 DEF s, t, m, rest, part, full

\* readFile of a part returns what readFile of the whole has at that offset, for
\* every offset and size (Fat32.cpp's readFile with its skipped clusters).
THEOREM FatReadsAgree ==
    ASSUME OneCaller, SixteenBits, CrashesAdd
    PROVE  Spec => []ReadsAgree
<1>1. Spec => []FatInv
    BY FatSafe
<1>2. FatInv => ReadsAgree
    BY PartsAgree
<1> QED BY <1>1, <1>2, PTL
=============================================================================
