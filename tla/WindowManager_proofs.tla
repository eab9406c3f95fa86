------------------------ MODULE WindowManager_proofs ------------------------
(***************************************************************************)
(* Proofs about WindowManager, for any owners, shapes, screen and bounds:  *)
(* a frame sees no window that is closed or whose process is dead, and the *)
(* window that is dragged stays under the cursor.  Sorting and erasing     *)
(* rearrange the list, so what they keep of it comes first.                *)
(***************************************************************************)
EXTENDS WindowManager, FiniteSetTheorems, SequenceTheorems, TLAPS

Points == {"idle", "sort", "clear", "compose", "keys", "mouse"}
WindowRecords ==
    [id : Nat, owner : Owners, z : Nat, visible : BOOLEAN, x : Int, y : Int, w : Nat, h : Nat,
     movable : BOOLEAN, keys : Nat, clicks : Nat]
Screen == (0 .. ScreenWidth - 1) \X (0 .. ScreenHeight - 1)
In(s, e) == \E k \in DOMAIN s : s[k] = e

TypeInv ==
    /\ windows \in Seq(WindowRecords) /\ count \in Nat
    /\ deleted \in Seq(Nat) /\ owned \in [Owners -> Seq(Nat)]
    /\ mouse \in Screen /\ leftDown \in BOOLEAN
    /\ drag \in [on : BOOLEAN, id : Nat, dx : Int, dy : Int]
    /\ at \in Points

UniqueIds(ws) == \A i, j \in DOMAIN ws : ws[i].id = ws[j].id => i = j
IdsInv == UniqueIds(windows) /\ \A i \in DOMAIN windows : windows[i].id \in 1 .. count

\* A window that can be drawn is on the list of a process that lives: so kill finds it.
OwnerInv ==
    \A i \in DOMAIN windows : windows[i].visible =>
        /\ windows[i].owner \notin dead
        /\ In(owned[windows[i].owner], windows[i].id)

\* A closed window waits for the next frame, which has not begun.
ClosedInv ==
    \A i \in DOMAIN windows : ~windows[i].visible => at = "idle" /\ In(deleted, windows[i].id)

\* What is dragged was grabbed at a point inside of it, and still is there.
Grabbed(w) ==
    /\ 0 <= drag.dx /\ drag.dx < w.w
    /\ 0 <= drag.dy /\ drag.dy < w.h
DragInv ==
    drag.on =>
        /\ leftDown /\ drag.id \in 1 .. count
        /\ \A i \in DOMAIN windows : windows[i].id = drag.id =>
              Grabbed(windows[i]) /\ (AsWideAsMargin(windows[i]) => Contains(windows[i], mouse))

WMInv == TypeInv /\ IdsInv /\ OwnerInv /\ ClosedInv /\ DragInv

-----------------------------------------------------------------------------
(* Ranks: sorting and erasing take each place of the list at most once.    *)

Before(J, R, i) == {j \in J : <<j, i>> \in R}

StrictOrder(J, R) ==
    /\ \A i \in J : <<i, i>> \notin R
    /\ \A i, j, k \in J : <<i, j>> \in R /\ <<j, k>> \in R => <<i, k>> \in R
    /\ \A i, j \in J : i # j => <<i, j>> \in R \/ <<j, i>> \in R

\* In a finite set that is ordered, every rank has one element.
LEMMA RankBijection ==
    ASSUME NEW J, IsFiniteSet(J), NEW R, StrictOrder(J, R)
    PROVE  /\ \A r \in 1 .. Cardinality(J) : \E i \in J : Cardinality(Before(J, R, i)) = r - 1
           /\ \A i, j \in J : i # j => Cardinality(Before(J, R, i)) # Cardinality(Before(J, R, j))
           /\ \A i \in J : Cardinality(Before(J, R, i)) + 1 \in 1 .. Cardinality(J)
<1> DEFINE n == Cardinality(J)
           B(i) == Before(J, R, i)
           rank == [i \in J |-> Cardinality(B(i))]
<1>1. n \in Nat
    BY FS_CardinalityType
<1>2. ASSUME NEW i \in J
      PROVE  /\ B(i) \in SUBSET J /\ i \notin B(i) /\ IsFiniteSet(B(i))
             /\ Cardinality(B(i)) \in 0 .. n - 1
    <2>1. B(i) \in SUBSET J /\ i \notin B(i)
        BY DEF Before, StrictOrder
    <2>2. IsFiniteSet(B(i)) /\ Cardinality(B(i)) < n /\ Cardinality(B(i)) \in Nat
        BY <2>1, FS_Subset, FS_CardinalityType
    <2> QED BY <2>1, <2>2, <1>1
<1>3. ASSUME NEW i \in J, NEW j \in J, <<i, j>> \in R
      PROVE  Cardinality(B(i)) < Cardinality(B(j))
    <2>1. B(i) \in SUBSET B(j) /\ i \in B(j) /\ i \notin B(i)
        BY <1>3 DEF Before, StrictOrder
    <2>2. IsFiniteSet(B(j))
        BY <1>2
    <2>3. Cardinality(B(i)) <= Cardinality(B(j)) /\ Cardinality(B(i)) # Cardinality(B(j))
        BY <2>1, <2>2, FS_Subset
    <2> QED BY <2>3, <1>2
<1>4. \A i, j \in J : i # j => Cardinality(B(i)) # Cardinality(B(j))
    <2> SUFFICES ASSUME NEW i \in J, NEW j \in J, i # j
                 PROVE  Cardinality(B(i)) # Cardinality(B(j))
        OBVIOUS
    <2>1. <<i, j>> \in R \/ <<j, i>> \in R
        BY DEF StrictOrder
    <2>2. Cardinality(B(i)) \in Int /\ Cardinality(B(j)) \in Int
        BY <1>2
    <2>3. Cardinality(B(i)) < Cardinality(B(j)) \/ Cardinality(B(j)) < Cardinality(B(i))
        BY <2>1, <1>3
    <2> QED BY <2>2, <2>3
<1>5. rank \in Injection(J, 0 .. n - 1)
    BY <1>2, <1>4 DEF Injection, IsInjective
<1>6. IsFiniteSet(0 .. n - 1) /\ Cardinality(0 .. n - 1) = n
    BY <1>1, FS_Interval
<1>7. rank \in Surjection(J, 0 .. n - 1)
    BY <1>5, <1>6, FS_Injection
<1>8. ASSUME NEW r \in 1 .. n PROVE \E i \in J : Cardinality(B(i)) = r - 1
    <2>1. r - 1 \in 0 .. n - 1
        BY <1>1
    <2>2. PICK i \in J : rank[i] = r - 1
        BY <1>7, <2>1 DEF Surjection
    <2> QED BY <2>2
<1>9. \A i \in J : Cardinality(B(i)) + 1 \in 1 .. n
    BY <1>1, <1>2
<1> QED BY <1>4, <1>8, <1>9

-----------------------------------------------------------------------------
(* What is kept of a list that is sorted, or from which places are picked. *)

\* The places of ws are places of vs, each at most once.
LEMMA PickedKeeps ==
    ASSUME NEW T, NEW s \in Seq(T), NEW places \in SUBSET DOMAIN s
    PROVE  /\ Picked(s, places) \in Seq(T)
           /\ \E f \in [DOMAIN Picked(s, places) -> places] :
                 /\ \A r \in DOMAIN Picked(s, places) : Picked(s, places)[r] = s[f[r]]
                 /\ \A q, r \in DOMAIN Picked(s, places) : f[q] = f[r] => q = r
                 /\ \A i \in places : \E r \in DOMAIN Picked(s, places) : f[r] = i
<1> DEFINE R == {p \in places \X places : p[1] < p[2]}
           rank(i) == Cardinality({j \in places : j < i})
           n == Cardinality(places)
           f == [r \in 1 .. n |-> CHOOSE i \in places : rank(i) = r - 1]
<1>1. DOMAIN s = 1 .. Len(s) /\ Len(s) \in Nat
    BY LenProperties
<1>2. IsFiniteSet(places) /\ n \in Nat /\ places \subseteq Nat
    <2>1. IsFiniteSet(1 .. Len(s)) /\ places \in SUBSET (1 .. Len(s))
        BY <1>1, FS_Interval
    <2>2. IsFiniteSet(places)
        BY <2>1, FS_Subset
    <2> QED BY <1>1, <2>1, <2>2, FS_CardinalityType
<1>3. StrictOrder(places, R)
    BY <1>2 DEF StrictOrder
<1>4. \A i \in places : rank(i) = Cardinality(Before(places, R, i))
    <2>1. \A i \in places : {j \in places : j < i} = Before(places, R, i)
        BY DEF Before
    <2> QED BY <2>1
<1> HIDE DEF R
<1>5. \A r \in 1 .. n : f[r] \in places /\ rank(f[r]) = r - 1
    <2> HIDE DEF rank
    <2> QED BY <1>2, <1>3, <1>4, RankBijection
<1>6. /\ \A i, j \in places : i # j => rank(i) # rank(j)
      /\ \A i \in places : rank(i) + 1 \in 1 .. n
    <2> HIDE DEF rank
    <2> QED BY <1>2, <1>3, <1>4, RankBijection
<1>7. Picked(s, places) = [r \in 1 .. n |-> s[f[r]]]
    BY DEF Picked
<1>8. DOMAIN Picked(s, places) = 1 .. n /\ \A r \in 1 .. n : Picked(s, places)[r] = s[f[r]]
    <2> HIDE DEF f
    <2> QED BY <1>7
<1> HIDE DEF f, rank
<1>9. f \in [1 .. n -> places]
    BY <1>5 DEF f
<1>10. \A q, r \in 1 .. n : f[q] = f[r] => q = r
    BY <1>5, <1>2
<1>11. ASSUME NEW i \in places PROVE \E r \in 1 .. n : f[r] = i
    <2>1. rank(i) + 1 \in 1 .. n
        BY <1>6
    <2>2. f[rank(i) + 1] \in places /\ rank(f[rank(i) + 1]) = rank(i)
        <3>1. rank(i) \in Int
            BY <1>2, FS_Subset, FS_CardinalityType, {j \in places : j < i} \in SUBSET places DEF rank
        <3> QED BY <2>1, <1>5, <3>1
    <2> QED BY <2>1, <2>2, <1>6
<1>12. Picked(s, places) \in Seq(T)
    <2>1. \A r \in 1 .. n : s[f[r]] \in T
        BY <1>1, <1>9, ElementOfSeq
    <2> QED BY <1>2, <1>8, <1>7, <2>1
<1> HIDE DEF n
<1>13. /\ f \in [DOMAIN Picked(s, places) -> places]
       /\ \A r \in DOMAIN Picked(s, places) : Picked(s, places)[r] = s[f[r]]
       /\ \A q, r \in DOMAIN Picked(s, places) : f[q] = f[r] => q = r
       /\ \A i \in places : \E r \in DOMAIN Picked(s, places) : f[r] = i
    BY <1>8, <1>9, <1>10, <1>11
<1> QED BY <1>12, <1>13

LEMMA PickedRange ==
    ASSUME NEW T, NEW s \in Seq(T), NEW places \in SUBSET DOMAIN s, NEW e
    PROVE  In(Picked(s, places), e) <=> \E i \in places : s[i] = e
<1>1. PICK f \in [DOMAIN Picked(s, places) -> places] :
         /\ \A r \in DOMAIN Picked(s, places) : Picked(s, places)[r] = s[f[r]]
         /\ \A i \in places : \E r \in DOMAIN Picked(s, places) : f[r] = i
    BY PickedKeeps
<1> QED BY <1>1 DEF In

\* What the invariant asks of a window.
SamePlace(v, w) ==
    /\ v.id = w.id /\ v.owner = w.owner
    /\ v.x = w.x /\ v.y = w.y /\ v.w = w.w /\ v.h = w.h
Same(v, w) == SamePlace(v, w) /\ v.visible = w.visible

\* A list of the windows that there are, each at most once.
Rearranged(ws) ==
    /\ ws \in Seq(WindowRecords)
    /\ UniqueIds(ws)
    /\ \A i \in DOMAIN ws : \E j \in DOMAIN windows : Same(ws[i], windows[j])

LEMMA InPlace ==
    ASSUME WMInv, NEW ws \in Seq(WindowRecords), DOMAIN ws = DOMAIN windows,
           \A i \in DOMAIN windows : Same(ws[i], windows[i])
    PROVE  Rearranged(ws)
BY DEF WMInv, IdsInv, UniqueIds, Rearranged, Same, SamePlace

\* Whatever picks places of the list of windows, no place twice.
LEMMA Selection ==
    ASSUME WMInv, NEW ws \in Seq(WindowRecords), NEW f \in [DOMAIN ws -> DOMAIN windows],
           \A r \in DOMAIN ws : ws[r] = windows[f[r]],
           \A q, r \in DOMAIN ws : f[q] = f[r] => q = r
    PROVE  Rearranged(ws)
<1>1. UniqueIds(ws)
    BY DEF WMInv, IdsInv, UniqueIds
<1>2. \A i \in DOMAIN ws : f[i] \in DOMAIN windows /\ Same(ws[i], windows[f[i]])
    BY DEF Same, SamePlace
<1> QED BY <1>1, <1>2 DEF Rearranged

LEMMA WindowTypes ==
    ASSUME WMInv
    PROVE  /\ windows \in Seq(WindowRecords)
           /\ DOMAIN windows = 1 .. Len(windows) /\ Len(windows) \in Nat
           /\ \A i \in DOMAIN windows : windows[i] \in WindowRecords
BY LenProperties, ElementOfSeq DEF WMInv, TypeInv

LEMMA RemainingRearranges ==
    ASSUME WMInv
    PROVE  /\ Rearranged(Remaining(windows, deleted))
           /\ \A i \in DOMAIN Remaining(windows, deleted) :
                 ~In(deleted, Remaining(windows, deleted)[i].id)
<1> DEFINE places == {i \in DOMAIN windows : \A k \in DOMAIN deleted : windows[i].id # deleted[k]}
           ws == Picked(windows, places)
<1>1. windows \in Seq(WindowRecords)
    BY WindowTypes
<1>2. PICK f \in [DOMAIN ws -> places] :
         /\ \A r \in DOMAIN ws : ws[r] = windows[f[r]]
         /\ \A q, r \in DOMAIN ws : f[q] = f[r] => q = r
    <2>1. places \in SUBSET DOMAIN windows
        OBVIOUS
    <2> HIDE DEF places
    <2> QED BY <1>1, <2>1, PickedKeeps
<1>3. ws \in Seq(WindowRecords)
    BY <1>1, PickedKeeps
<1>4. ws = Remaining(windows, deleted)
    BY DEF Remaining
<1>5. Rearranged(ws)
    <2>1. f \in [DOMAIN ws -> DOMAIN windows]
        BY <1>2
    <2> HIDE DEF ws
    <2> QED BY <1>2, <1>3, <2>1, Selection
<1>6. \A i \in DOMAIN ws : ~In(deleted, ws[i].id)
    <2>1. \A i \in places : ~In(deleted, windows[i].id)
        BY DEF In
    <2> HIDE DEF ws, places
    <2> QED BY <1>2, <2>1
<1> QED BY <1>4, <1>5, <1>6

LEMMA ByHeightRearranges ==
    ASSUME WMInv
    PROVE  Rearranged(ByHeight(windows))
<1> DEFINE J == DOMAIN windows
           R == {p \in J \X J : Below(windows, p[1], p[2])}
           rank(i) == Cardinality({j \in J : Below(windows, j, i)})
           f == [r \in J |-> CHOOSE i \in J : rank(i) = r - 1]
           ws == ByHeight(windows)
<1>1. /\ J = 1 .. Len(windows) /\ Len(windows) \in Nat
      /\ \A i \in J : windows[i] \in WindowRecords /\ windows[i].z \in Nat
    BY WindowTypes DEF WindowRecords
<1>2. IsFiniteSet(J) /\ Cardinality(J) = Len(windows)
    BY <1>1, FS_Interval
<1>3. StrictOrder(J, R)
    BY <1>1 DEF StrictOrder, Below
<1>4. \A i \in J : rank(i) = Cardinality(Before(J, R, i))
    <2>1. \A i \in J : {j \in J : Below(windows, j, i)} = Before(J, R, i)
        BY DEF Before
    <2> QED BY <2>1
<1> HIDE DEF R
<1>5. \A r \in J : f[r] \in J /\ rank(f[r]) = r - 1
    <2> HIDE DEF rank
    <2>1. \A r \in J : \E i \in J : rank(i) = r - 1
        BY <1>1, <1>2, <1>3, <1>4, RankBijection
    <2> QED BY <2>1
<1>6. ws = [r \in J |-> windows[f[r]]]
    BY DEF ByHeight
<1> HIDE DEF f, rank, J
<1>7. /\ DOMAIN ws = J /\ \A r \in J : ws[r] = windows[f[r]]
      /\ \A r \in J : f[r] \in J
    BY <1>5, <1>6
<1>8. f \in [J -> J]
    BY <1>7 DEF f
<1>9. \A q, r \in J : f[q] = f[r] => q = r
    BY <1>5, <1>1
<1>10. ws \in Seq(WindowRecords)
    BY <1>1, <1>6, <1>7
<1> HIDE DEF ws
<1>11. Rearranged(ws)
    BY <1>7, <1>8, <1>9, <1>10, Selection DEF J
<1> QED BY <1>11 DEF ws

-----------------------------------------------------------------------------
(* The steps.                                                              *)

LEMMA InitInv == Init => WMInv
<1> SUFFICES ASSUME Init PROVE WMInv
    OBVIOUS
<1>1. mouse \in Screen
    BY ScreenAssumption DEF Init, Screen
<1>2. TypeInv
    <2>1. <<>> \in Seq(WindowRecords) /\ <<>> \in Seq(Nat)
        OBVIOUS
    <2>2. drag \in [on : BOOLEAN, id : Nat, dx : Int, dy : Int]
        BY DEF Init, NoDrag
    <2>3. owned \in [Owners -> Seq(Nat)]
        BY <2>1 DEF Init
    <2> QED BY <1>1, <2>1, <2>2, <2>3 DEF Init, TypeInv, Points
<1>3. IdsInv /\ OwnerInv /\ ClosedInv /\ DragInv
    BY DEF Init, IdsInv, UniqueIds, OwnerInv, ClosedInv, DragInv, NoDrag
<1> QED BY <1>2, <1>3 DEF WMInv

\* The frame has begun or not, as before, or it ends.
Onward == at' \in Points /\ (at' = "idle" \/ at # "idle")

\* A step that rearranges the windows and leaves the rest alone.
LEMMA Rearranging ==
    ASSUME WMInv, Rearranged(windows'), Onward,
           UNCHANGED <<count, deleted, owned, dead, mouse, leftDown, drag>>
    PROVE  WMInv'
<1>1. \A i \in DOMAIN windows' : \E j \in DOMAIN windows : Same(windows'[i], windows[j])
    BY DEF Rearranged
<1>2. TypeInv'
    BY DEF WMInv, TypeInv, Rearranged, Onward
<1>3. IdsInv'
    BY <1>1 DEF WMInv, IdsInv, Rearranged, UniqueIds, Same, SamePlace
<1>4. OwnerInv'
    BY <1>1 DEF WMInv, OwnerInv, Same, SamePlace, In
<1>5. ClosedInv'
    BY <1>1 DEF WMInv, ClosedInv, Same, SamePlace, In, Onward
<1>6. DragInv'
    <2> SUFFICES ASSUME drag.on, NEW i \in DOMAIN windows', windows'[i].id = drag.id
                 PROVE  (Grabbed(windows[i])
                           /\ (AsWideAsMargin(windows[i]) => Contains(windows[i], mouse)))'
        BY DEF WMInv, DragInv
    <2>1. PICK j \in DOMAIN windows : Same(windows'[i], windows[j])
        BY <1>1
    <2>2. Grabbed(windows[j]) /\ (AsWideAsMargin(windows[j]) => Contains(windows[j], mouse))
        BY <2>1 DEF WMInv, DragInv, Same, SamePlace
    <2> QED BY <2>1, <2>2 DEF Same, SamePlace, Grabbed, AsWideAsMargin, Contains
<1> QED BY <1>2, <1>3, <1>4, <1>5, <1>6 DEF WMInv

\* A step that does not touch them at all.
LEMMA Standing ==
    ASSUME WMInv, Onward, UNCHANGED <<windows, count, deleted, owned, dead, mouse, leftDown, drag>>
    PROVE  WMInv'
<1>1. Rearranged(windows)
    BY WindowTypes, InPlace DEF Same, SamePlace
<1> QED BY <1>1, Rearranging

\* One window changes in nothing that the invariant is about.
LEMMA OneChanges ==
    ASSUME WMInv, NEW k, NEW w,
           k \in DOMAIN windows => w \in WindowRecords /\ Same(w, windows[k])
    PROVE  Rearranged([windows EXCEPT ![k] = w])
<1> DEFINE ws == [windows EXCEPT ![k] = w]
<1>1. /\ windows \in Seq(WindowRecords) /\ DOMAIN windows = 1 .. Len(windows)
      /\ Len(windows) \in Nat
      /\ windows \in [1 .. Len(windows) -> WindowRecords]
      /\ DOMAIN ws = DOMAIN windows
    BY WindowTypes, LenProperties
<1>2. ws \in [1 .. Len(windows) -> WindowRecords]
    BY <1>1
<1>3. ws \in Seq(WindowRecords)
    BY <1>1, <1>2
<1>4. \A i \in DOMAIN windows : Same(ws[i], windows[i])
    BY <1>1 DEF Same, SamePlace
<1> HIDE DEF ws
<1>5. Rearranged(ws)
    BY <1>1, <1>3, <1>4, InPlace
<1> QED BY <1>5 DEF ws

LEMMA RaisedKeeps ==
    ASSUME NEW ws \in Seq(WindowRecords), NEW id
    PROVE  /\ Raised(ws, id) \in Seq(WindowRecords)
           /\ DOMAIN Raised(ws, id) = DOMAIN ws
           /\ \A i \in DOMAIN ws : Same(Raised(ws, id)[i], ws[i])
<1> DEFINE rs == Raised(ws, id)
<1>1. DOMAIN ws = 1 .. Len(ws) /\ Len(ws) \in Nat
    BY LenProperties
<1>2. DOMAIN rs = DOMAIN ws
    BY DEF Raised
<1>3. ASSUME NEW i \in DOMAIN ws
      PROVE  rs[i] \in WindowRecords /\ Same(rs[i], ws[i])
    <2>1. ws[i] \in WindowRecords
        BY <1>1, ElementOfSeq
    <2> DEFINE z == IF ws[i].id = id THEN Len(ws) ELSE IF ws[i].z > 0 THEN ws[i].z - 1 ELSE 0
    <2>2. z \in Nat
        <3>1. ws[i].z \in Nat
            BY <2>1 DEF WindowRecords
        <3> QED BY <1>1, <3>1
    <2>3. rs[i] = [ws[i] EXCEPT !.z = z]
        BY DEF Raised
    <2> HIDE DEF z, rs
    <2> QED BY <2>1, <2>2, <2>3 DEF WindowRecords, Same, SamePlace
<1>4. rs \in Seq(WindowRecords)
    <2>1. rs = [i \in 1 .. Len(ws) |-> rs[i]]
        BY <1>1 DEF Raised
    <2> HIDE DEF rs
    <2>2. \A i \in 1 .. Len(ws) : rs[i] \in WindowRecords
        BY <1>1, <1>3
    <2>3. rs \in [1 .. Len(ws) -> WindowRecords]
        BY <2>1, <2>2
    <2> QED BY <1>1, <2>3
<1> QED BY <1>2, <1>3, <1>4

LEMMA RaisedRearranges ==
    ASSUME WMInv, NEW id
    PROVE  Rearranged(Raised(windows, id))
BY WindowTypes, RaisedKeeps, InPlace

LEMMA ClosedKeeps ==
    ASSUME NEW ws \in Seq(WindowRecords), NEW ids \in Seq(Nat)
    PROVE  /\ Closed(ws, ids) \in Seq(WindowRecords)
           /\ DOMAIN Closed(ws, ids) = DOMAIN ws
           /\ \A i \in DOMAIN ws :
                 /\ SamePlace(Closed(ws, ids)[i], ws[i])
                 /\ Closed(ws, ids)[i].visible <=> ws[i].visible /\ ~In(ids, ws[i].id)
<1> DEFINE cs == Closed(ws, ids)
<1>1. DOMAIN ws = 1 .. Len(ws) /\ Len(ws) \in Nat /\ Len(ids) \in Nat
    BY LenProperties
<1>2. DOMAIN cs = DOMAIN ws
    BY DEF Closed
<1>3. ASSUME NEW i \in DOMAIN ws
      PROVE  /\ cs[i] \in WindowRecords
             /\ SamePlace(cs[i], ws[i])
             /\ cs[i].visible <=> ws[i].visible /\ ~In(ids, ws[i].id)
    <2>1. ws[i] \in WindowRecords
        BY <1>1, ElementOfSeq
    <2> DEFINE z == IF ws[i].z > Len(ids) THEN ws[i].z - Len(ids) ELSE 0
               seen == ws[i].visible /\ ~In(ids, ws[i].id)
    <2>2. z \in Nat /\ seen \in BOOLEAN
        <3>1. ws[i].z \in Nat
            BY <2>1 DEF WindowRecords
        <3> QED BY <1>1, <3>1
    <2>3. cs[i] = [ws[i] EXCEPT !.visible = seen, !.z = z]
        <3>1. cs[i] = [ws[i] EXCEPT !.visible = @ /\ \A k \in DOMAIN ids : ids[k] # ws[i].id,
                                    !.z = z]
            BY DEF Closed
        <3>2. (\A k \in DOMAIN ids : ids[k] # ws[i].id) <=> ~In(ids, ws[i].id)
            BY DEF In
        <3>3. (ws[i].visible /\ \A k \in DOMAIN ids : ids[k] # ws[i].id) = seen
            BY <3>2
        <3> HIDE DEF z, seen, cs
        <3> QED BY <3>1, <3>3
    <2> HIDE DEF z, cs, seen
    <2>4. SamePlace(cs[i], ws[i]) /\ cs[i] \in WindowRecords /\ cs[i].visible = seen
        BY <2>1, <2>2, <2>3 DEF WindowRecords, SamePlace
    <2> QED BY <2>4 DEF seen
<1>4. cs \in Seq(WindowRecords)
    <2>1. cs = [i \in 1 .. Len(ws) |-> cs[i]]
        BY <1>1 DEF Closed
    <2> HIDE DEF cs
    <2>2. \A i \in 1 .. Len(ws) : cs[i] \in WindowRecords
        BY <1>1, <1>3
    <2>3. cs \in [1 .. Len(ws) -> WindowRecords]
        BY <2>1, <2>2
    <2> QED BY <1>1, <2>3
<1> QED BY <1>2, <1>3, <1>4

LEMMA InConcat ==
    ASSUME NEW T, NEW s \in Seq(T), NEW t \in Seq(T), NEW e
    PROVE  In(s \o t, e) <=> In(s, e) \/ In(t, e)
<1>1. /\ DOMAIN s = 1 .. Len(s) /\ Len(s) \in Nat
      /\ DOMAIN t = 1 .. Len(t) /\ Len(t) \in Nat
    BY LenProperties
<1>2. /\ DOMAIN (s \o t) = 1 .. Len(s) + Len(t)
      /\ \A i \in 1 .. Len(s) + Len(t) : (s \o t)[i] = IF i <= Len(s) THEN s[i] ELSE t[i - Len(s)]
    BY ConcatProperties, LenProperties
<1>3. ASSUME In(s \o t, e) PROVE In(s, e) \/ In(t, e)
    BY <1>1, <1>2, <1>3 DEF In
<1>4. ASSUME In(s, e) PROVE In(s \o t, e)
    BY <1>1, <1>2, <1>4 DEF In
<1>5. ASSUME In(t, e) PROVE In(s \o t, e)
    <2>1. PICK k \in 1 .. Len(t) : t[k] = e
        BY <1>1, <1>5 DEF In
    <2>2. (s \o t)[Len(s) + k] = e /\ Len(s) + k \in 1 .. Len(s) + Len(t)
        BY <1>1, <1>2, <2>1
    <2> QED BY <1>2, <2>2 DEF In
<1> QED BY <1>3, <1>4, <1>5

\* A window that stays open belongs to a process that stays alive and knows it.
StaysOwned(ids) ==
    \A i \in DOMAIN windows : windows[i].visible /\ ~In(ids, windows[i].id) =>
        windows[i].owner \notin dead' /\ In(owned'[windows[i].owner], windows[i].id)

LEMMA CloseStep ==
    ASSUME WMInv, at = "idle", NEW ids \in Seq(Nat), CloseWindows(ids), StaysOwned(ids),
           owned' \in [Owners -> Seq(Nat)], UNCHANGED <<count, mouse, leftDown, drag, at>>
    PROVE  WMInv'
<1>1. /\ windows' \in Seq(WindowRecords) /\ DOMAIN windows' = DOMAIN windows
      /\ \A i \in DOMAIN windows :
            /\ SamePlace(windows'[i], windows[i])
            /\ windows'[i].visible <=> windows[i].visible /\ ~In(ids, windows[i].id)
    BY WindowTypes, ClosedKeeps DEF CloseWindows
<1> DEFINE listed == {k \in DOMAIN ids : Listed(ids[k])}
<1>2. /\ deleted' = deleted \o Picked(ids, listed) /\ deleted \in Seq(Nat)
      /\ Picked(ids, listed) \in Seq(Nat)
      /\ \A e : In(Picked(ids, listed), e) <=> \E k \in listed : ids[k] = e
    <2>1. listed \in SUBSET DOMAIN ids
        OBVIOUS
    <2>2. deleted' = deleted \o Picked(ids, listed) /\ deleted \in Seq(Nat)
        BY DEF CloseWindows, WMInv, TypeInv
    <2> HIDE DEF listed
    <2>3. Picked(ids, listed) \in Seq(Nat)
        BY <2>1, PickedKeeps
    <2>4. \A e : In(Picked(ids, listed), e) <=> \E k \in listed : ids[k] = e
        BY <2>1, PickedRange
    <2> QED BY <2>2, <2>3, <2>4
<1>3. deleted' \in Seq(Nat) /\ \A e : In(deleted, e) => In(deleted', e)
    <2> HIDE DEF listed
    <2>1. deleted \o Picked(ids, listed) \in Seq(Nat)
        BY <1>2, ConcatProperties
    <2>2. \A e : In(deleted, e) => In(deleted \o Picked(ids, listed), e)
        BY <1>2, InConcat
    <2> QED BY <1>2, <2>1, <2>2
<1>4. \A i \in DOMAIN windows : In(ids, windows[i].id) => In(deleted', windows[i].id)
    <2> SUFFICES ASSUME NEW i \in DOMAIN windows, In(ids, windows[i].id)
                 PROVE  In(deleted', windows[i].id)
        OBVIOUS
    <2>1. \E k \in listed : ids[k] = windows[i].id
        BY DEF In, Listed
    <2> HIDE DEF listed
    <2> QED BY <2>1, <1>2, InConcat
<1>5. TypeInv'
    BY <1>1, <1>3 DEF WMInv, TypeInv
<1>6. IdsInv'
    BY <1>1 DEF WMInv, IdsInv, UniqueIds, SamePlace
<1>7. OwnerInv'
    BY <1>1 DEF StaysOwned, OwnerInv, SamePlace
<1>8. ClosedInv'
    <2> SUFFICES ASSUME NEW i \in DOMAIN windows, ~windows'[i].visible
                 PROVE  at' = "idle" /\ In(deleted', windows'[i].id)
        BY <1>1 DEF ClosedInv
    <2>1. CASE In(ids, windows[i].id)
        BY <2>1, <1>1, <1>4 DEF SamePlace
    <2>2. CASE ~windows[i].visible
        BY <2>2, <1>1, <1>3 DEF WMInv, ClosedInv, SamePlace
    <2> QED BY <1>1, <2>1, <2>2
<1>9. DragInv'
    <2> SUFFICES ASSUME drag.on, NEW i \in DOMAIN windows, windows'[i].id = drag.id
                 PROVE  (Grabbed(windows[i])
                           /\ (AsWideAsMargin(windows[i]) => Contains(windows[i], mouse)))'
        BY <1>1 DEF WMInv, DragInv
    <2>1. SamePlace(windows'[i], windows[i])
        BY <1>1
    <2>2. Grabbed(windows[i]) /\ (AsWideAsMargin(windows[i]) => Contains(windows[i], mouse))
        BY <2>1 DEF WMInv, DragInv, SamePlace
    <2> QED BY <2>1, <2>2 DEF SamePlace, Grabbed, AsWideAsMargin, Contains
<1> QED BY <1>5, <1>6, <1>7, <1>8, <1>9 DEF WMInv

LEMMA CloseWindowStep ==
    ASSUME WMInv, NEW o \in Owners, NEW id \in Ids, CloseWindow(o, id)
    PROVE  WMInv'
<1>1. <<id>> \in Seq(Nat) /\ \A e : In(<<id>>, e) <=> e = id
    BY ScreenAssumption DEF Ids, In
<1>2. /\ owned[o] \in Seq(Nat) /\ owned \in [Owners -> Seq(Nat)]
      /\ owned' = [owned EXCEPT ![o] = Without(owned[o], id)]
    BY DEF WMInv, TypeInv, CloseWindow
<1>3. /\ Without(owned[o], id) \in Seq(Nat)
      /\ \A e : In(owned[o], e) /\ e # id => In(Without(owned[o], id), e)
    <2> DEFINE others == {k \in DOMAIN owned[o] : owned[o][k] # id}
    <2>1. others \in SUBSET DOMAIN owned[o] /\ Without(owned[o], id) = Picked(owned[o], others)
        BY DEF Without
    <2>2. \A e : In(owned[o], e) /\ e # id => \E k \in others : owned[o][k] = e
        BY DEF In
    <2> HIDE DEF others
    <2>3. Picked(owned[o], others) \in Seq(Nat)
        BY <1>2, <2>1, PickedKeeps
    <2>4. \A e : (\E k \in others : owned[o][k] = e) => In(Picked(owned[o], others), e)
        BY <1>2, <2>1, PickedRange
    <2>5. \A e : In(owned[o], e) /\ e # id => In(Picked(owned[o], others), e)
        BY <2>2, <2>4
    <2> QED BY <2>1, <2>3, <2>5
<1>4. owned' \in [Owners -> Seq(Nat)]
    BY <1>2, <1>3
<1>5. StaysOwned(<<id>>)
    <2> SUFFICES ASSUME NEW i \in DOMAIN windows, windows[i].visible, windows[i].id # id
                 PROVE  windows[i].owner \notin dead' /\ In(owned'[windows[i].owner], windows[i].id)
        BY <1>1 DEF StaysOwned
    <2>1. windows[i].owner \in Owners
        BY WindowTypes DEF WindowRecords
    <2>2. windows[i].owner \notin dead /\ In(owned[windows[i].owner], windows[i].id)
        BY DEF WMInv, OwnerInv
    <2>3. dead' = dead
        BY DEF CloseWindow
    <2>4. owned'[windows[i].owner] = IF windows[i].owner = o THEN Without(owned[o], id)
                                     ELSE owned[windows[i].owner]
        BY <1>2, <2>1
    <2> QED BY <2>2, <2>3, <2>4, <1>3
<1> QED BY <1>1, <1>4, <1>5, CloseStep DEF CloseWindow, Scheduled, inputVars, frameVars

LEMMA KillStep ==
    ASSUME WMInv, NEW o \in Owners, Kill(o)
    PROVE  WMInv'
<1>1. owned[o] \in Seq(Nat) /\ owned \in [Owners -> Seq(Nat)]
    BY DEF WMInv, TypeInv
<1>2. owned' = [owned EXCEPT ![o] = <<>>] /\ dead' = dead \cup {o}
    BY DEF Kill
<1>3. owned' \in [Owners -> Seq(Nat)]
    <2>1. <<>> \in Seq(Nat)
        OBVIOUS
    <2> QED BY <1>1, <1>2, <2>1
<1>4. StaysOwned(owned[o])
    <2> SUFFICES ASSUME NEW i \in DOMAIN windows, windows[i].visible, ~In(owned[o], windows[i].id)
                 PROVE  windows[i].owner \notin dead' /\ In(owned'[windows[i].owner], windows[i].id)
        BY DEF StaysOwned
    <2>1. windows[i].owner \notin dead /\ In(owned[windows[i].owner], windows[i].id)
        BY DEF WMInv, OwnerInv
    <2>2. windows[i].owner # o /\ windows[i].owner \in Owners
        BY <2>1, WindowTypes DEF WindowRecords
    <2> QED BY <1>1, <1>2, <2>1, <2>2
<1> QED BY <1>1, <1>3, <1>4, CloseStep DEF Kill, Abandoned, Scheduled, inputVars, frameVars

LEMMA InAppend ==
    ASSUME NEW T, NEW s \in Seq(T), NEW t \in T
    PROVE  In(Append(s, t), t) /\ \A e : In(s, e) => In(Append(s, t), e)
<1>1. DOMAIN s = 1 .. Len(s) /\ Len(s) \in Nat
    BY LenProperties
<1>2. /\ DOMAIN Append(s, t) = 1 .. Len(s) + 1
      /\ Append(s, t)[Len(s) + 1] = t /\ \A i \in 1 .. Len(s) : Append(s, t)[i] = s[i]
    BY <1>1
<1>3. Len(s) + 1 \in 1 .. Len(s) + 1 /\ 1 .. Len(s) \subseteq 1 .. Len(s) + 1
    BY <1>1
<1>4. In(Append(s, t), t)
    BY <1>2, <1>3 DEF In
<1>5. ASSUME NEW e, In(s, e) PROVE In(Append(s, t), e)
    BY <1>1, <1>2, <1>3, <1>5 DEF In
<1> QED BY <1>4, <1>5

LEMMA RequestStep ==
    ASSUME WMInv, NEW o \in Owners, NEW shape \in Shapes, RequestWindow(o, shape)
    PROVE  WMInv'
<1> DEFINE w == [id |-> count + 1, owner |-> o, z |-> 0, visible |-> TRUE,
                 x |-> shape.x, y |-> shape.y, w |-> shape.w, h |-> shape.h,
                 movable |-> shape.movable, keys |-> 0, clicks |-> 0]
           ws == Append(windows, w)
           new == Len(windows) + 1
<1>1. /\ windows \in Seq(WindowRecords) /\ DOMAIN windows = 1 .. Len(windows)
      /\ Len(windows) \in Nat /\ count \in Nat /\ owned \in [Owners -> Seq(Nat)]
    BY WindowTypes DEF WMInv, TypeInv
<1>2. w \in WindowRecords
    BY <1>1, ScreenAssumption DEF WindowRecords
<1>3. /\ windows' = Raised(ws, count + 1) /\ count' = count + 1
      /\ owned' = [owned EXCEPT ![o] = Append(owned[o], count + 1)]
      /\ o \notin dead
      /\ UNCHANGED <<deleted, dead, mouse, leftDown, drag, at>>
    BY DEF RequestWindow, SetActiveWindow, Scheduled, inputVars, frameVars
<1>3a. w.id = count + 1 /\ w.owner = o /\ w.visible = TRUE
    OBVIOUS
<1> HIDE DEF w
<1>4. /\ ws \in Seq(WindowRecords) /\ DOMAIN ws = 1 .. new
      /\ ws[new] = w /\ \A i \in DOMAIN windows : ws[i] = windows[i]
    BY <1>1, <1>2
<1> HIDE DEF ws
<1>5. /\ windows' \in Seq(WindowRecords) /\ DOMAIN windows' = 1 .. new
      /\ Same(windows'[new], w)
      /\ \A i \in DOMAIN windows : Same(windows'[i], windows[i])
    <2>1. /\ windows' \in Seq(WindowRecords) /\ DOMAIN windows' = 1 .. new
          /\ \A i \in 1 .. new : Same(windows'[i], ws[i])
        BY <1>3, <1>4, RaisedKeeps
    <2> QED BY <2>1, <1>1, <1>4
<1>6. \A i \in DOMAIN windows' : i = new \/ i \in DOMAIN windows
    BY <1>1, <1>5
<1>7. \A i \in DOMAIN windows : windows[i].id \in 1 .. count
    BY DEF WMInv, IdsInv
<1>8. /\ owned' \in [Owners -> Seq(Nat)] /\ In(owned'[o], count + 1)
      /\ \A p \in Owners : \A e : In(owned[p], e) => In(owned'[p], e)
    <2>1. owned[o] \in Seq(Nat)
        BY <1>1
    <2>2. Append(owned[o], count + 1) \in Seq(Nat)
        BY <1>1, <2>1
    <2>3. In(Append(owned[o], count + 1), count + 1)
          /\ \A e : In(owned[o], e) => In(Append(owned[o], count + 1), e)
        BY <1>1, <2>1, InAppend
    <2> QED BY <1>1, <1>3, <2>2, <2>3
<1> HIDE DEF new
<1>9. TypeInv'
    BY <1>1, <1>3, <1>5, <1>8 DEF WMInv, TypeInv
<1>10. IdsInv'
    <2>1. \A i \in DOMAIN windows' : windows'[i].id \in 1 .. count'
        BY <1>1, <1>3, <1>3a, <1>5, <1>6, <1>7 DEF Same, SamePlace
    <2>2. UniqueIds(windows')
        <3>1. windows'[new].id = count + 1
            BY <1>3a, <1>5 DEF Same, SamePlace
        <3>2. \A i \in DOMAIN windows : windows'[i].id = windows[i].id /\ windows'[i].id # count + 1
            BY <1>1, <1>5, <1>7 DEF Same, SamePlace
        <3>3. \A i, j \in DOMAIN windows : windows[i].id = windows[j].id => i = j
            BY DEF WMInv, IdsInv, UniqueIds
        <3> QED BY <1>6, <3>1, <3>2, <3>3 DEF UniqueIds
    <2> QED BY <2>1, <2>2 DEF IdsInv
<1>11. OwnerInv'
    <2> SUFFICES ASSUME NEW i \in DOMAIN windows', windows'[i].visible
                 PROVE  windows'[i].owner \notin dead' /\ In(owned'[windows'[i].owner], windows'[i].id)
        BY DEF OwnerInv
    <2>1. CASE i = new
        BY <2>1, <1>3, <1>3a, <1>5, <1>8 DEF Same, SamePlace
    <2>2. CASE i \in DOMAIN windows
        <3>1. /\ windows[i].owner \notin dead /\ In(owned[windows[i].owner], windows[i].id)
              /\ windows[i].owner \in Owners
            BY <2>2, <1>5, WindowTypes DEF WMInv, OwnerInv, Same, WindowRecords
        <3> QED BY <2>2, <3>1, <1>3, <1>5, <1>8 DEF Same, SamePlace
    <2> QED BY <2>1, <2>2, <1>6
<1>12. ClosedInv'
    BY <1>3, <1>3a, <1>5, <1>6 DEF WMInv, ClosedInv, Same, SamePlace, In
<1>13. DragInv'
    <2> SUFFICES ASSUME drag.on, NEW i \in DOMAIN windows', windows'[i].id = drag.id
                 PROVE  (Grabbed(windows[i])
                           /\ (AsWideAsMargin(windows[i]) => Contains(windows[i], mouse)))'
        BY <1>1, <1>3 DEF WMInv, DragInv
    <2>1. drag.id \in 1 .. count
        BY DEF WMInv, DragInv
    <2>2. i \in DOMAIN windows
        BY <2>1, <1>1, <1>3a, <1>5, <1>6 DEF Same, SamePlace
    <2>3. Same(windows'[i], windows[i])
        BY <1>5, <2>2
    <2>4. Grabbed(windows[i]) /\ (AsWideAsMargin(windows[i]) => Contains(windows[i], mouse))
        BY <2>2, <2>3 DEF WMInv, DragInv, Same, SamePlace
    <2> QED BY <1>3, <2>3, <2>4 DEF Same, SamePlace, Grabbed, AsWideAsMargin, Contains
<1> QED BY <1>9, <1>10, <1>11, <1>12, <1>13 DEF WMInv

\* doEraseWindows leaves no closed window for the frame.
LEMMA BeginStep ==
    ASSUME WMInv, BeginFrame
    PROVE  WMInv'
<1>1. /\ Rearranged(windows') /\ \A i \in DOMAIN windows' : ~In(deleted, windows'[i].id)
      /\ deleted' = <<>>
      /\ at' = "sort" /\ UNCHANGED <<count, owned, dead, mouse, leftDown, drag>>
    BY RemainingRearranges DEF BeginFrame, Goto, inputVars
<1>2. \A i \in DOMAIN windows' : \E j \in DOMAIN windows :
         Same(windows'[i], windows[j]) /\ ~In(deleted, windows[j].id)
    BY <1>1 DEF Rearranged, Same, SamePlace
<1>3. TypeInv'
    BY <1>1 DEF WMInv, TypeInv, Rearranged, Points
<1>4. IdsInv'
    BY <1>1, <1>2 DEF WMInv, IdsInv, Rearranged, Same, SamePlace
<1>5. OwnerInv'
    BY <1>1, <1>2 DEF WMInv, OwnerInv, Same, SamePlace, In
<1>6. ClosedInv'
    BY <1>2 DEF WMInv, ClosedInv, Same
<1>7. DragInv'
    <2> SUFFICES ASSUME drag.on, NEW i \in DOMAIN windows', windows'[i].id = drag.id
                 PROVE  (Grabbed(windows[i])
                           /\ (AsWideAsMargin(windows[i]) => Contains(windows[i], mouse)))'
        BY <1>1 DEF WMInv, DragInv
    <2>1. PICK j \in DOMAIN windows : Same(windows'[i], windows[j])
        BY <1>2
    <2>2. Grabbed(windows[j]) /\ (AsWideAsMargin(windows[j]) => Contains(windows[j], mouse))
        BY <2>1 DEF WMInv, DragInv, Same, SamePlace
    <2> QED BY <1>1, <2>1, <2>2 DEF Same, SamePlace, Grabbed, AsWideAsMargin, Contains
<1> QED BY <1>3, <1>4, <1>5, <1>6, <1>7 DEF WMInv

LEMMA PopStep ==
    ASSUME WMInv, NEW o \in Owners, PopEvents(o)
    PROVE  WMInv'
<1>1. PICK i \in DOMAIN windows :
         windows' = [windows EXCEPT ![i].keys = IF @ > 0 THEN @ - 1 ELSE 0,
                                    ![i].clicks = IF @ > 0 THEN @ - 1 ELSE 0]
    BY DEF PopEvents
<1> DEFINE k == IF windows[i].keys > 0 THEN windows[i].keys - 1 ELSE 0
           c == IF windows[i].clicks > 0 THEN windows[i].clicks - 1 ELSE 0
           w == [windows[i] EXCEPT !.keys = k, !.clicks = c]
<1>2. windows[i] \in WindowRecords /\ windows[i].keys \in Nat /\ windows[i].clicks \in Nat
    BY WindowTypes DEF WindowRecords
<1>3. windows' = [windows EXCEPT ![i] = w]
    BY <1>1, <1>2 DEF WindowRecords
<1>4. k \in Nat /\ c \in Nat
    BY <1>2
<1> HIDE DEF k, c
<1>5. w \in WindowRecords /\ Same(w, windows[i])
    BY <1>2, <1>4 DEF WindowRecords, Same, SamePlace
<1> HIDE DEF w
<1>6. Rearranged(windows')
    BY <1>3, <1>5, OneChanges
<1>7. Onward /\ UNCHANGED <<count, deleted, owned, dead, mouse, leftDown, drag>>
    BY DEF PopEvents, inputVars, frameVars, Onward, WMInv, TypeInv
<1> QED BY <1>6, <1>7, Rearranging

LEMMA QueuedType ==
    ASSUME NEW n \in Nat
    PROVE  Queued(n) \in Nat
BY DEF Queued

LEMMA ForwardKeyStep ==
    ASSUME WMInv, ForwardKey
    PROVE  WMInv'
<1>1. Onward /\ UNCHANGED <<count, deleted, owned, dead, mouse, leftDown, drag>>
    BY DEF ForwardKey, Onward, WMInv, TypeInv
<1>2. CASE ~Listed(active)
    BY <1>1, <1>2, Standing DEF ForwardKey
<1>3. CASE Listed(active)
    <2> DEFINE i == IndexOf(active)
               w == [windows[i] EXCEPT !.keys = Queued(windows[i].keys)]
    <2>1. i \in DOMAIN windows
        BY <1>3 DEF Listed, IndexOf
    <2>2. windows[i] \in WindowRecords /\ windows[i].keys \in Nat
        BY <2>1, WindowTypes DEF WindowRecords
    <2>3. windows' = [windows EXCEPT ![i] = w]
        BY <1>3 DEF ForwardKey
    <2> HIDE DEF i
    <2>4. w \in WindowRecords /\ Same(w, windows[i])
        BY <2>2, QueuedType DEF WindowRecords, Same, SamePlace
    <2> HIDE DEF w
    <2> QED BY <1>1, <2>3, <2>4, OneChanges, Rearranging
<1> QED BY <1>2, <1>3

LEMMA ForwardMouseStep ==
    ASSUME WMInv, ForwardMouse
    PROVE  WMInv'
<1> DEFINE p == Head(mouseEvents)
<1>1. Onward /\ UNCHANGED <<count, deleted, owned, dead, mouse, leftDown, drag>>
    BY DEF ForwardMouse, Onward, WMInv, TypeInv
<1>2. CASE AtPosition(p) = {}
    BY <1>1, <1>2, Standing DEF ForwardMouse
<1>3. CASE AtPosition(p) # {}
    <2> DEFINE i == TopAt(p)
               w == [windows[i] EXCEPT !.clicks = Queued(windows[i].clicks)]
    <2>1. windows' = [windows EXCEPT ![i] = w]
        BY <1>3 DEF ForwardMouse
    <2> HIDE DEF i
    <2>2. i \in DOMAIN windows => w \in WindowRecords /\ Same(w, windows[i])
        <3> SUFFICES ASSUME i \in DOMAIN windows PROVE w \in WindowRecords /\ Same(w, windows[i])
            OBVIOUS
        <3>1. windows[i] \in WindowRecords /\ windows[i].clicks \in Nat
            BY WindowTypes DEF WindowRecords
        <3> QED BY <3>1, QueuedType DEF WindowRecords, Same, SamePlace
    <2> HIDE DEF w
    <2> QED BY <1>1, <2>1, <2>2, OneChanges, Rearranging
<1> QED BY <1>2, <1>3

LEMMA FrameStepInv ==
    ASSUME WMInv, FrameStep
    PROVE  WMInv'
<1>1. CASE BeginFrame
    BY <1>1, BeginStep
<1>2. CASE SortWindows
    <2>1. /\ Onward /\ UNCHANGED <<count, deleted, owned, dead, mouse, leftDown, drag>>
          /\ windows' = windows \/ windows' = ByHeight(windows)
        BY <1>2 DEF SortWindows, Onward, Points, inputVars
    <2> QED BY <2>1, ByHeightRearranges, Rearranging, Standing
<1>3. CASE ClearSortingNeeded \/ ComposeWindow \/ StartForwarding \/ KeysForwarded \/ EndFrame
    <2>1. Onward /\ UNCHANGED <<windows, count, deleted, owned, dead, mouse, leftDown, drag>>
        BY <1>3 DEF ClearSortingNeeded, ComposeWindow, StartForwarding, KeysForwarded, EndFrame, Goto,
                    Onward, Points, inputVars, WMInv, TypeInv
    <2> QED BY <2>1, Standing
<1>4. CASE ForwardKey
    BY <1>4, ForwardKeyStep
<1>5. CASE ForwardMouse
    BY <1>5, ForwardMouseStep
<1> QED BY <1>1, <1>2, <1>3, <1>4, <1>5 DEF FrameStep

LEMMA AltTabStep ==
    ASSUME WMInv, AltTab
    PROVE  WMInv'
<1>1. Onward /\ UNCHANGED <<count, deleted, owned, dead, mouse, leftDown, drag>>
    BY DEF AltTab, Onward, WMInv, TypeInv, inputVars, frameVars
<1>2. windows' = windows \/ \E id : windows' = Raised(windows, id)
    BY DEF AltTab, SetActiveWindow
<1> QED BY <1>1, <1>2, RaisedRearranges, Rearranging, Standing

\* The window that getWindowAtPosition finds is there, and is at the position.
LEMMA TopIsAtPosition ==
    ASSUME WMInv, NEW p, AtPosition(p) # {}
    PROVE  TopAt(p) \in DOMAIN windows /\ Contains(windows[TopAt(p)], p)
<1> DEFINE J == AtPosition(p)
           R == {q \in J \X J : q[2] < q[1]}
<1>1. J \in SUBSET (1 .. Len(windows)) /\ Len(windows) \in Nat
    BY WindowTypes DEF AtPosition
<1>2. IsFiniteSet(J) /\ Cardinality(J) \in Nat /\ Cardinality(J) # 0
    <2>1. IsFiniteSet(J)
        <3>1. IsFiniteSet(1 .. Len(windows))
            BY <1>1, FS_Interval
        <3> HIDE DEF J
        <3> QED BY <1>1, <3>1, FS_Subset
    <2>2. J # {}
        OBVIOUS
    <2> HIDE DEF J
    <2> QED BY <2>1, <2>2, FS_CardinalityType, FS_EmptySet
<1>3. StrictOrder(J, R)
    BY <1>1 DEF StrictOrder
<1>4. PICK i \in J : Cardinality(Before(J, R, i)) = 1 - 1
    <2> HIDE DEF J, R
    <2> QED BY <1>2, <1>3, RankBijection
<1>5. Before(J, R, i) = {}
    <2>1. Before(J, R, i) \in SUBSET J
        BY DEF Before
    <2> HIDE DEF J, R
    <2>2. IsFiniteSet(Before(J, R, i)) /\ Cardinality(Before(J, R, i)) = 0
        BY <2>1, <1>2, <1>4, FS_Subset
    <2> QED BY <2>2, FS_EmptySet
<1>6. \A j \in J : j <= i
    <2>1. ASSUME NEW j \in J, i < j PROVE FALSE
        <3>1. <<j, i>> \in R
            BY <2>1
        <3> HIDE DEF R, J
        <3> QED BY <3>1, <1>5 DEF Before
    <2>2. \A j \in J : i \in Int /\ j \in Int
        BY <1>1
    <2> HIDE DEF J
    <2> QED BY <2>1, <2>2
<1>7. TopAt(p) \in AtPosition(p)
    BY <1>6 DEF TopAt
<1> QED BY <1>7 DEF AtPosition

LEMMA ClampType ==
    ASSUME NEW v \in Int, NEW lo \in Int, NEW hi \in Int
    PROVE  Clamp(v, lo, hi) \in Int /\ (lo <= hi => Clamp(v, lo, hi) \in lo .. hi)
BY DEF Clamp

\* However far the clamp moves it, a side longer than the margin reaches over the cursor.
LEMMA ClampHolds ==
    ASSUME NEW side \in Nat, NEW p \in 0 .. side - 1, NEW lo \in Int, lo <= 0, Margin < side,
           NEW n \in Nat, Margin <= n, NEW d \in Int, 0 <= d, d < n
    PROVE  Clamp(p - d, lo, side - Margin) <= p /\ p < Clamp(p - d, lo, side - Margin) + n
BY ScreenAssumption DEF Clamp

LEMMA MovedType ==
    ASSUME WMInv, NEW d \in Moves
    PROVE  /\ Moved(d) \in Screen /\ Moved(d)[1] \in 0 .. ScreenWidth - 1
           /\ Moved(d)[2] \in 0 .. ScreenHeight - 1
<1>1. /\ mouse[1] + d[1] \in Int /\ mouse[2] + d[2] \in Int
      /\ ScreenWidth - 1 \in Nat /\ ScreenHeight - 1 \in Nat
    BY ScreenAssumption DEF WMInv, TypeInv, Screen
<1>2. /\ Clamp(mouse[1] + d[1], 0, ScreenWidth - 1) \in 0 .. ScreenWidth - 1
      /\ Clamp(mouse[2] + d[2], 0, ScreenHeight - 1) \in 0 .. ScreenHeight - 1
    <2>1. 0 \in Int /\ 0 <= ScreenWidth - 1 /\ 0 <= ScreenHeight - 1
          /\ ScreenWidth - 1 \in Int /\ ScreenHeight - 1 \in Int
        BY <1>1
    <2> QED BY <1>1, <2>1, ClampType
<1> QED BY <1>2 DEF Moved, Screen

\* What the mouse never does: open, close, or give away a window.
LEMMA MouseKeeps ==
    ASSUME WMInv, windows' \in Seq(WindowRecords), DOMAIN windows' = DOMAIN windows,
           \A i \in DOMAIN windows :
              /\ windows'[i].id = windows[i].id /\ windows'[i].owner = windows[i].owner
              /\ windows'[i].visible = windows[i].visible,
           mouse' \in Screen, leftDown' \in BOOLEAN,
           drag' \in [on : BOOLEAN, id : Nat, dx : Int, dy : Int],
           UNCHANGED <<count, deleted, owned, dead, at>>, DragInv'
    PROVE  WMInv'
<1>1. TypeInv'
    BY DEF WMInv, TypeInv
<1>2. IdsInv'
    BY DEF WMInv, IdsInv, UniqueIds
<1>3. OwnerInv'
    BY DEF WMInv, OwnerInv
<1>4. ClosedInv'
    BY DEF WMInv, ClosedInv
<1> QED BY <1>1, <1>2, <1>3, <1>4 DEF WMInv

MouseStep(d) ==
    /\ mouse' = Moved(d)
    /\ UNCHANGED <<count, deleted, owned, dead, at>>

LEMMA PressStep ==
    ASSUME WMInv, NEW d \in Moves, MouseStep(d), Press(d)
    PROVE  WMInv'
<1> DEFINE p == Moved(d)
<1>1. mouse' = p /\ p \in Screen /\ p[1] \in Int /\ p[2] \in Int /\ leftDown' = TRUE
    BY MovedType, ScreenAssumption DEF MouseStep, Press
<1>2. ~drag.on /\ drag \in [on : BOOLEAN, id : Nat, dx : Int, dy : Int]
    BY DEF Press, WMInv, DragInv, TypeInv
<1>3. CASE UNCHANGED <<windows, drag>>
    <2>1. DragInv'
        BY <1>2, <1>3 DEF DragInv
    <2> QED BY <1>1, <1>2, <1>3, <2>1, WindowTypes, MouseKeeps DEF MouseStep
<1>4. CASE AtPosition(p) # {} /\ windows' = Raised(windows, windows[TopAt(p)].id)
    <2>0. PICK k \in DOMAIN windows : k = TopAt(p) /\ Contains(windows[k], p)
        BY <1>4, TopIsAtPosition
    <2> DEFINE w == windows[k]
    <2>1. k \in DOMAIN windows /\ Contains(w, p)
        BY <2>0
    <2>2. /\ w \in WindowRecords /\ w.x \in Int /\ w.y \in Int /\ w.id \in 1 .. count /\ w.id \in Nat
          /\ w.w \in Nat /\ w.h \in Nat
        BY <2>1, WindowTypes DEF WindowRecords, WMInv, IdsInv
    <2>3. /\ windows' \in Seq(WindowRecords) /\ DOMAIN windows' = DOMAIN windows
          /\ \A i \in DOMAIN windows : Same(windows'[i], windows[i])
        BY <1>4, <2>0, WindowTypes, RaisedKeeps
    <2>4. drag' = drag \/ drag' = [on |-> TRUE, id |-> w.id, dx |-> p[1] - w.x, dy |-> p[2] - w.y]
        BY <2>0 DEF Press, StartDragging
    <2>5. drag' \in [on : BOOLEAN, id : Nat, dx : Int, dy : Int]
        <3>1. p[1] - w.x \in Int /\ p[2] - w.y \in Int
            BY <2>2, <1>1
        <3>2. ASSUME NEW a \in Nat, NEW b \in Int, NEW c \in Int
              PROVE  [on |-> TRUE, id |-> a, dx |-> b, dy |-> c]
                        \in [on : BOOLEAN, id : Nat, dx : Int, dy : Int]
            OBVIOUS
        <3>3. w.id \in Nat
            BY <2>2
        <3> HIDE DEF p, w
        <3>4. [on |-> TRUE, id |-> w.id, dx |-> p[1] - w.x, dy |-> p[2] - w.y]
                 \in [on : BOOLEAN, id : Nat, dx : Int, dy : Int]
            BY <3>1, <3>2, <3>3
        <3> QED BY <2>4, <3>4, <1>2
    <2> HIDE DEF p
    <2>6. DragInv'
        <3> SUFFICES ASSUME drag'.on
                     PROVE  /\ leftDown' /\ drag'.id \in 1 .. count'
                            /\ \A i \in DOMAIN windows' : windows'[i].id = drag'.id =>
                                  (Grabbed(windows[i])
                                    /\ (AsWideAsMargin(windows[i]) => Contains(windows[i], mouse)))'
            BY DEF DragInv
        <3>1. drag' = [on |-> TRUE, id |-> w.id, dx |-> p[1] - w.x, dy |-> p[2] - w.y]
            BY <2>4, <1>2
        <3>2. \A i \in DOMAIN windows' : windows'[i].id = drag'.id => i = k
            BY <2>1, <2>3, <3>1 DEF WMInv, IdsInv, UniqueIds, Same, SamePlace
        <3>3. Same(windows'[k], w) /\ Contains(w, p)
            BY <2>1, <2>3
        <3> HIDE DEF w
        <3>4. 0 <= drag'.dx /\ drag'.dx < w.w /\ 0 <= drag'.dy /\ drag'.dy < w.h
            BY <3>1, <3>3, <2>2, <1>1 DEF Contains
        <3>5. (Grabbed(windows[k]) /\ Contains(windows[k], mouse))'
            BY <3>3, <3>4, <1>1 DEF Grabbed, Contains, Same, SamePlace
        <3>6. leftDown' /\ drag'.id \in 1 .. count'
            BY <1>1, <2>2, <3>1 DEF MouseStep
        <3> QED BY <3>2, <3>5, <3>6
    <2> QED BY <1>1, <2>3, <2>5, <2>6, MouseKeeps DEF MouseStep, Same, SamePlace
<1> QED BY <1>3, <1>4 DEF Press, StartDragging, SetActiveWindow

LEMMA HoldStep ==
    ASSUME WMInv, NEW d \in Moves, MouseStep(d), Hold(d)
    PROVE  WMInv'
<1>1. PICK px \in 0 .. ScreenWidth - 1, py \in 0 .. ScreenHeight - 1 :
         Moved(d) = <<px, py>> /\ mouse' = <<px, py>>
    BY MovedType DEF MouseStep, Screen
<1>2. /\ drag.on /\ leftDown /\ leftDown' /\ drag' = drag /\ leftDown' \in BOOLEAN
      /\ drag \in [on : BOOLEAN, id : Nat, dx : Int, dy : Int]
    BY DEF Hold, UpdateDragging, WMInv, TypeInv
<1>3. mouse' \in Screen
    BY <1>1 DEF Screen
<1>4. CASE ~Listed(drag.id)
    <2>1. windows' = windows
        BY <1>4 DEF Hold, UpdateDragging
    <2>2. DragInv'
        BY <1>2, <1>4, <2>1 DEF DragInv, Listed, WMInv, MouseStep
    <2> QED BY <1>2, <1>3, <2>1, <2>2, WindowTypes, MouseKeeps DEF MouseStep
<1>5. CASE Listed(drag.id)
    <2>1. PICK k \in DOMAIN windows : k = IndexOf(drag.id) /\ windows[k].id = drag.id
        BY <1>5 DEF Listed, IndexOf
    <2> DEFINE x == DraggedTo(Moved(d)).x
               y == DraggedTo(Moved(d)).y
               w == [windows[k] EXCEPT !.x = x, !.y = y]
    <2>2. windows' = [windows EXCEPT ![k] = w]
        BY <1>5, <2>1 DEF Hold, UpdateDragging
    <2>3. /\ windows[k] \in WindowRecords /\ windows[k].w \in Nat /\ windows[k].h \in Nat
          /\ Grabbed(windows[k]) /\ drag.dx \in Int /\ drag.dy \in Int
        BY <1>2, <2>1, WindowTypes DEF WindowRecords, WMInv, DragInv
    <2>4. /\ x = Clamp(px - drag.dx, -ScreenWidth + Margin, ScreenWidth - Margin)
          /\ y = Clamp(py - drag.dy, 0, ScreenHeight - Margin)
        BY <1>1 DEF DraggedTo
    <2>5. x \in Int /\ y \in Int
        <3>1. /\ px - drag.dx \in Int /\ -ScreenWidth + Margin \in Int /\ ScreenWidth - Margin \in Int
              /\ py - drag.dy \in Int /\ 0 \in Int /\ ScreenHeight - Margin \in Int
            BY <2>3, ScreenAssumption
        <3> HIDE DEF x, y
        <3> QED BY <2>4, <3>1, ClampType
    <2>6. ASSUME AsWideAsMargin(windows[k])
          PROVE  x <= px /\ px < x + windows[k].w /\ y <= py /\ py < y + windows[k].h
        <3>1. /\ -ScreenWidth + Margin \in Int /\ -ScreenWidth + Margin <= 0 /\ 0 \in Int /\ 0 <= 0
              /\ Margin < ScreenWidth /\ Margin < ScreenHeight
              /\ ScreenWidth \in Nat /\ ScreenHeight \in Nat
            BY ScreenAssumption
        <3>2. /\ Margin <= windows[k].w /\ 0 <= drag.dx /\ drag.dx < windows[k].w
              /\ Margin <= windows[k].h /\ 0 <= drag.dy /\ drag.dy < windows[k].h
            BY <2>3, <2>6 DEF Grabbed, AsWideAsMargin
        <3> HIDE DEF x, y
        <3>3. x <= px /\ px < x + windows[k].w
            BY <2>3, <2>4, <3>1, <3>2, ClampHolds
        <3>4. y <= py /\ py < y + windows[k].h
            BY <2>3, <2>4, <3>1, <3>2, ClampHolds
        <3> QED BY <3>3, <3>4
    <2> HIDE DEF x, y
    <2>7. /\ w \in WindowRecords /\ w.id = windows[k].id /\ w.owner = windows[k].owner
          /\ w.visible = windows[k].visible /\ w.w = windows[k].w /\ w.h = windows[k].h
          /\ w.x = x /\ w.y = y
        BY <2>3, <2>5 DEF WindowRecords
    <2> HIDE DEF w
    <2>8. /\ windows' \in Seq(WindowRecords) /\ DOMAIN windows' = DOMAIN windows
          /\ windows'[k] = w /\ \A i \in DOMAIN windows : i # k => windows'[i] = windows[i]
        <3>1. windows \in [1 .. Len(windows) -> WindowRecords] /\ Len(windows) \in Nat
            BY WindowTypes, LenProperties
        <3>2. windows' \in [1 .. Len(windows) -> WindowRecords]
            BY <2>2, <2>7, <3>1
        <3>3. windows' \in Seq(WindowRecords)
            BY <3>1, <3>2
        <3> QED BY <2>2, <3>1, <3>3
    <2>9. DragInv'
        <3> SUFFICES ASSUME NEW i \in DOMAIN windows', windows'[i].id = drag.id
                     PROVE  (Grabbed(windows[i])
                               /\ (AsWideAsMargin(windows[i]) => Contains(windows[i], mouse)))'
            BY <1>2 DEF DragInv, WMInv, MouseStep
        <3>1. i = k
            BY <2>1, <2>8 DEF WMInv, IdsInv, UniqueIds
        <3>2. Grabbed(windows[i])'
            BY <1>2, <2>3, <2>7, <2>8, <3>1 DEF Grabbed
        <3>3. ASSUME AsWideAsMargin(windows[i])' PROVE Contains(windows[i], mouse)'
            <4>1. AsWideAsMargin(windows[k])
                BY <2>7, <2>8, <3>1, <3>3 DEF AsWideAsMargin
            <4>2. windows'[i] = w /\ mouse'[1] = px /\ mouse'[2] = py
                BY <1>1, <2>8, <3>1
            <4> QED BY <2>6, <2>7, <4>1, <4>2 DEF Contains
        <3> QED BY <3>2, <3>3
    <2>10. \A i \in DOMAIN windows :
              /\ windows'[i].id = windows[i].id /\ windows'[i].owner = windows[i].owner
              /\ windows'[i].visible = windows[i].visible
        BY <2>7, <2>8
    <2> QED BY <1>2, <1>3, <2>8, <2>9, <2>10, MouseKeeps DEF MouseStep
<1> QED BY <1>4, <1>5

LEMMA MouseMoveStep ==
    ASSUME WMInv, NEW d \in Moves, MouseMove(d)
    PROVE  WMInv'
<1>1. MouseStep(d) /\ mouse' \in Screen
    BY MovedType DEF MouseMove, MouseStep, frameVars
<1>2. CASE Press(d)
    BY <1>1, <1>2, PressStep
<1>3. CASE Hold(d)
    BY <1>1, <1>3, HoldStep
<1>4. CASE Release(d) \/ \E down \in BOOLEAN : Move(d, down)
    <2>1. windows' = windows /\ leftDown' \in BOOLEAN
        BY <1>4 DEF Release, StopDragging, Move
    <2>2. /\ drag' \in [on : BOOLEAN, id : Nat, dx : Int, dy : Int]
          /\ ~drag'.on
        <3>0. /\ drag \in [on : BOOLEAN, id : Nat, dx : Int, dy : Int]
              /\ drag.on => leftDown
            BY DEF WMInv, TypeInv, DragInv
        <3>1. CASE Release(d)
            <4>1. drag' = [drag EXCEPT !.on = FALSE, !.id = 0]
                BY <3>1 DEF Release, StopDragging
            <4>2. drag' = [on |-> FALSE, id |-> 0, dx |-> drag.dx, dy |-> drag.dy]
                BY <3>0, <4>1
            <4> QED BY <3>0, <4>2
        <3>2. ASSUME NEW down \in BOOLEAN, Move(d, down)
              PROVE  drag' = drag /\ ~drag.on
            BY <3>0, <3>2 DEF Move
        <3> QED BY <1>4, <3>0, <3>1, <3>2
    <2>3. DragInv'
        BY <2>2 DEF DragInv
    <2> QED BY <1>1, <2>1, <2>2, <2>3, WindowTypes, MouseKeeps DEF MouseStep
<1> QED BY <1>2, <1>3, <1>4 DEF MouseMove

LEMMA NextInv ==
    ASSUME WMInv, [Next]_vars
    PROVE  WMInv'
<1>1. ASSUME NEW o \in Owners, NEW shape \in Shapes, RequestWindow(o, shape) PROVE WMInv'
    BY <1>1, RequestStep
<1>2. ASSUME NEW o \in Owners, NEW id \in Ids, CloseWindow(o, id) PROVE WMInv'
    BY <1>2, CloseWindowStep
<1>3. ASSUME NEW o \in Owners, Kill(o) PROVE WMInv'
    BY <1>3, KillStep
<1>4. ASSUME NEW o \in Owners, PopEvents(o) PROVE WMInv'
    BY <1>4, PopStep
<1>5. CASE FrameStep
    BY <1>5, FrameStepInv
<1>6. CASE KeyEvent
    <2>1. Onward /\ UNCHANGED <<windows, count, deleted, owned, dead, mouse, leftDown, drag>>
        BY <1>6 DEF KeyEvent, Onward, frameVars, WMInv, TypeInv
    <2> QED BY <2>1, Standing
<1>7. CASE AltTab
    BY <1>7, AltTabStep
<1>8. ASSUME NEW d \in Moves, MouseMove(d) PROVE WMInv'
    BY <1>8, MouseMoveStep
<1>9. CASE UNCHANGED vars
    <2>1. Onward /\ UNCHANGED <<windows, count, deleted, owned, dead, mouse, leftDown, drag>>
        BY <1>9 DEF vars, Onward, inputVars, frameVars, WMInv, TypeInv
    <2> QED BY <2>1, Standing
<1> QED BY <1>1, <1>2, <1>3, <1>4, <1>5, <1>6, <1>7, <1>8, <1>9 DEF Next

\* The inductive invariant of the window manager.
THEOREM InvTheorem == Spec => []WMInv
<1>1. Init => WMInv
    BY InitInv
<1>2. WMInv /\ [Next]_vars => WMInv'
    BY NextInv
<1> QED BY <1>1, <1>2, PTL DEF Spec

\* No frame draws a window whose buffer kill() has given back, whatever opens,
\* closes and dies between the frames (Process::kill, WindowManager::composite).
THEOREM BuffersTheorem == Spec => []BuffersLive
<1>1. WMInv => BuffersLive
    BY DEF WMInv, OwnerInv, BuffersLive
<1> QED BY <1>1, InvTheorem, PTL

\* Erasing at the beginning of a frame takes every closed window, and none is
\* closed before the frame ends (WindowManager::doEraseWindows, closeWindow).
THEOREM FrameTheorem == Spec => []FrameSeesOpenWindows
<1>1. WMInv => FrameSeesOpenWindows
    BY DEF WMInv, ClosedInv, FrameSeesOpenWindows
<1> QED BY <1>1, InvTheorem, PTL

\* A window that is dragged stays under the cursor, on every screen and for every
\* window as wide and as high as the margin (WindowManager::updateDragging).
THEOREM DragTheorem == Spec => []DragHoldsCursor
<1>1. WMInv => DragHoldsCursor
    <2> SUFFICES ASSUME WMInv, drag.on, Listed(drag.id), AsWideAsMargin(windows[IndexOf(drag.id)])
                 PROVE  Contains(windows[IndexOf(drag.id)], mouse)
        BY DEF DragHoldsCursor
    <2>1. PICK k \in DOMAIN windows : k = IndexOf(drag.id) /\ windows[k].id = drag.id
        BY DEF Listed, IndexOf
    <2> QED BY <2>1 DEF WMInv, DragInv
<1> QED BY <1>1, InvTheorem, PTL
=============================================================================
