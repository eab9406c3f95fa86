-------------------------------- MODULE FatNames --------------------------------
(***************************************************************************)
(* The names of directory entries in FAT32Partition                        *)
(* (PalmyraOS/source/core/files/partitions/Fat32.cpp): the short name made *)
(* for a long one, the slots the long name is cut into, and the name that  *)
(* is put together again when the directory is listed.  A name is a        *)
(* sequence of characters; where the slots lie is left to Fat32.           *)
(***************************************************************************)
EXTENDS Integers, Sequences, SequencesExt, FiniteSetsExt

CONSTANTS
    Names,    \* that are asked for
    BaseLen,  \* 8; at least 3
    ExtLen,   \* 3
    Chunk,    \* 13: characters of a long name in a slot
    MaxTail,  \* 999999; here at most 9
    MaxEntries      \* bound of the model: entries in the directory

VARIABLES
    slots,  \* of the directory
    made    \* history: [name, kind] of the entries that were created and not removed

vars == <<slots, made>>

Code == [A |-> 65, B |-> 66, a |-> 97, b |-> 98] @@ ("." :> 46 @@ "+" :> 43 @@ "_" :> 95 @@ "~" :> 126 @@ " " :> 32)
        @@ [i \in {"1", "2", "3", "4", "5", "6", "7", "8", "9"} |-> 48]
Capital == [a |-> "A", b |-> "B"]
IsLower(c) == c \in DOMAIN Capital
Uppered(s) == [i \in DOMAIN s |-> IF IsLower(s[i]) THEN Capital[s[i]] ELSE s[i]]
IsValidSFNCharacter(c) == c \notin {".", "+", " "}

Dots(s) == {i \in DOMAIN s : s[i] = "."}
Cut(s, n) == SubSeq(s, 1, IF Len(s) < n THEN Len(s) ELSE n)
SplitAt(s, dot) ==
    IF dot = 0 THEN [base |-> s, ext |-> <<>>]
    ELSE [base |-> SubSeq(s, 1, dot - 1), ext |-> SubSeq(s, dot + 1, Len(s))]
LastSplit(s) == SplitAt(s, IF Dots(s) = {} THEN 0 ELSE Max(Dots(s)))
FirstSplit(s) == SplitAt(s, IF Dots(s) = {} THEN 0 ELSE Min(Dots(s)))
Dotted(x) == IF x.ext = <<>> THEN x.base ELSE x.base \o <<".">> \o x.ext

-----------------------------------------------------------------------------
(* The short name.                                                         *)

\* Upper case, underscores for what may not be there, no period in front.
Cleaned(name) ==
    LET s == [i \in DOMAIN name |->
                 IF name[i] = "." \/ IsValidSFNCharacter(name[i]) THEN Uppered(name)[i] ELSE "_"]
        first == {i \in DOMAIN s : s[i] # "."}
    IN  IF first = {} THEN <<>> ELSE SubSeq(s, Min(first), Len(s))

Digit == <<"1", "2", "3", "4", "5", "6", "7", "8", "9">>
\* What is tried, in this order: the plain name, unless it is too long, and
\* then the tails ~1, ~2 ...
Tries(name) ==
    LET x == LastSplit(Cleaned(name))
        With(base) == Dotted([base |-> base, ext |-> Cut(x.ext, ExtLen)])
    IN  (IF Len(x.base) > BaseLen THEN <<>> ELSE <<With(x.base)>>) \o
        [n \in 1 .. MaxTail |-> With(Cut(x.base, BaseLen - 2) \o <<"~", Digit[n]>>)]

GenerateUniqueShortName_AnyTail(name, existing) ==
    LET free == {i \in DOMAIN Tries(name) : i > 1 \/ Tries(name)[i] \notin existing}
    IN  IF free = {} THEN <<>> ELSE Tries(name)[Min(free)]
GenerateUniqueShortName(name, existing) ==
    LET free == {i \in DOMAIN Tries(name) : Tries(name)[i] \notin existing}
    IN  IF free = {} THEN <<>> ELSE Tries(name)[Min(free)]

\* What createFile stores of it: cut at the first period.
Stored(sfn) ==
    LET x == FirstSplit(sfn) IN [base |-> Cut(x.base, BaseLen), ext |-> Cut(x.ext, ExtLen)]

Padded(s, n) == [i \in 1 .. n |-> IF i <= Len(s) THEN s[i] ELSE " "]
CalculateShortNameChecksum(x) ==
    FoldLeft(LAMBDA sum, c : ((sum % 2) * 128 + sum \div 2 + Code[c]) % 256, 0,
             Padded(x.base, BaseLen) \o Padded(x.ext, ExtLen))

-----------------------------------------------------------------------------
(* The long name.                                                          *)

NeedsLFN(name) ==
    LET x == LastSplit(name) IN
    \/ Len(x.base) > BaseLen \/ Len(x.ext) > ExtLen
    \/ \E c \in ToSet(x.base) \cup ToSet(x.ext) : IsLower(c) \/ ~IsValidSFNCharacter(c)

\* The last part of the name comes first; a part that is not full ends with
\* one terminator and padding.
CreateLFNEntries_NoTerminator(name, checksum) ==
    LET total == (Len(name) + Chunk - 1) \div Chunk
        unit(k) == IF k <= Len(name) THEN name[k] ELSE "pad"
    IN  [i \in 1 .. total |->
            [kind |-> "lfn", order |-> i, last |-> i = 1, checksum |-> checksum,
             units |-> [j \in 1 .. Chunk |-> unit((total - i) * Chunk + j)]]]
CreateLFNEntries(name, checksum) ==
    LET total == (Len(name) + Chunk - 1) \div Chunk
        unit(k) == IF k <= Len(name) THEN name[k] ELSE IF k = Len(name) + 1 THEN "end" ELSE "pad"
    IN  [i \in 1 .. total |->
            [kind |-> "lfn", order |-> total - i + 1, last |-> i = 1, checksum |-> checksum,
             units |-> [j \in 1 .. Chunk |-> unit((total - i) * Chunk + j)]]]

-----------------------------------------------------------------------------
(* Listing.                                                                *)

Parts(s, i) ==
    LET from == {j \in 0 .. i - 1 : \A k \in j + 1 .. i - 1 : s[k].kind = "lfn"}
    IN  SubSeq(s, Min(from) + 1, i - 1)

\* The parts in the order of their numbers, without terminator and padding.
Joined(parts) ==
    LET sorted == SortSeq(parts, LAMBDA x, y : x.order < y.order)
    IN  FoldLeft(LAMBDA s, x : s \o SelectSeq(x.units, LAMBDA u : u \notin {"end", "pad"}),
                 <<>>, sorted)

\* Without a long name that matches: an extension of three spaces is not
\* empty, and the name of a directory is not split.
ShortListed(s) ==
    IF s.kind = "file" THEN s.name.base \o <<".">> \o s.name.ext
    ELSE IF s.name.ext = <<>> THEN s.name.base
    ELSE Padded(s.name.base, BaseLen) \o s.name.ext

NameLong(s, i) ==
    LET parts == Parts(s, i) IN
    IF parts # <<>> /\ Last(parts).checksum = CalculateShortNameChecksum(s[i].name)
    THEN Joined(parts) ELSE ShortListed(s[i])

Mains(s) == {i \in DOMAIN s : s[i].kind # "lfn"}
Listed(s) == {[name |-> NameLong(s, i), kind |-> s[i].kind] : i \in Mains(s)}

-----------------------------------------------------------------------------
(* createFile and the deletions.                                           *)

Create(name, kind) ==
    LET sfn == GenerateUniqueShortName(name, {Dotted(slots[i].name) : i \in Mains(slots)})
        main == [kind |-> kind, name |-> Stored(sfn)]
        long == IF NeedsLFN(name) THEN CreateLFNEntries(name, CalculateShortNameChecksum(main.name)) ELSE <<>>
    IN  /\ Cardinality(Mains(slots)) < MaxEntries
        /\ \A x \in Listed(slots) : x.name # name
        /\ sfn # <<>>
        /\ slots' = slots \o long \o <<main>>
        /\ made' = made \cup {[name |-> name, kind |-> kind]}

\* The slots in front are taken along up to the one marked as the last.
DeleteName(name) ==
    \E i \in Mains(slots) :
        LET n == Len(Parts(slots, i))
            marked == {j \in i - n .. i - 1 : slots[j].last}
            from == IF marked = {} THEN i - n ELSE Max(marked)
        IN  /\ NameLong(slots, i) = name
            /\ slots' = SubSeq(slots, 1, from - 1) \o SubSeq(slots, i + 1, Len(slots))
            /\ made' = {x \in made : x.name # name}

Init == slots = <<>> /\ made = {}
Next ==
    \/ \E name \in Names, kind \in {"file", "dir"} : Create(name, kind)
    \/ \E x \in Listed(slots) : DeleteName(x.name)
Spec == Init /\ [][Next]_vars

-----------------------------------------------------------------------------
(* Properties.                                                             *)

\* A name that needed a long name is listed as it was given, whatever was
\* created and removed around it, and nothing that was removed is listed.
LongNamesKept ==
    {x \in made : NeedsLFN(x.name)} = {x \in Listed(slots) : NeedsLFN(x.name) /\ x.name \in Names}

\* "Generate unique short name (SFN)" (Fat32.cpp:1476): as long as a name
\* has one period at most, no two entries have the same short name.
ShortNamesUnique ==
    \A i, j \in Mains(slots) : i # j => slots[i].name # slots[j].name
=============================================================================
