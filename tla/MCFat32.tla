-------------------------------- MODULE MCFat32 --------------------------------
(* Small instances of Fat32.tla and, in the same run, of FatNames.tla: the  *)
(* two have no state in common, so a behaviour is one of either.            *)
EXTENDS Fat32

CONSTANTS LongestBase, LongestExt, UnitsPerSlot, LastTail, NameRoom

VARIABLES slots, made, naming

\* A name that needs long-name slots, and short ones.
OneLong == [n \in Names |-> IF n = "long" THEN 3 ELSE 1]

\* Names that fit, that are too long, that share their first letters once they
\* are cut or cleaned, with one period at most.
OnePeriod ==
    {<<"a">>, <<"A", "+">>, <<"a", "a", "a">>, <<"A", "A", "A", "A">>, <<"A", "A", "A", "a">>,
     <<"A", ".", "a">>, <<"A", ".", "a", "a">>, <<"A", "A", ".", "A">>}

FN == INSTANCE FatNames WITH Names <- OnePeriod, BaseLen <- LongestBase, ExtLen <- LongestExt,
        Chunk <- UnitsPerSlot, MaxTail <- LastTail, MaxEntries <- NameRoom

MCInit == Init /\ FN!Init /\ naming \in BOOLEAN
MCNext ==
    /\ naming' = naming
    /\ \/ naming /\ FN!Next /\ UNCHANGED vars
       \/ ~naming /\ Next /\ UNCHANGED <<slots, made>>
MCSpec == MCInit /\ [][MCNext]_<<vars, slots, made, naming>>

\* The properties of FatNames.tla, stated there.
LongNamesKept == FN!LongNamesKept
ShortNamesUnique == FN!ShortNamesUnique
=============================================================================
