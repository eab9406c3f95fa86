------------------------------- MODULE EditLine -------------------------------
(***************************************************************************)
(* What a terminal promises of the line that is typed and of the text that *)
(* is shown: the last Room characters, in the order in which they came.    *)
(***************************************************************************)
EXTENDS Naturals, Sequences

CONSTANTS Characters, Room

VARIABLE text

LineInit == text = <<>>

Add(c) ==
    text' = IF Len(text) < Room THEN Append(text, c) ELSE Tail(Append(text, c))
Erase == text # <<>> /\ text' = SubSeq(text, 1, Len(text) - 1)
Empty == text' = <<>>

LineNext == (\E c \in Characters : Add(c)) \/ Erase \/ Empty
LineSpec == LineInit /\ [][LineNext]_text
=============================================================================
