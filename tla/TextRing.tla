------------------------------- MODULE TextRing -------------------------------
(***************************************************************************)
(* CircularBuffer (include/palmyraOS/circularBuffer.h): the line that is   *)
(* typed into a terminal and the text that it shows.                       *)
(*                                                                         *)
(* append of a string is a loop, and every turn of the loop is a step      *)
(* here: rest is what the loop has not looked at yet.                      *)
(***************************************************************************)
EXTENDS Naturals, Sequences

CONSTANTS
    Capacity,    \* BUFFER_SIZE
    Characters,  \* what is typed and shown
    Zero,        \* the character that ends a C string
    Strings      \* the strings that are appended as a whole

ASSUME RingAssumption ==
    /\ Capacity \in Nat \ {0}
    /\ Zero \notin Characters
    /\ Strings \subseteq Seq(Characters \cup {Zero})

VARIABLES
    backBuffer,
    start,
    end,
    rest

ringVars == <<backBuffer, start, end, rest>>

Places == 0 .. Capacity - 1
Successor(i) == (i + 1) % Capacity

RingSize == IF end >= start THEN end - start ELSE Capacity - start + end

\* get() walks from start to end.
Get == [i \in 1 .. RingSize |-> backBuffer[(start + i - 1) % Capacity]]

RingInit ==
    /\ backBuffer = [i \in Places |-> Zero]
    /\ start = 0 /\ end = 0 /\ rest = <<>>

\* A character is written at the end, and the oldest gives way.
Put_KeepsStart(c) ==
    /\ backBuffer' = [backBuffer EXCEPT ![end] = c]
    /\ end' = Successor(end)
    /\ start' = start
Put(c) ==
    /\ backBuffer' = [backBuffer EXCEPT ![end] = c]
    /\ end' = Successor(end)
    /\ start' = IF Successor(end) = start THEN Successor(start) ELSE start

AppendOne(c) == rest = <<>> /\ Put(c) /\ UNCHANGED rest

\* No more than BUFFER_SIZE characters of a string are copied, the last ones.
Last(s) == IF Len(s) > Capacity THEN SubSeq(s, Len(s) - Capacity + 1, Len(s)) ELSE s

AppendString(s) == rest = <<>> /\ rest' = Last(s) /\ UNCHANGED <<backBuffer, start, end>>
Copy ==
    /\ rest # <<>>
    /\ IF Head(rest) = Zero
       THEN rest' = <<>> /\ UNCHANGED <<backBuffer, start, end>>
       ELSE rest' = Tail(rest) /\ Put(Head(rest))

Backspace ==
    /\ rest = <<>>
    /\ start # end
    /\ end' = IF end = 0 THEN Capacity - 1 ELSE end - 1
    /\ backBuffer' = [backBuffer EXCEPT ![end'] = Zero]
    /\ UNCHANGED <<start, rest>>

Clear ==
    /\ rest = <<>>
    /\ start' = 0 /\ end' = 0
    /\ backBuffer' = [i \in Places |-> Zero]
    /\ UNCHANGED rest

RingNext ==
    \/ \E c \in Characters : AppendOne(c)
    \/ \E s \in Strings : AppendString(s)
    \/ Copy \/ Backspace \/ Clear

RingSpec == RingInit /\ [][RingNext]_ringVars

-----------------------------------------------------------------------------
Line == INSTANCE EditLine WITH text <- Get, Room <- Capacity - 1

\* Each call does to the line what it is for.
AsAsked ==
    /\ \A c \in Characters : AppendOne(c) => Line!Add(c)
    /\ Copy => IF Head(rest) = Zero THEN Get' = Get ELSE Line!Add(Head(rest))
    /\ Backspace => Line!Erase
    /\ Clear => Line!Empty

\* What get() returns is the last BUFFER_SIZE - 1 characters that were appended and
\* not erased, in their order, whatever was appended one by one or as a string.
LineKept == Line!LineSpec /\ [][AsAsked]_ringVars
=============================================================================
