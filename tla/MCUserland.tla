------------------------------ MODULE MCUserland ------------------------------
(* Small instances of what user programs are made of: Heap.tla, the heap   *)
(* behind malloc and behind the objects of the kernel, TextRing.tla, the   *)
(* text of a terminal, and Programs.tla, the programs themselves.  A       *)
(* behaviour is of one of them.                                            *)
EXTENDS Heap, TextRing

VARIABLES app, todo, holding, isOpen, kind

progVars == <<app, todo, holding, isOpen>>

User == INSTANCE Programs WITH held <- holding, MaxEntries <- 1, DnsServers <- 3

\* One longer than the buffer, and one that ends in its middle.
LongAndCut == {<<"a", "b", "b", "a", "b">>, <<"a", "z", "b">>}

Terminal == app = "terminal" /\ todo = User!Main["terminal"]

MCInit ==
    /\ Init /\ RingInit /\ User!ProgInit
    /\ kind \in {"heap", "ring", "programs"}
    /\ kind # "programs" => Terminal

MCNext ==
    /\ \/ kind = "heap" /\ Next /\ UNCHANGED ringVars /\ UNCHANGED progVars
       \/ kind = "ring" /\ RingNext /\ UNCHANGED vars /\ UNCHANGED progVars
       \/ kind = "programs" /\ User!ProgNext /\ UNCHANGED vars /\ UNCHANGED ringVars
       \/ \* Nothing follows the end of a program.
          app \in {"ended", "panic"} /\ UNCHANGED <<vars, ringVars, progVars>>
    /\ UNCHANGED kind

all == <<vars, ringVars, progVars, kind>>

\* Nothing in a call of the heap waits.
MCSpec ==
    /\ MCInit /\ [][MCNext]_all
    /\ \A c \in Contexts : WF_vars(Step(c))

\* Programs!NothingLeaked: whatever fails on the way, a program that comes to rest has
\* given back what it took, once (the early returns of the programs in userland).
NothingLeaked == User!NothingLeaked
=============================================================================
