----------------------------- MODULE MCDescriptors -----------------------------
(* Small instances of what a descriptor can stand for: Files.tla and       *)
(* Sockets.tla share nothing but the tables of descriptors, so a behaviour *)
(* is of one or of the other.                                              *)
EXTENDS Files, Sockets

CONSTANT MaxAllOpens

VARIABLE kind

MCInit == Init /\ SocketsInit /\ kind \in {"files", "udp", "raw"}

\* The two kinds of sockets have registries of their own, so one kind is open at a time.
Unused(descriptors) == \A s \in descriptors : sock'[s].state = "closed"

MCNext ==
    /\ \/ kind = "files" /\ Next /\ UNCHANGED socketVars
       \/ kind = "udp" /\ SocketsNext /\ Unused(Raw) /\ UNCHANGED vars
       \/ kind = "raw" /\ SocketsNext /\ Unused(Udp) /\ UNCHANGED vars
    /\ UNCHANGED kind

MCSpec == MCInit /\ [][MCNext]_<<vars, socketVars, kind>>

\* The invariants of Files say nothing of the states behind the first two;
\* MaxAllOpens bounds the descriptors that all processes ever open.
Undisturbed == ~orphaned /\ ~crossed /\ Cardinality({x \in Processes \X (1 .. MaxOpens) : x[2] <= Len(opened[x[1]])}) <= MaxAllOpens

\* Processes are interchangeable.  Each has a UDP socket of its own,
\* named like it, and one more UDP socket can be anybody's.
Symmetry == Permutations(Processes)
=============================================================================
