------------------------------- MODULE FileStore -------------------------------
(***************************************************************************)
(* What FAT32Partition (PalmyraOS/include/core/files/partitions/Fat32.h)   *)
(* promises its callers: a tree of files and directories in which a call   *)
(* changes the one file it is about, all at once when it succeeds.  Of a   *)
(* file whose last write failed or was cut off by a crash nothing is       *)
(* promised but that it exists: its bytes are Torn until it is truncated.  *)
(***************************************************************************)
EXTENDS Integers, Sequences

CONSTANTS Names, Offsets, Sizes, Values, Torn

VARIABLE files  \* path |-> [kind, bytes]

Paths == DOMAIN files
Parent(p) == SubSeq(p, 1, Len(p) - 1)
IsDirectory(p) == p = <<>> \/ (p \in Paths /\ files[p].kind = "dir")
Empty == <<>>

\* The bytes after n times v at offset off; a gap before off reads as zeros.
Overlaid(b, off, n, v) ==
    [i \in 1 .. (IF off + n > Len(b) THEN off + n ELSE Len(b)) |->
        CASE i \in off + 1 .. off + n -> v
          [] i \notin off + 1 .. off + n /\ i <= Len(b) -> b[i]
          [] OTHER -> 0]

Create(p, kind) ==
    /\ p \notin Paths /\ IsDirectory(Parent(p))
    /\ files' = [q \in Paths \cup {p} |->
                    IF q = p THEN [kind |-> kind, bytes |-> Empty] ELSE files[q]]

Remove(p) ==
    /\ p \in Paths
    /\ \A q \in Paths : q # p => Parent(q) # p
    /\ files' = [q \in Paths \ {p} |-> files[q]]

Write(p, off, n, v) ==
    /\ p \in Paths /\ files[p].kind = "file" /\ files[p].bytes # Torn
    /\ files' = [files EXCEPT ![p].bytes = Overlaid(@, off, n, v)]

Truncate(p) ==
    /\ p \in Paths /\ files[p].kind = "file"
    /\ files' = [files EXCEPT ![p].bytes = Empty]

Tear(p) ==
    /\ p \in Paths /\ files[p].kind = "file"
    /\ files' = [files EXCEPT ![p].bytes = Torn]

Init == files = <<>>

Next ==
    \/ \E dir \in {<<>>} \cup Paths, n \in Names, kind \in {"file", "dir"} :
          Create(Append(dir, n), kind)
    \/ \E p \in Paths :
          \/ Remove(p)
          \/ \E off \in Offsets, n \in Sizes, v \in Values : Write(p, off, n, v)
          \/ Truncate(p)
          \/ Tear(p)

Spec == Init /\ [][Next]_files
=============================================================================
