------------------------------ MODULE BlockStore ------------------------------
(***************************************************************************)
(* What HeapManagerBase promises its callers (alloc and free in            *)
(* PalmyraOS/include/palmyraOS/shared/memory/Heap.h): a block is           *)
(* contiguous, belongs to its caller until it is freed, and overlaps no    *)
(* other block in the meantime.  Nothing is said about where it lies.      *)
(***************************************************************************)
EXTENDS Integers

CONSTANTS Slots, Null, Addresses, RequestSizes

VARIABLE held  \* the block of each slot; Null is the address of no block

Empty == [at |-> Null, size |-> 0]
Bytes(b) == b.at .. b.at + b.size - 1

Alloc(s) ==
    /\ held[s] = Empty
    /\ \E at \in Addresses \ {Null}, size \in RequestSizes :
          LET b == [at |-> at, size |-> size]
          IN  /\ Bytes(b) \subseteq Addresses
              /\ \A t \in Slots : Bytes(b) \cap Bytes(held[t]) = {}
              /\ held' = [held EXCEPT ![s] = b]

Free(s) ==
    /\ held[s] # Empty
    /\ held' = [held EXCEPT ![s] = Empty]

Init == held = [s \in Slots |-> Empty]

Next == \E s \in Slots : Alloc(s) \/ Free(s)

Spec == Init /\ [][Next]_held
=============================================================================
