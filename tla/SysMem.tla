------------------------------- MODULE SysMem -------------------------------
(***************************************************************************)
(* What the IOP heap promises to the callers of AllocSysMemory() and       *)
(* FreeSysMemory() (include/core/hw/iop_heap.h): a set of disjoint blocks   *)
(* in an arena of 256-byte units.  ALLOC_FIRST takes the lowest place that  *)
(* fits, ALLOC_LAST the highest, ALLOC_LATER the place the caller names;    *)
(* an allocation fails only where nothing fits.  IOPHeap implements it.     *)
(***************************************************************************)
EXTENDS HeapArena, FiniteSets

VARIABLES
    blocks,    \* the allocated blocks
    snapshot,  \* the blocks of the last checkpoint
    asked,     \* the size the last call asked for, 0 if it was not an allocation
    result     \* what it returned

vars == <<blocks, snapshot, asked, result>>

Arena == Base..(Base + Size - 1)
Sizes == 1..Size
Units(b) == b.addr..(b.addr + b.size - 1)
Block == {b \in [addr : Arena, size : Sizes] : Units(b) \subseteq Arena}
Taken == UNION {Units(b) : b \in blocks}
Fits(n) == {a \in Arena : Units([addr |-> a, size |-> n]) \subseteq Arena \ Taken}

Init == blocks = {} /\ snapshot = {} /\ asked = 0 /\ result = 0

\* An allocation of n units among the places A: any of them, or 0 without one.
Places(A, n) ==
    /\ \/ /\ A = {}
          /\ result' = 0 /\ blocks' = blocks
       \/ \E a \in A : /\ result' = a
                       /\ blocks' = blocks \cup {[addr |-> a, size |-> n]}
    /\ asked' = n
    /\ UNCHANGED snapshot

AllocFirst(n) == Places({a \in Fits(n) : \A b \in Fits(n) : a <= b}, n)
AllocLast(n) == Places({a \in Fits(n) : \A b \in Fits(n) : a >= b}, n)
AllocLater(n, mem) == Places(Fits(n) \cap {mem}, n)

\* 0 when mem is the address of a block, which is then free, and -1 otherwise.
Free(mem) ==
    /\ \/ \E b \in blocks : b.addr = mem /\ blocks' = blocks \ {b} /\ result' = 0
       \/ (\A b \in blocks : b.addr # mem) /\ blocks' = blocks /\ result' = -1
    /\ asked' = 0
    /\ UNCHANGED snapshot

Reset == blocks' = {} /\ UNCHANGED <<snapshot, asked, result>>
Save == snapshot' = blocks /\ UNCHANGED <<blocks, asked, result>>
Load == blocks' = snapshot /\ UNCHANGED <<snapshot, asked, result>>

\* What callers pass: every size and address that the arena tells apart.
Requests == 1..(Size + 1)
Addresses == (Base - 1)..(Base + Size)

Next ==
    \/ \E n \in Requests : AllocFirst(n) \/ AllocLast(n) \/ \E mem \in Addresses : AllocLater(n, mem)
    \/ \E mem \in Addresses : Free(mem)
    \/ Reset
    \/ Save
    \/ Load

Spec == Init /\ [][Next]_vars

-----------------------------------------------------------------------------
DisjointIn(B) == \A b, c \in B : b # c => Units(b) \cap Units(c) = {}

TypeOK ==
    /\ blocks \subseteq Block /\ snapshot \subseteq Block
    /\ asked \in 0..(Size + 1) /\ result \in Arena \cup {0, -1}

\* Two callers never own the same memory, after any sequence of allocations,
\* frees, resets and restored checkpoints.
NoOverlap == DisjointIn(blocks) /\ DisjointIn(snapshot)
=============================================================================
