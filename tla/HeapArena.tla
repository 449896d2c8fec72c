------------------------------ MODULE HeapArena ------------------------------
(* The memory the IOP heap manages, in its 256-byte units.                   *)
EXTENDS Integers

CONSTANTS
    Base,    \* IOP_HEAP_BASE >> 8
    Size     \* IOP_HEAP_SIZE >> 8

ASSUME ArenaAssumption == Base \in Nat \ {0} /\ Size \in Nat \ {0}
=============================================================================
