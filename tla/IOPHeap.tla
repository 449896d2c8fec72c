------------------------------ MODULE IOPHeap ------------------------------
(***************************************************************************)
(* The IOP heap of source/hw/iop_heap.c: SYSMEM's table of packed           *)
(* (size, address, allocated) words.  list is the chain of all slots of all *)
(* tables: the blocks in address order, then unused slots of size 0.        *)
(* Addresses and sizes are in the 256-byte units the words hold; the arena  *)
(* is far from the 15-bit limits of the fields.                             *)
(***************************************************************************)
EXTENDS HeapArena, FiniteSets, SequencesExt

CONSTANTS
    SmMax,    \* SM_MAX, the slots of a table
    SmCheck   \* SM_CHECK + 1: the slot that says the last table is getting full

\* The code has 31 slots and checks the 28th: LATER may take two more slots
\* before the next table is there, and do_free() shifts two empty slots in.
ASSUME HeapAssumption ==
    SmMax \in Nat \ {0} /\ SmCheck \in 1..(SmMax - 3)

VARIABLES
    list,     \* the slots of the chain g_alloclist
    saved,    \* the words of the last iop_heap_snapshot_save()
    asked,    \* the size the last call asked for, 0 if it was not an allocation
    result    \* what it returned

vars == <<list, saved, asked, result>>

Block(a, n, used) == [addr |-> a, size |-> n, used |-> used]
Unused == Block(0, 0, FALSE)
NewTable == [i \in 1..SmMax |-> Unused]
End(b) == b.addr + b.size

\* iop_heap_init().
Fresh == [NewTable EXCEPT ![1] = Block(Base, Size, FALSE)]

Init == list = Fresh /\ saved = Fresh /\ asked = 0 /\ result = 0

-----------------------------------------------------------------------------
Slots(P(_)) == {i \in DOMAIN list : P(list[i])}
Lowest(S) == CHOOSE i \in S : \A j \in S : i <= j
Highest(S) == CHOOSE i \in S : \A j \in S : i >= j
Roomy(n) == Slots(LAMBDA b : ~b.used /\ b.size >= n)

\* "Shuffle forward": b goes into slot k and every word one slot on, up to the
\* first unused slot.  Without one the last word is lost.
Shuffle(L, k, b) ==
    LET free == {j \in k..Len(L) : L[j].size = 0}
        stop == IF free = {} THEN Len(L) ELSE Lowest(free)
    IN  RemoveAt(InsertAt(L, k, b), stop + 1)

\* Mutant: the whole block is handed out.
TakeFrontBlind(L, k, n) == [L EXCEPT ![k].used = TRUE]

\* n units from the start of the free block in slot k.
TakeFront(L, k, n) ==
    LET b == L[k]
    IN  IF b.size = n THEN [L EXCEPT ![k].used = TRUE]
        ELSE Shuffle([L EXCEPT ![k] = Block(b.addr, n, TRUE)], k + 1, Block(b.addr + n, b.size - n, FALSE))

\* n units from the end of the free block in slot k.
TakeBack(L, k, n) ==
    LET b == L[k]
    IN  IF b.size = n THEN [L EXCEPT ![k].used = TRUE]
        ELSE Shuffle([L EXCEPT ![k].size = @ - n], k + 1, Block(End(b) - n, n, TRUE))

\* The free block in slot k is cut at address mem.
CutAt(L, k, mem) ==
    Shuffle([L EXCEPT ![k].size = mem - L[k].addr], k + 1, Block(mem, End(L[k]) - mem, FALSE))

\* Mutant: a table is added once the last one is full.
MaintainLate(L) == IF L[Len(L)].size > 0 THEN L \o NewTable ELSE L

\* do_maintain(): a table is added when slot SM_CHECK of the last one is in use;
\* the last one goes when that slot of the one before it is not.
Maintain(L) ==
    LET M == IF L[Len(L) - SmMax + SmCheck].size > 0 THEN L \o NewTable ELSE L
    IN  IF Len(M) > SmMax /\ M[Len(M) - 2 * SmMax + SmCheck].size = 0 THEN SubSeq(M, 1, Len(M) - SmMax) ELSE M

\* iop_heap_alloc(): do_alloc() and do_maintain(), which also follows a failure.
Allocated(L, n, address) ==
    list' = Maintain(L) /\ asked' = n /\ result' = address /\ UNCHANGED saved

AllocFirst(n) ==
    IF Roomy(n) = {} THEN Allocated(list, n, 0)
    ELSE LET k == Lowest(Roomy(n)) IN Allocated(TakeFront(list, k, n), n, list[k].addr)

AllocLast(n) ==
    IF Roomy(n) = {} THEN Allocated(list, n, 0)
    ELSE LET k == Highest(Roomy(n)) IN Allocated(TakeBack(list, k, n), n, End(list[k]) - n)

\* LATER's free block is in slot k, and starts at or before mem.  It is cut there
\* first, which fails when the chain has no slot left.
TakeAt(k, n, mem) ==
    IF list[k].addr = mem THEN Allocated(TakeFront(list, k, n), n, mem)
    ELSE IF k = Len(list) THEN Allocated(CutAt(list, k, mem), n, 0)
    ELSE Allocated(TakeFront(CutAt(list, k, mem), k + 1, n), n, mem)

\* The first free block that ends far enough behind mem, unless a block that
\* starts behind mem comes before it.
AllocLater(n, mem) ==
    LET fits == Slots(LAMBDA b : ~b.used /\ End(b) >= mem + n)
        past == Slots(LAMBDA b : mem < b.addr)
    IN  IF fits = {} \/ (past # {} /\ Lowest(past) <= Lowest(fits)) THEN Allocated(list, n, 0)
        ELSE TakeAt(Lowest(fits), n, mem)

\* The words from slot k on move c slots back; the last c words stay.
ShiftBack(L, k, c) ==
    SubSeq(L, 1, k - 1) \o SubSeq(L, k + c, Len(L)) \o SubSeq(L, Len(L) - c + 1, Len(L))

\* Mutant: a freed block is not merged with the free block before it.
ReleaseForward(L, k) ==
    IF k < Len(L) /\ ~L[k + 1].used
    THEN ShiftBack([L EXCEPT ![k] = Block(@.addr, @.size + L[k + 1].size, FALSE)], k + 1, 1)
    ELSE [L EXCEPT ![k].used = FALSE]

\* Frees the block in slot k and merges it with its neighbours.  An unused slot
\* behind it counts as a free neighbour.
Release(L, k) ==
    LET after == IF k < Len(L) /\ ~L[k + 1].used THEN 1 ELSE 0
        before == IF k > 1 /\ ~L[k - 1].used THEN 1 ELSE 0
        size == L[k].size + IF after = 1 THEN L[k + 1].size ELSE 0
        A == [L EXCEPT ![k] = Block(@.addr, size, FALSE)]
        B == IF before = 1 THEN [A EXCEPT ![k - 1].size = @ + size] ELSE A
    IN  ShiftBack(B, k + 1 - before, after + before)

\* iop_heap_free().
Free(mem) ==
    LET found == Slots(LAMBDA b : b.size > 0 /\ b.addr = mem)
    IN  /\ IF found # {} /\ list[Lowest(found)].used
           THEN list' = Maintain(Release(list, Lowest(found))) /\ result' = 0
           ELSE list' = list /\ result' = -1
        /\ asked' = 0 /\ UNCHANGED saved

\* iop_heap_init() again, on an IOP reset.
Reset == list' = Fresh /\ UNCHANGED <<saved, asked, result>>

\* iop_heap_snapshot_save() and iop_heap_snapshot_load(): the words of all tables,
\* and a chain of as many tables with these words.
Save == saved' = list /\ UNCHANGED <<list, asked, result>>
LoadShifted == list' = Append(Tail(saved), Unused) /\ UNCHANGED <<saved, asked, result>>  \* mutant: the words are off by one
Load == list' = saved /\ UNCHANGED <<saved, asked, result>>

\* Sizes up to more than the arena, addresses in it and next to it; a size of 0
\* and an address that is not a multiple of 256 are refused.
Next ==
    \/ \E n \in 1..(Size + 1) :
         \/ AllocFirst(n)
         \/ AllocLast(n)
         \/ \E mem \in (Base - 1)..(Base + Size) : AllocLater(n, mem)
    \/ \E mem \in (Base - 1)..(Base + Size) : Free(mem)
    \/ Reset
    \/ Save
    \/ Load

Spec == Init /\ [][Next]_vars

-----------------------------------------------------------------------------
(* The queries, and properties.                                            *)

FreeSizes == {list[i].size : i \in Slots(LAMBDA b : ~b.used)}
QueryMaxFree == CHOOSE n \in FreeSizes : \A m \in FreeSizes : m <= n
QueryTotalFree == FoldLeft(LAMBDA n, b : IF b.used THEN n ELSE n + b.size, 0, list)

\* SYSMEM's promise: disjoint blocks, placed lowest, highest or as asked, and an
\* allocation that fails only where nothing fits.
Owned == {[addr |-> list[i].addr, size |-> list[i].size] : i \in Slots(LAMBDA b : b.used)}
Kept == {[addr |-> saved[i].addr, size |-> saved[i].size] : i \in {j \in DOMAIN saved : saved[j].used}}
Promise == INSTANCE SysMem WITH blocks <- Owned, snapshot <- Kept
ImplementsSysMem == Promise!Spec

TypeOK ==
    LET blocks == [addr : {0} \cup Base..(Base + Size), size : 0..Size, used : BOOLEAN]
    IN  /\ \A L \in {list, saved} : Range(L) \subseteq blocks /\ Len(L) % SmMax = 0
        /\ asked \in 0..(Size + 1) /\ result \in (Base..(Base + Size)) \cup {0, -1}

InUse == Slots(LAMBDA b : b.size > 0)

\* No memory is ever lost or counted twice: the blocks in the chain follow each
\* other without a gap from one end of the arena to the other, and the unused
\* slots come after them.
Tiled ==
    /\ InUse = 1..Cardinality(InUse)
    /\ list[1].addr = Base
    /\ \A i \in InUse : IF i + 1 \in InUse THEN End(list[i]) = list[i + 1].addr ELSE End(list[i]) = Base + Size

\* The sizes the queries report are those of the arena: all memory that nobody
\* owns, and the longest run of it, because free blocks are always merged.
QueriesExact ==
    LET free == (Base..(Base + Size - 1)) \ UNION {list[i].addr..(End(list[i]) - 1) : i \in Slots(LAMBDA b : b.used)}
        runs == {n \in 0..Size : \E a \in Base..(Base + Size) : a..(a + n - 1) \subseteq free}
    IN  /\ QueryTotalFree = Cardinality(free)
        /\ QueryMaxFree = CHOOSE n \in runs : \A m \in runs : m <= n
=============================================================================
