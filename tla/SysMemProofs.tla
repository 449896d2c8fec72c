---------------------------- MODULE SysMemProofs ----------------------------
(***************************************************************************)
(* The heap's promise keeps blocks apart, for an arena of any size.        *)
(* TypeOK /\ NoOverlap is inductive as it stands: an allocation only adds   *)
(* a block whose units nobody owned, and a restored checkpoint was itself   *)
(* a set of disjoint blocks when it was made.                               *)
(***************************************************************************)
EXTENDS SysMem, TLAPS

Inv == TypeOK /\ NoOverlap

LEMMA InitInv == Init => Inv
  BY ArenaAssumption DEF Init, Inv, TypeOK, NoOverlap, DisjointIn, Block, Units

\* Whatever place an allocation picks among places that fit, the new block is in
\* the arena and apart from all others.
LEMMA PlacesInv ==
  ASSUME NEW n \in Requests, NEW A \in SUBSET Fits(n), Inv, Places(A, n)
  PROVE  Inv'
<1>1. CASE A = {} /\ result' = 0 /\ blocks' = blocks
  BY <1>1 DEF Inv, TypeOK, NoOverlap, DisjointIn, Places, Requests
<1>2. ASSUME NEW a \in A, result' = a, blocks' = blocks \cup {[addr |-> a, size |-> n]}
      PROVE  Inv'
  <2> DEFINE new == [addr |-> a, size |-> n]
  <2>1. /\ a \in Arena
        /\ Units(new) \subseteq Arena \ Taken
    BY DEF Fits
  <2>2. n \in Sizes
    <3>1. a + n - 1 \in Arena
      <4>1. a \in Int /\ n \in Int /\ n >= 1
        BY <2>1, ArenaAssumption DEF Arena, Requests
      <4>2. a + n - 1 \in Units(new)
        BY <4>1 DEF Units
      <4> QED BY <4>2, <2>1
    <3>2. a \in Int /\ n \in Int /\ n >= 1 /\ a >= Base /\ a + n - 1 <= Base + Size - 1
      BY <3>1, <2>1, ArenaAssumption DEF Arena, Requests
    <3> QED BY <3>2, ArenaAssumption DEF Sizes
  <2>3. new \in Block
    BY <2>1, <2>2 DEF Block
  <2>4. snapshot' = snapshot /\ asked' \in 0..(Size + 1)
    BY ArenaAssumption DEF Places, Requests
  <2>5. TypeOK'
    BY <1>2, <2>1, <2>3, <2>4 DEF Inv, TypeOK
  <2>6. \A b \in blocks : Units(b) \cap Units(new) = {}
    BY <2>1 DEF Taken
  <2>7. DisjointIn(blocks')
    BY <1>2, <2>6 DEF Inv, NoOverlap, DisjointIn
  <2> QED
    BY <2>4, <2>5, <2>7 DEF Inv, NoOverlap, DisjointIn
<1> QED
  BY <1>1, <1>2 DEF Places

LEMMA NextInv == Inv /\ [Next]_vars => Inv'
<1> SUFFICES ASSUME Inv, [Next]_vars PROVE Inv'
  OBVIOUS
<1>1. ASSUME NEW n \in Requests, AllocFirst(n) PROVE Inv'
  BY <1>1, PlacesInv DEF AllocFirst
<1>2. ASSUME NEW n \in Requests, AllocLast(n) PROVE Inv'
  BY <1>2, PlacesInv DEF AllocLast
<1>3. ASSUME NEW n \in Requests, NEW mem \in Addresses, AllocLater(n, mem) PROVE Inv'
  BY <1>3, PlacesInv DEF AllocLater
<1>4. ASSUME NEW mem \in Addresses, Free(mem) PROVE Inv'
  BY <1>4, ArenaAssumption DEF Free, Inv, TypeOK, NoOverlap, DisjointIn
<1>5. CASE Reset
  BY <1>5 DEF Reset, Inv, TypeOK, NoOverlap, DisjointIn
<1>6. CASE Save
  BY <1>6 DEF Save, Inv, TypeOK, NoOverlap
<1>7. CASE Load
  BY <1>7 DEF Load, Inv, TypeOK, NoOverlap
<1>8. CASE UNCHANGED vars
  BY <1>8 DEF vars, Inv, TypeOK, NoOverlap, DisjointIn
<1> QED
  BY <1>1, <1>2, <1>3, <1>4, <1>5, <1>6, <1>7, <1>8 DEF Next

\* No two callers of AllocSysMemory() ever own the same 256 bytes, in an arena of
\* any size and after any sequence of calls.
THEOREM HeapNoOverlap == Spec => []NoOverlap
<1>1. Inv => NoOverlap
  BY DEF Inv
<1> QED
  BY InitInv, NextInv, <1>1, PTL DEF Spec
=============================================================================
