-------------------------- MODULE EEJitCacheProofs --------------------------
(* Proofs about EEJitCache, for every number of slots and instructions.     *)
EXTENDS EEJitCache, TLAPS

CacheTypeOK == g_cache \in [CacheSlots -> Entries] /\ g_cache_count \in Nat

\* The way from the hash of instruction i to its p-th probe meets held entries
\* of other instructions only.
Passes(i, p) == \A q \in CacheSlots : q < p => Held(Probe(i, q)) /\ g_cache[Probe(i, q)].instr # i

\* Every held entry has the block of its own instruction and can be reached.
Chained ==
    \A s \in CacheSlots : Held(s) =>
        /\ g_cache[s].instr \in Instrs /\ g_cache[s].fn = g_cache[s].instr
        /\ \E p \in CacheSlots : Probe(g_cache[s].instr, p) = s /\ Passes(g_cache[s].instr, p)

CacheInv == CacheTypeOK /\ Chained

LEMMA ProbeType ==
    ASSUME NEW i \in Instrs, NEW p \in CacheSlots
    PROVE  Probe(i, p) \in CacheSlots
<1>1. /\ i \in Int /\ p \in Int
      /\ EE_JIT_CACHE_SLOTS \in Int /\ EE_JIT_CACHE_SLOTS > 0
  BY CacheAssumption DEF CacheSlots
<1>2. i * 6577 + p \in Int
  BY <1>1
<1> QED
  BY <1>1, <1>2 DEF Probe, Hash, CacheSlots

\* With the invariant a lookup finds every held entry, and only one is there.
LEMMA ChainedFound == CacheInv => CachedFound
<1> SUFFICES ASSUME CacheInv, NEW s \in CacheSlots, Held(s)
             PROVE  /\ Lookup(g_cache[s].instr) = g_cache[s].instr
                    /\ \A u \in CacheSlots : Held(u) /\ g_cache[u].instr = g_cache[s].instr => u = s
  BY DEF CachedFound
<1> DEFINE i == g_cache[s].instr
           P == {p \in CacheSlots : Stops(i, p)}
<1>1. i \in Instrs /\ g_cache[s].fn = i
  BY DEF CacheInv, Chained
<1>2. PICK p \in CacheSlots : Probe(i, p) = s /\ Passes(i, p)
  BY DEF CacheInv, Chained
<1>3. p \in P
  BY <1>2 DEF Stops
<1>4. \A q \in P : p <= q
  BY <1>2, CacheAssumption DEF Passes, Stops, Free, Held, CacheSlots
<1>5. First(P) = p
  <2>1. First(P) \in P /\ First(P) <= p
    BY <1>3, <1>4 DEF First
  <2>2. First(P) \in Int /\ p \in Int
    BY <2>1, CacheAssumption DEF CacheSlots
  <2> QED
    BY <2>1, <2>2, <1>4
<1>6. Lookup(i) = i
  BY <1>1, <1>2, <1>3, <1>5 DEF Lookup
<1>7. ASSUME NEW u \in CacheSlots, Held(u), g_cache[u].instr = i
      PROVE  u = s
  <2>1. PICK r \in CacheSlots : Probe(i, r) = u /\ Passes(i, r)
    BY <1>7 DEF CacheInv, Chained
  <2>2. ~(p < r) /\ ~(r < p)
    BY <1>2, <1>7, <2>1 DEF Passes
  <2>3. p = r
    BY <2>2, CacheAssumption DEF CacheSlots
  <2> QED
    BY <1>2, <2>1, <2>3
<1> QED
  BY <1>6, <1>7

\* A free entry may be taken: the chains of the others do not pass it.
LEMMA InsertChained ==
    ASSUME CacheInv, NEW i \in Instrs, Lookup(i) = NULL, Insert(i, i)
    PROVE  CacheInv'
<1>1. CASE UNCHANGED <<g_cache, g_cache_count>>
  BY <1>1 DEF CacheInv, CacheTypeOK, Chained, Passes, Held
<1>2. ASSUME NEW p0 \in CacheSlots, FirstFree(i, p0), Put(i, p0, i)
      PROVE  CacheInv'
  <2> DEFINE s0 == Probe(i, p0)
  <2>2. s0 \in CacheSlots /\ ~Held(s0)
    BY <1>2, ProbeType DEF FirstFree, Free, Held
  <2>3. i # NULL /\ NULL \notin Instrs
    BY CacheAssumption DEF NULL
  <2>4. \A s \in CacheSlots : Held(s) => g_cache[s].instr # i
    BY <2>3, ChainedFound DEF CachedFound
  <2>5. g_cache'[s0] = [instr |-> i, fn |-> i] /\ \A s \in CacheSlots : s # s0 => g_cache'[s] = g_cache[s]
    BY <1>2, <2>2 DEF CacheInv, CacheTypeOK, Put
  <2>6. CacheTypeOK'
    BY <1>2, <2>2 DEF CacheInv, CacheTypeOK, Entries, Put
  <2> HIDE DEF s0
  <2>7. ASSUME NEW s \in CacheSlots, Held(s)'
        PROVE  (/\ g_cache[s].instr \in Instrs /\ g_cache[s].fn = g_cache[s].instr
                /\ \E p \in CacheSlots : Probe(g_cache[s].instr, p) = s /\ Passes(g_cache[s].instr, p))'
    <3>1. CASE s = s0
      <4>1. g_cache'[s].instr = i /\ g_cache'[s].fn = i
        BY <2>5, <3>1
      <4>2. ASSUME NEW q \in CacheSlots, q < p0
            PROVE  Held(Probe(i, q))' /\ g_cache'[Probe(i, q)].instr # i
        <5>1. Held(Probe(i, q)) /\ Probe(i, q) \in CacheSlots
          <6>1. ~Free(i, q)
            BY <1>2, <4>2, CacheAssumption DEF FirstFree, CacheSlots
          <6> QED
            BY <6>1, ProbeType DEF Free, Held
        <5> QED
          BY <5>1, <2>2, <2>4, <2>5 DEF Held
      <4>3. Probe(i, p0) = s
        BY <3>1 DEF s0
      <4> QED
        BY <4>1, <4>2, <4>3, <2>2 DEF Passes, Held
    <3>2. CASE s # s0
      <4> DEFINE j == g_cache[s].instr
      <4>1. g_cache'[s] = g_cache[s] /\ Held(s)
        BY <2>5, <2>7, <3>2 DEF Held
      <4>2. j \in Instrs /\ g_cache[s].fn = j
        BY <4>1 DEF CacheInv, Chained
      <4>3. PICK p \in CacheSlots : Probe(j, p) = s /\ Passes(j, p)
        BY <4>1 DEF CacheInv, Chained
      <4>4. ASSUME NEW q \in CacheSlots, q < p
            PROVE  g_cache'[Probe(j, q)].fn # NULL /\ g_cache'[Probe(j, q)].instr # j
        <5>1. Held(Probe(j, q)) /\ g_cache[Probe(j, q)].instr # j
          BY <4>3, <4>4 DEF Passes
        <5>2. Probe(j, q) \in CacheSlots /\ Probe(j, q) # s0
          BY <4>2, <5>1, <2>2, ProbeType
        <5> QED
          BY <5>1, <5>2, <2>5 DEF Held
      <4> QED
        BY <4>1, <4>2, <4>3, <4>4 DEF Passes, Held
    <3> QED
      BY <3>1, <3>2
  <2> QED
    BY <2>6, <2>7 DEF CacheInv, Chained, Held
<1> QED
  BY <1>1, <1>2 DEF Insert

\* ee_jit_cache_lookup() and ee_jit_cache_insert() agree: whatever instructions are
\* compiled, in whatever order and however their hashes collide, every entry is found
\* by its own instruction, has that instruction's block, and is the only one of it.
THEOREM CacheNeverLosesABlock == CacheSpec => []CachedFound
<1>1. CacheInit => CacheInv
  BY CacheAssumption DEF CacheInit, CacheInv, CacheTypeOK, Chained, Held, FreeEntry, Entries, NULL
<1>2. CacheInv /\ [CacheNext]_cacheVars => CacheInv'
  <2> SUFFICES ASSUME CacheInv, [CacheNext]_cacheVars
               PROVE  CacheInv'
    OBVIOUS
  <2>1. CASE Reset
    BY <2>1 DEF Reset, CacheInv, CacheTypeOK, Chained, Held, FreeEntry, Entries, NULL
  <2>2. ASSUME NEW i \in Instrs, Compile(i)
        PROVE  CacheInv'
    BY <2>2, InsertChained DEF Compile
  <2>3. CASE UNCHANGED cacheVars
    BY <2>3 DEF cacheVars, CacheInv, CacheTypeOK, Chained, Passes, Held
  <2> QED
    BY <2>1, <2>2, <2>3 DEF CacheNext
<1> QED
  BY <1>1, <1>2, ChainedFound, PTL DEF CacheSpec
=============================================================================
