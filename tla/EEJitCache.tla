----------------------------- MODULE EEJitCache -----------------------------
(* The block cache of ee_jit.c: open addressing with linear probing, keyed  *)
(* by the instruction word.  An instruction is the natural number of its    *)
(* word, and a block the instruction it was compiled for.                   *)
EXTENDS Integers

CONSTANTS
    Instrs,              \* the instructions, positive numbers
    EE_JIT_CACHE_SLOTS

ASSUME CacheAssumption ==
    /\ Instrs \subseteq Nat \ {0}
    /\ EE_JIT_CACHE_SLOTS \in Nat \ {0}

VARIABLES
    g_cache,        \* the entries; fn is 0 in a free one
    g_cache_count,
    blocks          \* code buffers allocated and not freed

cacheVars == <<g_cache, g_cache_count, blocks>>

CacheSlots == 0 .. EE_JIT_CACHE_SLOTS - 1
NULL == 0
Entries == [instr : Instrs \cup {0}, fn : Instrs \cup {NULL}]
FreeEntry == [instr |-> 0, fn |-> NULL]

\* 6577 is the multiplier 2654435761 modulo the 8192 slots.
Hash(i) == i * 6577
Probe(i, p) == (Hash(i) + p) % EE_JIT_CACHE_SLOTS

Free(i, p) == g_cache[Probe(i, p)].fn = NULL
Stops(i, p) == Free(i, p) \/ g_cache[Probe(i, p)].instr = i

First(P) == CHOOSE p \in P : \A q \in P : p <= q

\* ee_jit_cache_lookup()
Lookup(i) ==
    LET P == {p \in CacheSlots : Stops(i, p)}
    IN  IF P = {} THEN NULL ELSE g_cache[Probe(i, First(P))].fn

\* The first free probe.
FirstFree(i, p) == Free(i, p) /\ \A q \in CacheSlots : Free(i, q) => p <= q

Put(i, p, fn) ==
    /\ g_cache' = [g_cache EXCEPT ![Probe(i, p)] = [instr |-> i, fn |-> fn]]
    /\ g_cache_count' = g_cache_count + 1

NoPlace(i) == g_cache_count >= EE_JIT_CACHE_SLOTS \/ \A p \in CacheSlots : ~Free(i, p)

\* Mutant: the first free entry of the table, without the hash.
InsertAnywhere(i, fn) ==
    IF NoPlace(i) THEN UNCHANGED <<g_cache, g_cache_count>>
    ELSE \E p \in CacheSlots : FirstFree(0, p) /\ Put(i, p - Hash(i), fn)

\* ee_jit_cache_insert(), which a full cache declines.
Insert(i, fn) ==
    IF NoPlace(i) THEN UNCHANGED <<g_cache, g_cache_count>>
    ELSE \E p \in CacheSlots : FirstFree(i, p) /\ Put(i, p, fn)

\* A block is compiled, and run, whether or not it is kept.
Compile(i) == Lookup(i) = NULL /\ Insert(i, i) /\ blocks' = blocks + 1

\* ppc_dynarec_translate_one() fails and the buffer is freed.
Discard == UNCHANGED cacheVars

CacheInit ==
    /\ g_cache = [s \in CacheSlots |-> FreeEntry]
    /\ g_cache_count = 0 /\ blocks = 0

\* ee_jit_reset_stats_for_test(): the entries' blocks are freed.
Reset ==
    /\ g_cache' = [s \in CacheSlots |-> FreeEntry] /\ g_cache_count' = 0
    /\ blocks' = blocks - g_cache_count

CacheNext == Reset \/ \E i \in Instrs : Compile(i)

CacheSpec == CacheInit /\ [][CacheNext]_cacheVars

-----------------------------------------------------------------------------
Held(s) == g_cache[s].fn # NULL

\* An instruction is compiled once as long as its block is kept: every entry is
\* the one a lookup of its instruction finds, with the block of that instruction,
\* so a lookup neither misses a kept block nor runs another's.
CachedFound ==
    \A s \in CacheSlots : Held(s) => /\ Lookup(g_cache[s].instr) = g_cache[s].instr
                                 /\ \A u \in CacheSlots : Held(u) /\ g_cache[u].instr = g_cache[s].instr => u = s

\* While the cache is not full a code buffer belongs to an entry: a step allocates
\* a buffer that stays exactly when it adds an entry, and frees those of the entries
\* it drops.  (A full cache keeps running blocks that nothing will free.)
BlocksOwned == [][g_cache_count < EE_JIT_CACHE_SLOTS => blocks' - blocks = g_cache_count' - g_cache_count]_cacheVars
=============================================================================
