-------------------------------- MODULE EEJit --------------------------------
(* ee_step() on the Wii: ee_jit_try_execute_one() runs a block for the      *)
(* instruction, cached or compiled now, or leaves it to the interpreter.    *)
EXTENDS EECore, PPCDynarec, EEJitCache

CONSTANTS
    Texts   \* what memory may hold: the instructions, the states the EE starts
            \* from, and a bound on the steps

ASSUME ProgramAssumption == Instrs = DOMAIN Program

VARIABLES
    text,   \* the instructions in memory
    left,   \* bound: steps that are left
    frame   \* the caller's registers when the last block returned

vars == <<ee, ran, g_cache, g_cache_count, blocks, text, left, frame>>

Code == [k \in DOMAIN Program |-> Translate(Program[k])]

\* emit() does not look at the size of the buffer: a block has to fit.
ASSUME BlocksFit == \A k \in DOMAIN Program : Len(Code[k]) <= BlockWords

\* ee_jit_opcode_supported() passes all multimedia instructions, also those that
\* ppc_dynarec_translate_one() knows nothing of.
Supported(k) == Program[k].op \notin {"DSLL32", "DSRL32", "DSRA32"}
Translated(k) == Code[k] # Untranslated

JitInit ==
    /\ \E x \in Texts : text = x.instrs /\ left = x.steps /\ ee \in x.starts
    /\ ran = 0
    /\ frame = CallerFrame
    /\ CacheInit

Steps(k) == /\ left > 0 /\ left' = left - 1
            /\ k \in text /\ Fetches(k)
            /\ ran' = k /\ UNCHANGED text

RunBlock(fn) ==
    LET m == Run(Machine(Fetched(ee)), Code[fn])
    IN  ee' = Finished(m.ee) /\ frame' = Frame(m)

InterpretIt(k) ==
    /\ ee' = Finished(Interpret(Fetched(ee), Program[k]))
    /\ UNCHANGED frame

CachedStep(k) ==
    /\ Steps(k) /\ Supported(k) /\ Lookup(k) # NULL
    /\ RunBlock(Lookup(k))
    /\ UNCHANGED cacheVars

CompileStep(k) ==
    /\ Steps(k) /\ Supported(k) /\ Translated(k)
    /\ Compile(k)
    /\ RunBlock(k)

\* There is no memory for a block, or no translation.
DeclineStep(k) ==
    /\ Steps(k) /\ Supported(k) /\ Lookup(k) = NULL
    /\ Discard
    /\ InterpretIt(k)

UnsupportedStep(k) ==
    /\ Steps(k) /\ ~Supported(k)
    /\ InterpretIt(k)
    /\ UNCHANGED cacheVars

\* The steps that execute no instruction.
Elsewhere ==
    /\ left > 0 /\ left' = left - 1
    /\ NullGuard \/ FetchMiss
    /\ UNCHANGED <<cacheVars, text, frame>>

ResetForTest == left > 0 /\ Reset /\ UNCHANGED <<ee, ran, text, left, frame>>

JitNext ==
    \/ \E k \in DOMAIN Program : CachedStep(k) \/ CompileStep(k) \/ DeclineStep(k) \/ UnsupportedStep(k)
    \/ Elsewhere
    \/ ResetForTest

JitSpec == JitInit /\ [][JitNext]_vars

-----------------------------------------------------------------------------
(* Properties.                                                              *)

\* Compiled code is the interpreter: whatever mixture of blocks and interpreted
\* instructions ee_step() takes, registers, memory, control flow and exception
\* state change as the interpreter alone changes them.
InterpreterKept == Spec

\* A block returns to ee_jit_try_execute_one() with the stack pointer, the saved
\* registers and the return address it was called with, also after calls to
\* ee_mem_*() and the multimedia helpers from inside.
CallerKept == frame = CallerFrame
=============================================================================
