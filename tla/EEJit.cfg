SPECIFICATION JitSpec
CONSTANTS
    LogByte = 1
    Gprs = {0, 1, 2, 3, 31}
    Junk = 165
    Program <- MCProgram
    Instrs <- MCInstrs
    EE_JIT_CACHE_SLOTS = 2
    Texts <- MCTexts
CHECK_DEADLOCK FALSE
INVARIANTS CallerKept CachedFound
PROPERTIES InterpreterKept
