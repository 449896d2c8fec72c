SPECIFICATION JitSpec
CONSTANTS
    LogByte = 1
    Gprs = {0, 1, 2, 3, 31}
    Junk = 165
    Program <- LqProgram
    Instrs <- LqInstrs
    EE_JIT_CACHE_SLOTS = 2
    Texts <- LqTexts
CHECK_DEADLOCK FALSE
PROPERTY InterpreterKept
