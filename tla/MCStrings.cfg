SPECIFICATION Spec
CONSTANTS
    Byte = {0, 97, 98}
    Nul = 0
    MaxArg = 3
    MaxLen = 4
    Symbols = {42, 63, 91, 92, 93, 94, 45, 97, 98}
    MaxPattern = 4
CHECK_DEADLOCK FALSE
INVARIANTS FreeIsExact GlobIsLanguage 
 
VIEW StateView
