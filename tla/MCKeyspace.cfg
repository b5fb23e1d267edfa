SPECIFICATION Spec
CONSTANTS
    s1 = s1  s2 = s2  d1 = d1  d2 = d2  NoStr = NoStr
    Str <- MCStr
    Db <- MCDb
    Index <- MCIndex
    Bumped <- MCBumped
    Nil <- NoStr
    MaxObj = 5
    MaxReply = 1
    MaxAnswer = 2
SYMMETRY Databases
VIEW ButDirty
INVARIANT TypeOK
 
 
PROPERTY ChangesAreCounted
CHECK_DEADLOCK FALSE
