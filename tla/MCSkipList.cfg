SPECIFICATION Spec
CONSTANTS
    Key = {1, 2, 3}
    Val = {a, b}
    Null = Null
    MAX_LEVEL = 4
    Drawn = {1, 2, 3}
CHECK_DEADLOCK FALSE
VIEW StateView
 
PROPERTY ImplementsMap
