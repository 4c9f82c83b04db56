SPECIFICATION Spec
CONSTANTS
    NoText = NoText
    SizeMax = 42
    ChunkBytes = 24
    Alignments = {1, 8}
    Bases = {16}
    MayStarve = TRUE
    PowersOfTwo = {1, 2, 4, 8, 16, 32}
    LayoutTypes <- MCLayoutTypes
    Headers <- MCHeaders
    TextSize <- MCTextSize
    SizeOf <- MCSizeOf
INVARIANT AcceptsExactly LaidOutAsDeclared BuiltValid
INVARIANT BlocksInPlace BlocksDisjoint
PROPERTY Ends
CHECK_DEADLOCK FALSE
