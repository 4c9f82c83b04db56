SPECIFICATION Spec
CONSTANTS
    SizeMax <- MCSizeMax
    PowersOfTwo <- MCPowersOfTwo
    BasicTypes <- MCBasicTypes
    Counts <- MCCounts
    BadTypes <- MCBadTypes
    MaxMembers = 3
    MaxStructs = 2
INVARIANT MembersDisjoint
PROPERTY AddExact SizeExact
CHECK_DEADLOCK FALSE
