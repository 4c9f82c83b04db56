SPECIFICATION Spec
CONSTANTS
    Main = Main
    NoThread = NoThread
    c1 = c1
    c2 = c2
    Callers <- MCCallers
    MaxCalls = 2
SYMMETRY CallerSymmetry
INVARIANT HandlesStayValid
