SPECIFICATION Spec
CONSTANTS
    NoText = NoText
    NotNumber = NotNumber
    SizeMax = 100
    ByteValues = 4
    WordBytes = 2
    FloatSize = 1
    DoubleSize = 2
    Builtin = {"sample"}
    Headers = {"header"}
    Handles = {h1, h2}
    Tables <- MCTables
    Lines <- MCLines
    Paths <- MCPaths
    Items <- MCItems
    Files <- MCFiles
    MayFail = TRUE
    MaxChanges = 2
INVARIANT CatalogsOwned PathShowsTarget StaysWhole SavedLoadsBack
INVARIANT ShownIsSavable
PROPERTY EditsWhatIsShown EofEnds
CHECK_DEADLOCK FALSE
