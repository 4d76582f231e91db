SPECIFICATION ListSpec
CONSTANTS
    d1 = d1
    d2 = d2
    d3 = d3
    f1 = f1
    f2 = f2
    n1 = n1
    n2 = n2
    Folders <- ThreeFolders
    Files <- TwoFiles
    Names <- TwoNames
    Root = Root
    Keep = Keep
    Blank = Blank
    Queries <- OneByOne
    MaxInt = 7
    MaxPage = 9
    MaxRows = 3
SYMMETRY Symmetry
INVARIANTS
    TreeInv
    Reachable
    TrashCovers
    TotalFitsItems
    NothingMissed
    ListedStillShared
PROPERTIES
    PurgeOnlyTrash
    EmptyTrashEmpties
