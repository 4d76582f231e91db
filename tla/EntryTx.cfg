SPECIFICATION TxSpec
CONSTANTS
    c1 = c1
    c2 = c2
    d1 = d1
    d2 = d2
    d3 = d3
    f1 = f1
    f2 = f2
    n1 = n1
    n2 = n2
    Clients <- OneClient
    Allowed <- AllOps
    Folders <- ThreeFolders
    Files <- OneFile
    Names <- TwoNames
    Root = Root
    Keep = Keep
    Blank = Blank
SYMMETRY Symmetry
INVARIANT
    TxTypeOK
PROPERTIES
    ImplementsEntryTree
