SPECIFICATION Spec
CONSTANTS
    d1 = d1
    d2 = d2
    f1 = f1
    f2 = f2
    n1 = n1
    n2 = n2
    Folders <- TwoFolders
    Files <- TwoFiles
    Names <- TwoNames
    Root = Root
    Keep = Keep
    Blank = Blank
SYMMETRY Symmetry
INVARIANT TrashRestorable
