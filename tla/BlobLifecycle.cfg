SPECIFICATION Spec
CONSTANTS
    b1 = b1
    b2 = b2
    u1 = u1
    u2 = u2
    t1 = t1
    t2 = t2
    r1 = r1
    Digests <- TwoDigests
    Uploads <- TwoUploads
    Temps <- TwoTemps
    Readers <- OneReader
    MaxRefs = 1
    BatchSize = 1
    MaxCrashes = 1
    PowerLoss = FALSE
    None = None
SYMMETRY Symmetry
INVARIANTS
    BlobInv
    RowHasContent
    ReferenceHasRow
    PutStays
PROPERTIES
    ReferencedServed
    ImplementsStore
