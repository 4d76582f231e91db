SPECIFICATION Spec
CONSTANTS
    b1 = b1
    b2 = b2
    u1 = u1
    u2 = u2
    t1 = t1
    t2 = t2
    r1 = r1
    Digests <- OneDigest
    Uploads <- TwoUploads
    Temps <- TwoTemps
    Readers <- NoReaders
    MaxRefs = 1
    BatchSize = 1
    MaxCrashes = 1
    PowerLoss = TRUE
    None = None
INVARIANT RowHasContent
