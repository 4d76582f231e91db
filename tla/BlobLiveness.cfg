SPECIFICATION FairSpec
CONSTANTS
    b1 = b1
    b2 = b2
    u1 = u1
    u2 = u2
    t1 = t1
    t2 = t2
    r1 = r1
    Digests <- OneDigest
    Uploads <- OneUpload
    Temps <- OneTemp
    Readers <- NoReaders
    MaxRefs = 1
    BatchSize = 1
    MaxCrashes = 2
    PowerLoss = FALSE
    None = None
PROPERTIES
    GarbageCollected
    TempsCollected
    UploadEntersGate
