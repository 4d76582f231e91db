SPECIFICATION ClientSpec
CONSTANTS
    u1 = u1
    u2 = u2
    u3 = u3
    Uploads <- ThreeUploads
INVARIANTS
    LifecycleInv
    PoolOutlivesCollector
    DrainedMeansAnswered
    WorksOnWhole
PROPERTIES
    ProcessExits
    StartupEnds
