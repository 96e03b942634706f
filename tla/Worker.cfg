SPECIFICATION Spec
CONSTANTS
    s1 = s1
    p1 = p1
    p2 = p2
    a1 = a1
    t1 = t1
    NoSlot = NoSlot
    NoProfile = NoProfile
    NoArtifact = NoArtifact
    NoTask = NoTask
    NoServer = NoServer
    Slots = {s1}
    Profiles = {p1, p2}
    Artifacts = {a1}
    Tasks = {t1}
    Servers = {1, 2}
    ModelOf <- MCModelOf
    MaxRestarts = 1
    MaxDownloads = 1
    MaxAssignments = 2
    MaxFailures = 1
    MaxEvents = 1
INVARIANTS
    TypeOK
    SlotHasOwner
    ReadyIsServed
    NoLostServer
    RestartsAreLimited
    CacheIsVerified
PROPERTIES
    EvictionLeavesNothing
SYMMETRY ProfileSymmetry
CHECK_DEADLOCK FALSE
