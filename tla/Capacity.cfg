SPECIFICATION Spec
CONSTANTS
    Nodes = {1, 2, 3}
    Slots = {1, 2, 3, 4}
    Profiles = {1, 2}
    NodeOf <- MCNodeOf
    Hardware <- MCHardware
    Device <- MCDevice
    Catalogue <- MCCatalogue
    SizeOf <- MCSizeOf
    NoPolicy = NoPolicy
    NoProfile = NoProfile
    BucketSize = 1
    Buckets = 4
    Cooldown = 2
    Tasks = {1, 2}
    SetUps <- MCSetUps
    Policies <- MCPolicies
    AutoApprove = FALSE
    FlapThreshold = 3
    QuarantineThreshold = 2
INVARIANTS
    TypeOK
    PlanWithinBudgets
    OneOwnerPerSlot
    ShortageIsReal
    ExplainAgrees
    NoDanglingArtifact
    PlanIsCarriedOut
    AcceptsFollowsPlan
CHECK_DEADLOCK FALSE
