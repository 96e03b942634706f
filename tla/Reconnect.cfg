\* One request, a Worker with two slots that may lose its connection once.
CONSTANTS
    t1 = t1  t2 = t2  t3 = t3  s1 = s1  s2 = s2  n1 = n1  n2 = n2  p1 = p1  p2 = p2
    NoTask = NoTask  NoSlot = NoSlot
    ProfileOf <- MCOneProfile  HomeProfile <- MCHome
    Tasks = {t1}
    Slots = {s1, s2}
    Nodes = {n1}
    Profiles = {p1}
    NodeOf <- MCOneNode
    Streaming = {}
    MayLeave = {}
    MayCancel = {}
    Flaky = {n1}
    Faulty = {}
    Overflow = FALSE
    Plans <- MCWarmAll
    QueueLimit = 2
    Threshold = 1
    MaxAttempts = 3
    MaxSessions = 2
    MaxLoads = 0
SPECIFICATION Spec
INVARIANT Bookkeeping
INVARIANT ExcludeFailedSlots
INVARIANT AnsweredIsCharged
PROPERTY QuarantineHolds
PROPERTY LifeAsPromised
CHECK_DEADLOCK FALSE
