\* Three requests for one slot that may refuse one.
CONSTANTS
    t1 = t1  t2 = t2  t3 = t3  s1 = s1  s2 = s2  n1 = n1  n2 = n2  p1 = p1  p2 = p2
    NoTask = NoTask  NoSlot = NoSlot
    ProfileOf <- MCOneProfile  HomeProfile <- MCHome
    Tasks = {t1, t2, t3}
    Slots = {s1}
    Nodes = {n1}
    Profiles = {p1}
    NodeOf <- MCOneNode
    Streaming = {}
    MayLeave = {}
    MayCancel = {}
    Flaky = {}
    Faulty = {s1}
    Overflow = FALSE
    Plans <- MCWarmAll
    QueueLimit = 3
    Threshold = 2
    MaxAttempts = 1
    MaxSessions = 1
    MaxLoads = 0
SPECIFICATION Spec
INVARIANT OneTaskPerSlot
CHECK_DEADLOCK FALSE
