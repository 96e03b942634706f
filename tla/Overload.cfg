\* Full send buffers, an impatient client, a cancelled job and a plan that moves.
CONSTANTS
    t1 = t1  t2 = t2  t3 = t3  s1 = s1  s2 = s2  n1 = n1  n2 = n2  p1 = p1  p2 = p2
    NoTask = NoTask  NoSlot = NoSlot
    ProfileOf <- MCOneProfile  HomeProfile <- MCHome
    Tasks = {t1}
    Slots = {s1}
    Nodes = {n1}
    Profiles = {p1, p2}
    NodeOf <- MCOneNode
    Streaming = {}
    MayLeave = {t1}
    MayCancel = {t1}
    Flaky = {}
    Faulty = {}
    Overflow = TRUE
    Plans <- MCWarmAny
    QueueLimit = 2
    Threshold = 1
    MaxAttempts = 2
    MaxSessions = 1
    MaxLoads = 1
SPECIFICATION RequestFairSpec
PROPERTY GoneReleasesQueue
CHECK_DEADLOCK FALSE
