\* A new session is closed before its greeting is handled.
CONSTANTS
    t1 = t1  t2 = t2  t3 = t3  s1 = s1  s2 = s2  n1 = n1  n2 = n2  p1 = p1  p2 = p2
    NoTask = NoTask  NoSlot = NoSlot
    ProfileOf <- MCOneProfile  HomeProfile <- MCHome
    Tasks = {}
    Slots = {s1}
    Nodes = {n1}
    Profiles = {p1}
    NodeOf <- MCOneNode
    Streaming = {}
    MayLeave = {}
    MayCancel = {}
    Flaky = {n1}
    Faulty = {}
    Overflow = FALSE
    Plans <- MCWarmAll
    QueueLimit = 2
    Threshold = 2
    MaxAttempts = 1
    MaxSessions = 3
    MaxLoads = 0
SPECIFICATION FairSpec
PROPERTY SilentWorkerGoesOffline
CHECK_DEADLOCK FALSE
