\* A job is cancelled while the Worker of its attempt disconnects.
CONSTANTS
    t1 = t1  t2 = t2  t3 = t3  s1 = s1  s2 = s2  n1 = n1  n2 = n2  p1 = p1  p2 = p2
    NoTask = NoTask  NoSlot = NoSlot
    ProfileOf <- MCOneProfile  HomeProfile <- MCHome
    Tasks = {t1}
    Slots = {s1, s2}
    Nodes = {n1, n2}
    Profiles = {p1}
    NodeOf <- MCTwoNodes
    Streaming = {}
    MayLeave = {}
    MayCancel = {t1}
    Flaky = {n1}
    Faulty = {}
    Overflow = FALSE
    Plans <- MCWarmAll
    QueueLimit = 2
    Threshold = 2
    MaxAttempts = 2
    MaxSessions = 2
    MaxLoads = 0
SPECIFICATION Spec
PROPERTY CancelledNeverAssigned
CHECK_DEADLOCK FALSE
