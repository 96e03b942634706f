\* Two requests, one streaming, two slots of one Worker whose first slot may fail.
CONSTANTS
    t1 = t1  t2 = t2  t3 = t3  s1 = s1  s2 = s2  n1 = n1  n2 = n2  p1 = p1  p2 = p2
    NoTask = NoTask  NoSlot = NoSlot
    ProfileOf <- MCOneProfile  HomeProfile <- MCHome
    Tasks = {t1, t2}
    Slots = {s1, s2}
    Nodes = {n1}
    Profiles = {p1}
    NodeOf <- MCOneNode
    Streaming = {t1}
    MayLeave = {}
    MayCancel = {}
    Flaky = {}
    Faulty = {s1}
    Overflow = FALSE
    Plans <- MCWarmAll
    QueueLimit = 2
    Threshold = 2
    MaxAttempts = 2
    MaxSessions = 1
    MaxLoads = 0
SPECIFICATION Spec
INVARIANT TypeOK
INVARIANT WaitingIsServed
INVARIANT OneRunningAttempt
PROPERTY RetryOnlyBeforeFirstOutput
PROPERTY FailedAttemptNeverCharged
CHECK_DEADLOCK FALSE
