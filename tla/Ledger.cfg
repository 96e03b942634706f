SPECIFICATION Spec
CONSTANTS
    u1 = u1
    u2 = u2
    k1 = k1
    k2 = k2
    t1 = t1
    t2 = t2
    NoUser = NoUser
    NoKey = NoKey
    Users = {u1, u2}
    DefaultUser = u1
    Keys = {k1, k2}
    KeyUser <- MCKeyUser
    ConfiguredKey = k1
    Tasks = {t1, t2}
    Enforce = TRUE
    Costs <- MCCosts
    Adjustments <- MCAdjustments
    SetUps <- MCSetUps
    MaxAttempts = 1
    MaxFailedSaves = 1
    MaxCrashes = 1
    MaxEdits = 2
SYMMETRY TaskSymmetry
INVARIANTS
    TypeOK
    BalanceIsLedger
    ChargesFollowReports
    HeldBalanceIsServed
    AcknowledgedIsDurable
PROPERTIES
    NoOverspending
    LedgerAppendOnly
CHECK_DEADLOCK FALSE
