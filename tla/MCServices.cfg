\* Two users, of whom one is staff, two browsers and two sessions; four
\* minutes of two ticks each, the first of them before the first boot.
SPECIFICATION Spec
CONSTANTS
    Users = {admin, ann}
    Admin = admin
    Passwords = {p1, p2}
    Secrets = {k1, k2}
    SeedSecret = seed
    SessionIds = {s1, s2}
    Browsers = {b1, b2}
    Nobody = Nobody
    NoSecret = NoSecret
    NoSession = NoSession
    Mids = {1, 2}
    MinuteTicks = 2
    Minutes = 4
    First = 1
    BucketMinutes = 2
    Limits = {1, 2}
    ChartLimit = 1
    Drivers = {"memory", "redis"}
    MaxWire = 1
    Nothing = Nothing
SYMMETRY Symmetry
INVARIANTS
    SessionsTypeOK
    FactorIsAnswerable
    StaffUseTheFactor
    SessionsHaveThePassword
    MarketTypeOK
    StoredMinuteIsWhole
    HistoryHasNoCutBucket
    ChartIsTrue
PROPERTIES
    QuotesNeverGoBack
CHECK_DEADLOCK FALSE
