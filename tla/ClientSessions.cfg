SPECIFICATION Spec
CONSTANTS
    None = None
    Calls = {c1, c2}
    Router = c2
    PortalLoads = 2
    MaxEvents = 2
    AdminLoads = 1
    MaxLogouts = 1
    Tabs = {t1, t2}
    TabRequests = {r1}
    TabTokens = 2
    Ttls = {1, 2}
    ClockSkew = 1
    MaxTime = 2
    M2MTokens = 3
    Events = 3
    MaxChunk = 2
    MaxAttempts = 2
    CountedAttempts = 1
    Fns = {f1, f2}
    Pipelines = {q1}
    MaxClears = 1
    MaxUses = 3
    Legs = {l1, l2}
    MaxSignIns = 2
    DemoTokens = 4
INVARIANTS
    PortalSessionHolds
    PipelineComplete
    DemoSessionHolds
PROPERTIES
    RoutesGuarded
    RefreshShared
    TokenShared
    StreamResumes
    EverythingEnds
CHECK_DEADLOCK FALSE
