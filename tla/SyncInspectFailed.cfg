SPECIFICATION SyncSpec
CONSTANTS
    c1 = c1  c2 = c2  u1 = u1  u2 = u2  t1 = t1  t2 = t2
    Containers = {c1}
    Urls = {u1}
    Targets = {t1, t2}
    UrlOf <- MCOneUrl
    SslContainers = {}
    NoOwner = "none"
    UniqueDomains = TRUE
    LostResponses = FALSE
    MaxAttempts = 2
    UserOps = {"create", "delete", "drift"}
    MaxHostId = 2
    MaxFaults = 0
    MaxEdits = 0
    TokenUrls = {u1}
    CleanupOnRemove = TRUE
    AdoptRaces = FALSE
    MaxRestarts = 0
    Capacity = 1
    Labeled = {c1}
    MaxDockerOps = 2
    MaxBreaks = 0
    MaxDockerFaults = 1
SYMMETRY TargetSymmetry
PROPERTIES
    RemovesOnlyMissing
