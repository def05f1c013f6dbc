SPECIFICATION WriterSpec
CONSTANTS
    c1 = c1  c2 = c2
    u1 = u1  u2 = u2  u3 = u3
    Containers = {c1, c2}
    Urls = {u1, u2}
    Targets = {"t1", "t2"}
    UrlOf <- MCUrlOf
    SslContainers = {c1, c2}
    NoOwner = "none"
    UniqueDomains = FALSE
    LostResponses = TRUE
    MaxAttempts = 2
    UserOps = {"create", "delete", "drift", "redomain", "adopt"}
    MaxHostId = 3
    MaxFaults = 1
    MaxEdits = 2
    TokenUrls = {u1}
    CleanupOnRemove = TRUE
    AdoptRaces = FALSE
    MaxRestarts = 1
INVARIANTS
    WriterTypeOK
    CacheSound
    CacheInjective
    CommitSound
PROPERTIES
    TouchesOnlyOwn
