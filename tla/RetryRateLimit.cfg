SPECIFICATION RetrySpec
CONSTANTS
    writer = writer  reconciler = reconciler
    Tasks = {writer}
    MaxAttempts = 3
    MaxExpiries = 1
    MaxLoginFails = 0
INVARIANTS
    RateLimitRetried
