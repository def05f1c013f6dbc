SPECIFICATION RetryLive
CONSTANTS
    writer = writer  reconciler = reconciler
    Tasks = {writer, reconciler}
    MaxAttempts = 3
    MaxExpiries = 2
    MaxLoginFails = 1
INVARIANTS
    RetryTypeOK
    OneExpiryOneLogin
    ExecutionsBounded
PROPERTIES
    ImplementsRemoteCall
    CallsEnd
