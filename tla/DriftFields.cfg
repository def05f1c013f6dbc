SPECIFICATION DriftSpec
CONSTANTS
    Absent = Absent  Bad = Bad
    Url = Url  Alias = Alias
    NoHost = NoHost  NoSpec = NoSpec  Me = Me  Nobody = Nobody
    DockerHost = "host.docker.internal"
    LabelSets <- MCLabelSets
    ExposedSets <- MCExposedSets
    Names = {"web", "renamed"}
    Addresses <- MCAddresses
    Configs <- MCConfigs
    UserPorts = {65535}
    UserHosts = {"gateway"}
    MaxMoves = 1
    MaxFaults = 1
    MaxEdits = 1
    MaxRestarts = 1
INVARIANTS
    DriftTypeOK
    SettledAgrees
    NoFlapping
    OnlyWellFormed
PROPERTIES
    ImplementsWriter
    AgreedFieldsKept
