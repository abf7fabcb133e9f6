SPECIFICATION Spec
CONSTANTS
    Tab = {t1, t2}
    Guid = {content}
    MetaGuid = meta
    NoSeed = NoSeed
    OldSeed = OldSeed
    OldVersions = {1}
    TrimSize = 2
    MaxUpdates = 3
    MaxOpens = 2
    MaxFaults = 1

INVARIANTS
    ReplayIsComplete
    OldIdentityIsKept
PROPERTIES OpensInTheEnd
CHECK_DEADLOCK FALSE
