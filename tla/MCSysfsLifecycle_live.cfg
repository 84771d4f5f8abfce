CONSTANTS
    u1 = u1
    u2 = u2
    NoCall = NoCall
    Users <- TwoUsers
    MaxRemount = 1
SPECIFICATION FairSpec
INVARIANTS
    TypeOK
    StoreGcThreadLive
    GlobalsReleasedAtUnload
PROPERTIES
    UnmountCompletes
    RegisterReturns
    ImplementsKobjectAbstract
    ProcDirEmptyWhenRemoved
