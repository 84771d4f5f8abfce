CONSTANTS
    Names <- MiscNames
    TVals = {0, 1, 2, 3, 4, 7}
    UIntBits = 2
    ULongBits = 3
    FaultMax = 1
    MaxPlistNum = 2
    SegsPerSec = 2
    AtgcMax = 2
    RaMul <- Ranges01
    FragSize <- Ranges01
    IostatPeriod <- Ranges01
    IoprioLevels = 2
    UserBlocks = 3
    RootReserved = 1
    SegReserve = 0
    BlockUnitDiscard = TRUE
    AtgcEnabled = FALSE
    MergeCheckpoint = TRUE
    ExtNames = {"e1", "e2"}
    MaxExt = 1
    MaxStores = 2
SPECIFICATION Spec
CONSTRAINT StoreBound
INVARIANTS
    TypeOK
    ShowDefined
PROPERTIES
    ExtensionStoreAtomic
