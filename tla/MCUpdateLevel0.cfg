SPECIFICATION Spec
CONSTANTS
    f = f
    a = a
    b = b
    Images <- MCImages
    Packages <- MCPackages
    Works = {f, b}
    FactoryImage = f
    NoPackage = NoPackage
    NoRecord = NoRecord
    Erased = Erased
    Spoilt = Spoilt
    SlotBlocks = 1
    SpanBlocks = 2
    BackupBlocks = 2
    SectorBlocks = 1
    TrialBoots = 1
    AdoptBlank = TRUE
    CheckPages = FALSE
    CheckSignature = FALSE
    FaultKinds = {"corrupt", "read", "lost", "flash", "forced"}
    MaxFaults = 1
INVARIANTS NoFalseAlarm
