SPECIFICATION Spec
CONSTANTS
    f = f
    a = a
    b = b
    Images <- MCImages
    Packages <- MCPackages
    Works = {f, a, b}
    FactoryImage = f
    NoPackage = NoPackage
    NoRecord = NoRecord
    Erased = Erased
    Spoilt = Spoilt
    SlotBlocks = 1
    SpanBlocks = 2
    BackupBlocks = 4
    SectorBlocks = 1
    TrialBoots = 1
    AdoptBlank = FALSE
    CheckPages = TRUE
    CheckSignature = TRUE
    FaultKinds = {"corrupt", "lost", "pulled", "tamper", "flash", "forced"}
    MaxFaults = 2
INVARIANTS TypeOK BackupIsAnImage NoDowngrade TrialCounted
PROPERTIES StartsWhole
