SPECIFICATION LiveSpec
CONSTANTS
    f = f
    a = a
    b = b
    Images <- MCImages
    Packages <- MCPackages
    Works = {f, a}
    FactoryImage = f
    NoPackage = NoPackage
    NoRecord = NoRecord
    Erased = Erased
    Spoilt = Spoilt
    SlotBlocks = 2
    SpanBlocks = 2
    BackupBlocks = 4
    SectorBlocks = 1
    TrialBoots = 1
    AdoptBlank = FALSE
    CheckPages = TRUE
    CheckSignature = TRUE
    FaultKinds = {"read", "pulled", "tamper", "lost"}
    MaxFaults = 2
INVARIANTS RollbackPossible
PROPERTIES RollbackIsExact HalfProgrammedNeverRuns BootEnds TrialEnds
