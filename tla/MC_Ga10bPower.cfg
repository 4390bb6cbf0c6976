CONSTANTS
    MaxComptagMemValues <- MCMaxComptagMemValues
    HwMaxComptagLines = 48
    SlicesPerLtc = 4
    GobsPerComptaglinePerSlice = 16
    BaseDivisor = 2048
    MaxAllocInits = 2
    GatingCaps = {"slcg", "elcg"}
    NumRunlists = 2
    MigEnabled = TRUE
    MigDisallowed <- MCMigDisallowed
    LoadedLists <- MCLoadedLists

SPECIFICATION Spec

INVARIANTS
    Ga10bTypeOK
    ComptagLinesBacked
    ComptagAllocatorInitOnce
