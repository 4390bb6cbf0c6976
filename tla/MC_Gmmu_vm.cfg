\* VM-layer mappings with and without a batch: a vidmem buffer of two
\* chunks on small pages and a sysmem scatterlist on big pages, no IOMMU.
CONSTANTS
    NumLevels = 2
    Levels <- MCLevels
    GmmuPageSizes <- MCPageSizes
    BypassSmmu = TRUE
    Bufs = {"u1", "u2"}
    KernelBufs <- MCKernelBufs
    Backing <- MCBacking
    BufPgsz <- MCBufPgsz
    FixedVa <- MCFixedVa
    Skips = {0, 1, 2}
    VaUnits = 32
    VaPgsz <- MCVaPgsz
    AllocVa <- MCAllocVa
    MaxFail = 0
    Unallocated = {}
    WritePages = {24}
SPECIFICATION Spec
INVARIANTS
    TypeOK
    NoStaleEntries
    NoGpuPathToFreedMemory
    EntriesWithinTable
    MappedBuffersTranslate
