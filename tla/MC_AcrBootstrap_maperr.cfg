\* acr_hs_bl_exec() returning 0 after nvgpu_gmmu_map() of the BL ucode
\* failed: the kernel VA region is taken by k1.
CONSTANTS
    NumLevels = 2
    Levels <- MCLevels
    GmmuPageSizes <- MCPageSizes
    VaUnits = 32
    VaPgsz <- MCVaPgsz
    AllocVa <- MCAllocVa
    Bufs = {"k1", "bl"}
    KernelBufs <- MCKernelBufs
    Backing <- MCBacking
    BufPgsz <- MCBufPgsz
    FixedVa <- MCFixedVa
    Skips = {0}
    BypassSmmu = FALSE
    MaxFail = 0
    Unallocated = {"bl"}
    WritePages = {}
    BlBuf = "bl"
SPECIFICATION AcrSpec
INVARIANT
    AcrSuccessMeansBooted
