\* The ACR bootstrap beside another owner of the PMU VM, no OOM: what the
\* descriptor holds between calls, the BL fetched through its mapping, and
\* no GPU path to freed memory; and every call returns under the fairness
\* of the calling thread.
CONSTANTS
    NumLevels = 2
    Levels <- MCLevels
    GmmuPageSizes <- MCPageSizes
    VaUnits = 32
    VaPgsz <- MCVaPgsz
    AllocVa <- MCAllocVa
    Bufs = {"k1", "bl"}
    KernelBufs <- MCKernelBufs
    Backing <- MCBacking
    BufPgsz <- MCBufPgsz
    FixedVa <- MCFixedVa
    Skips = {0}
    BypassSmmu = FALSE
    MaxFail = 0
    Unallocated = {"bl"}
    WritePages = {2}
    BlBuf = "bl"
SPECIFICATION AcrFairSpec
INVARIANTS
    AcrTypeOK
    AcrHoldsWhatDescriptorNames
    BlFetchesBlUcode
    NoGpuPathToFreedMemory
PROPERTY
    AcrCallReturns
