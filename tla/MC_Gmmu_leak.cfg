\* A map whose table update runs out of memory, then the buffer freed:
\* the PTEs the failed walk wrote still lead the GPU to the freed memory.
CONSTANTS
    NumLevels = 2
    Levels <- MCLevels
    GmmuPageSizes <- MCPageSizes
    BypassSmmu = TRUE
    Bufs = {"u1"}
    KernelBufs <- MCKernelBufs
    Backing <- MCBacking
    BufPgsz <- MCBufPgsz
    FixedVa <- MCFixedVa
    Skips = {0, 1, 2}
    VaUnits = 32
    VaPgsz <- MCVaPgsz
    AllocVa <- MCAllocVa
    MaxFail = 2
    Unallocated = {}
    WritePages = {}
SPECIFICATION Spec
INVARIANT
    NoGpuPathToFreedMemory
