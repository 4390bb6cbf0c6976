\* A vidmem map whose first chunk walk runs out of memory at a level-0
\* boundary: the PTEs written past the first chunk are never rewritten.
CONSTANTS
    NumLevels = 2
    Levels <- MCLevels
    GmmuPageSizes <- MCPageSizes
    BypassSmmu = TRUE
    Bufs = {"u1"}
    KernelBufs <- MCKernelBufs
    Backing <- MCBacking
    BufPgsz <- MCBufPgsz
    FixedVa <- MCFixedVa
    Skips = {0, 1, 2}
    VaUnits = 32
    VaPgsz <- MCVaPgsz
    AllocVa <- MCAllocVa
    MaxFail = 2
    Unallocated = {}
    WritePages = {}
SPECIFICATION Spec
INVARIANT
    PtesReachOnlyBuffers
