\* Two VM buffers unmapped, batched or not, while GPU engines write through
\* the TLB: the L2 flush of an unmap comes before its TLB invalidate.
CONSTANTS
    NumLevels = 2
    Levels <- MCLevels
    GmmuPageSizes <- MCPageSizes
    BypassSmmu = TRUE
    Bufs = {"u1", "u2"}
    KernelBufs <- MCKernelBufs
    Backing <- MCBacking
    BufPgsz <- MCBufPgsz
    FixedVa <- MCFixedVa
    Skips = {0}
    VaUnits = 32
    VaPgsz <- MCVaPgsz
    AllocVa <- MCAllocVa
    MaxFail = 0
    Unallocated = {}
    WritePages = {12, 24}
SPECIFICATION Spec
INVARIANT
    NoDirtyL2LineOfFreedMemory
