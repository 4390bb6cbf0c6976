\* Every map, failed map and unmap of sysmem buffers, kernel and VM, with
\* an allocation failing at either of the first two attempts of a call, is a
\* step of GmmuAbstract.  A map of s1 at VA 14 writes the PTE of 14 and
\* then needs the level-1 table under 16, so a failed map changes
\* translations.
CONSTANTS
    NumLevels = 2
    Levels <- MCLevels
    GmmuPageSizes <- MCPageSizes
    BypassSmmu = TRUE
    Bufs = {"k2", "s1"}
    KernelBufs <- MCKernelBufs
    Backing <- MCBacking
    BufPgsz <- MCBufPgsz
    FixedVa <- MCFixedVa
    Skips = {0, 1}
    VaUnits = 32
    VaPgsz <- MCVaPgsz
    AllocVa <- MCAllocVa
    MaxFail = 2
    Unallocated = {}
    WritePages = {}
SPECIFICATION Spec
VIEW WithoutTlb

PROPERTY ImplementsAbstract
