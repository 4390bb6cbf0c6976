\* A clock whose enable failed at unrailgate is disabled at railgate.
CONSTANTS
    NumClkEntries = 3
    DtClockCounts <- MCDtClockCounts
    IsSiliconOrFpga = TRUE
    EnableMayFail = TRUE
    HwRateSets <- MCHwRateSets
    MaxRate = 9
    GP10B_MAX_SUPPORTED_FREQS = 8
    GP10B_NUM_SUPPORTED_FREQS = 3
    GP10B_FREQ_SELECT_STEP = 3
    UINT_MAX = 2147483647
    HasProfile = TRUE
    MaxEmcRate = 3
    EmcBwRatio = 100
    Emc3dRatio = 5
SPECIFICATION Spec
CHECK_DEADLOCK FALSE
INVARIANT
    NoUnbalancedClkDisable
