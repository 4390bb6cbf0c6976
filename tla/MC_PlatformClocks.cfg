\* Probe with deferral and rollback, then railgate cycles in which any
\* clock enable may fail, and the devfreq frequency table of a GPC clock
\* with any rates in 1..9: a local table of 8, a devfreq table of 3, every
\* 3rd rate.  UINT_MAX - 1 only serves as a request above every rate;
\* TLC's largest integer does the same.  With a scale profile, the bwmgr
\* client's EMC floor: the maximum EMC rate 3 is below the rate 4 of the
\* top GPC rates (f * 100 * 5 / 1000), so the clamp is reached, and the
\* lowest table rate gets 0.  A removed device and a probe
\* failing for good get no more callbacks, so those states have no
\* successor.
CONSTANTS
    NumClkEntries = 3
    DtClockCounts <- MCDtClockCounts
    IsSiliconOrFpga = TRUE
    EnableMayFail = TRUE
    HwRateSets <- MCHwRateSets
    MaxRate = 9
    GP10B_MAX_SUPPORTED_FREQS = 8
    GP10B_NUM_SUPPORTED_FREQS = 3
    GP10B_FREQ_SELECT_STEP = 3
    UINT_MAX = 2147483647
    HasProfile = TRUE
    MaxEmcRate = 3
    EmcBwRatio = 100
    Emc3dRatio = 5
SPECIFICATION Spec
CHECK_DEADLOCK FALSE
INVARIANTS
    PlatTypeOK
    ClkRefsMatchPointers
    ClocksOffWhenRailgated
    FreqTablesFitArrays
    FreqTableAscendingHwRates
    RoundClkRateIsTableCeiling
