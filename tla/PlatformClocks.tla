--------------------------- MODULE PlatformClocks ---------------------------
(***************************************************************************)
(* The clocks of os/linux/platform_gp10b_tegra.c over the life of the      *)
(* device: gp10b_tegra_probe() acquires them (gp10b_tegra_acquire_platform_ *)
(* clocks(), rolling back on error; a deferred probe is retried), runtime  *)
(* PM alternates gp10b_tegra_unrailgate() and gp10b_tegra_railgate(),      *)
(* which enable and disable them through gp10b_tegra_clks_control(),       *)
(* devfreq builds its frequency table with gp10b_clk_get_freqs() from     *)
(* the rates of clk[0] (PlatformFreqs) and rounds its targets with        *)
(* gp10b_round_clk_rate(), and gp10b_tegra_remove() ends the device.  The clock framework is represented by the references *)
(* clk_get() handed out and the prepare/enable count of each clock; it    *)
(* WARNs on a disable of a clock whose count is 0.                         *)
(*                                                                         *)
(* Every callback runs under clks_lock or before the device is probed, so  *)
(* each is one step.  Clock names and the rates of clocks other than the  *)
(* GPC clock are data and left out.                                       *)
(***************************************************************************)
EXTENDS Naturals, FiniteSets, PlatformFreqs

CONSTANTS
    NumClkEntries,      \* ARRAY_SIZE(tegra_gp10b_clocks)
    DtClockCounts,      \* what of_clk_get_parent_count() may return
    IsSiliconOrFpga,    \* nvgpu_platform_is_silicon() || _is_fpga()
    EnableMayFail,      \* clk_prepare_enable() may return an error
    HwRateSets,         \* the rate sets the GPC clock may support
    HasProfile,         \* g->scale_profile # NULL (devfreq scaling set up)
    MaxEmcRate,         \* tegra_bwmgr_get_max_emc_rate()
    EmcBwRatio,         \* EMC_BW_RATIO
    Emc3dRatio          \* g->emc3d_ratio

Clks == 0..NumClkEntries-1

VARIABLES
    drv,        \* "unbound", "probed", "failed" (probe error, no retry), "removed"
    clk,        \* clk[i]: platform->clk[i] # NULL
    numClks,    \* platform->num_clks
    refs,       \* clock references from of_clk_get_by_name() not yet clk_put()
    enableCnt,  \* the clock framework's enable count of each clock
    warned,     \* the framework has WARNed about an unbalanced disable
    power,      \* runtime PM: "railgated" or "on"
    freqInit,   \* freq_table_init_complete
    freqTable,  \* gp10b_freq_table[0..num_supported_freq-1]
    hwRates,    \* the rates the GPC clock supports (fixed by the hardware)
    client,     \* profile->private_data: "null", a "live" bwmgr client, or
                \* "dead" (unregistered, the pointer kept)
    emcFloor,   \* the EMC floor the bwmgr holds for the GPU client
    psRate      \* {} or {r}: a postscale past its check, about to set floor r

bwVars == <<client, emcFloor, psRate>>

vars == <<drv, clk, numClks, refs, enableCnt, warned, power, freqInit,
          freqTable, hwRates, client, emcFloor, psRate>>

(* What clk_round_rate() rounds to on platform->clk[0]: the rates of the  *)
(* GPC clock, or only 0 for a NULL clock (no clocks acquired).            *)
ClkRates(c) == IF c THEN hwRates ELSE {0}

\* The clocks gp10b_tegra_clks_control() walks: i < num_clks with clk[i] set.
Controlled == {i \in Clks : i < numClks /\ clk[i]}

Init ==
    /\ drv = "unbound"
    /\ clk = [i \in Clks |-> FALSE]
    /\ numClks = 0
    /\ refs = [i \in Clks |-> 0]
    /\ enableCnt = [i \in Clks |-> 0]
    /\ warned = FALSE
    /\ power = "railgated"
    /\ freqInit = FALSE
    /\ freqTable = <<>>
    /\ hwRates \in HwRateSets
    /\ client = "null"
    /\ emcFloor = 0
    /\ psRate = {}

-----------------------------------------------------------------------------
\* Mutant: the rollback runs while (--i), never putting clock 0.
AcquireRollbackSkipsFirst(dt, f) ==
    /\ clk' = [i \in Clks |-> IF i = 0 /\ f > 0 THEN TRUE ELSE IF i < f THEN FALSE ELSE clk[i]]
    /\ refs' = [i \in Clks |-> IF i = 0 /\ f > 0 THEN refs[i] + 1 ELSE refs[i]]

(* err_get_clock: the clocks got before clock f are put and their          *)
(* pointers cleared again, newest first; clock f itself was never stored.  *)
AcquireRollback(dt, f) ==
    /\ clk' = [i \in Clks |-> IF i < f THEN FALSE ELSE clk[i]]
    /\ UNCHANGED refs

\* Mutant: the device-tree count is only checked against one more entry.
AcquirePlatformClocksNoBound ==
    IF ~IsSiliconOrFpga
    THEN /\ drv' = "probed"
         /\ UNCHANGED <<clk, numClks, refs>>
    ELSE \E dt \in DtClockCounts :
         \/ /\ dt > NumClkEntries + 1 \/ dt = 0
            /\ drv' = "failed"
            /\ UNCHANGED <<clk, numClks, refs>>
         \/ /\ dt \in 1..NumClkEntries + 1
            /\ \/ /\ clk' = [i \in Clks |-> IF i < dt THEN TRUE ELSE clk[i]]
                  /\ refs' = [i \in Clks |-> IF i < dt THEN refs[i] + 1 ELSE refs[i]]
                  /\ numClks' = dt
                  /\ drv' = "probed"
               \/ \E f \in 0..dt-1, deferred \in BOOLEAN :
                  /\ AcquireRollback(dt, f)
                  /\ numClks' = 0
                  /\ drv' = IF deferred THEN "unbound" ELSE "failed"

(* gp10b_tegra_acquire_platform_clocks(): nothing on other platforms; no  *)
(* clocks or more than the table holds is an error; otherwise every clock *)
(* of the device tree is got (its rate set) and stored, and num_clks set; *)
(* clock f failing rolls back the ones before it.  The result is the     *)
(* probe's: -EPROBE_DEFER has the probe retried later.                    *)
AcquirePlatformClocks ==
    IF ~IsSiliconOrFpga
    THEN /\ drv' = "probed"
         /\ UNCHANGED <<clk, numClks, refs>>
    ELSE \E dt \in DtClockCounts :
         \/ /\ dt > NumClkEntries \/ dt = 0
            /\ drv' = "failed"
            /\ UNCHANGED <<clk, numClks, refs>>
         \/ /\ dt \in 1..NumClkEntries
            /\ \/ /\ clk' = [i \in Clks |-> IF i < dt THEN TRUE ELSE clk[i]]
                  /\ refs' = [i \in Clks |-> IF i < dt THEN refs[i] + 1 ELSE refs[i]]
                  /\ numClks' = dt
                  /\ drv' = "probed"
               \/ \E f \in 0..dt-1, deferred \in BOOLEAN :
                  /\ AcquireRollback(dt, f)
                  /\ numClks' = 0
                  /\ drv' = IF deferred THEN "unbound" ELSE "failed"

(* gp10b_tegra_probe(): the XPU-rail and mutex set-up change nothing      *)
(* modelled; the result is that of gp10b_tegra_get_clocks().  The device  *)
(* comes up railgated.                                                    *)
Probe ==
    /\ drv = "unbound"
    /\ AcquirePlatformClocks
    /\ UNCHANGED <<enableCnt, warned, power, freqInit, freqTable, hwRates, bwVars>>

(* gp10b_tegra_scale_init(), the devfreq set-up's initscale: nothing      *)
(* without a profile or once private_data is set; otherwise a bwmgr GPU   *)
(* client is registered and stored.  A failing tegra_bwmgr_register()     *)
(* leaves private_data NULL, which changes nothing.                       *)
ScaleInit ==
    /\ drv = "probed"
    /\ HasProfile
    /\ client = "null"
    /\ client' = "live"
    /\ UNCHANGED <<drv, clk, numClks, refs, enableCnt, warned, power, freqInit,
                   freqTable, hwRates, emcFloor, psRate>>

(* tegra_bwmgr_set_emc(profile->private_data, r, TEGRA_BWMGR_SET_EMC_FLOOR) *)
(* when a profile exists: the floor of a registered client becomes r; the *)
(* bwmgr refuses a NULL client.                                           *)
SetEmcFloor(r) ==
    emcFloor' = IF HasProfile /\ client = "live" THEN r ELSE emcFloor

(* gp10b_tegra_clks_control(): under clks_lock, for every clock of        *)
(* platform->clk[0..num_clks-1] that is set, clk_prepare_enable() (the   *)
(* clocks in failed return an error, which is only logged) or              *)
(* clk_disable_unprepare() (a WARN and no change at count 0).              *)
ClksControl(enable, failed) ==
    /\ enableCnt' = [i \in Clks |->
                       IF i \notin Controlled THEN enableCnt[i]
                       ELSE IF enable
                            THEN IF i \in failed THEN enableCnt[i] ELSE enableCnt[i] + 1
                            ELSE IF enableCnt[i] > 0 THEN enableCnt[i] - 1 ELSE 0]
    /\ warned' = (warned \/ (~enable /\ \E i \in Controlled : enableCnt[i] = 0))

(* gp10b_tegra_unrailgate(): the clocks are enabled (any enable may       *)
(* fail), then the EMC floor is raised to the maximum EMC rate.           *)
Unrailgate ==
    /\ drv = "probed"
    /\ power = "railgated"
    /\ \E failed \in (IF EnableMayFail THEN SUBSET Controlled ELSE {{}}) :
         ClksControl(TRUE, failed)
    /\ SetEmcFloor(MaxEmcRate)
    /\ power' = "on"
    /\ UNCHANGED <<drv, clk, numClks, refs, freqInit, freqTable, hwRates,
                   client, psRate>>

\* Mutant: the clocks are left running when the GPU is railgated.
RailgateKeepsClocks ==
    /\ drv = "probed"
    /\ power = "on"
    /\ power' = "railgated"
    /\ UNCHANGED <<drv, clk, numClks, refs, enableCnt, warned, freqInit, freqTable,
                   hwRates, bwVars>>

(* gp10b_tegra_railgate(): the EMC floor is removed, then the clocks are  *)
(* disabled, whether or not their enable succeeded.                      *)
Railgate ==
    /\ drv = "probed"
    /\ power = "on"
    /\ SetEmcFloor(0)
    /\ ClksControl(FALSE, {})
    /\ power' = "railgated"
    /\ UNCHANGED <<drv, clk, numClks, refs, freqInit, freqTable, hwRates,
                   client, psRate>>

(* gp10b_tegra_is_railgated(): pm_runtime_status_suspended(), true only  *)
(* once the railgate callback has returned.                               *)
IsRailgated == power = "railgated"

(* Lines 400-409: the EMC rate for GPU frequency f, nothing at or below   *)
(* the lowest table rate, at most the maximum EMC rate.                    *)
EmcRate(f) ==
    LET emcScale == IF f <= freqTable[1] THEN 0 ELSE Emc3dRatio
        rate == (f * EmcBwRatio * emcScale) \div 1000
    IN IF rate > MaxEmcRate THEN MaxEmcRate ELSE rate

(* gp10b_tegra_postscale(dev, f), called by devfreq (under devfreq->lock, *)
(* one at a time) after it set the GPU clock to the table rate f: with a  *)
(* profile, a client and a GPU not railgated it computes the EMC rate.    *)
(* It holds no lock runtime PM takes, so a railgate may come before its   *)
(* set.  A postscale whose check fails changes nothing.                    *)
PostscaleCheck(f) ==
    /\ drv = "probed"
    /\ freqInit
    /\ psRate = {}
    /\ HasProfile /\ client = "live" /\ ~IsRailgated
    /\ psRate' = {EmcRate(f)}
    /\ UNCHANGED <<drv, clk, numClks, refs, enableCnt, warned, power, freqInit,
                   freqTable, hwRates, client, emcFloor>>

\* The end of gp10b_tegra_postscale(): the computed rate becomes the floor.
PostscaleSet ==
    /\ psRate # {}
    /\ \E r \in psRate : SetEmcFloor(r)
    /\ psRate' = {}
    /\ UNCHANGED <<drv, clk, numClks, refs, enableCnt, warned, power, freqInit,
                   freqTable, hwRates, client>>

(* gp10b_clk_get_freqs(), under clk_get_freq_lock: the first call builds *)
(* the table from the rates of clk[0] (PlatformFreqs) and sets            *)
(* freq_table_init_complete; later calls return the cached table.         *)
ClkGetFreqsCall ==
    /\ drv = "probed"
    /\ freqTable' = IF freqInit THEN freqTable ELSE ClkGetFreqs(ClkRates(clk[0]))
    /\ freqInit' = TRUE
    /\ UNCHANGED <<drv, clk, numClks, refs, enableCnt, warned, power, hwRates, bwVars>>

(* gp10b_tegra_scale_exit(): the client of a profile is unregistered,    *)
(* and private_data is left pointing at it.                               *)
ScaleExit ==
    client' = IF HasProfile /\ client = "live" THEN "dead" ELSE client

(* gp10b_tegra_remove(): gp10b_tegra_scale_exit(); nvhost teardown        *)
(* and mutex destruction change nothing modelled, and the clocks are left *)
(* as they are.  Devfreq is torn down before, after its last postscale.   *)
Remove ==
    /\ drv = "probed"
    /\ psRate = {}
    /\ drv' = "removed"
    /\ ScaleExit
    /\ UNCHANGED <<clk, numClks, refs, enableCnt, warned, power, freqInit,
                   freqTable, hwRates, emcFloor, psRate>>

Next ==
    \/ Probe \/ ScaleInit \/ Unrailgate \/ Railgate \/ ClkGetFreqsCall
    \/ \E f \in Range(freqTable) : PostscaleCheck(f)
    \/ PostscaleSet \/ Remove

Spec == Init /\ [][Next]_vars

-----------------------------------------------------------------------------
(* Properties.                                                             *)

PlatTypeOK ==
    /\ drv \in {"unbound", "probed", "failed", "removed"}
    /\ clk \in [Clks -> BOOLEAN]
    /\ numClks \in 0..NumClkEntries
    /\ refs \in [Clks -> Nat]
    /\ enableCnt \in [Clks -> Nat]
    /\ power \in {"railgated", "on"}
    /\ {warned, freqInit} \subseteq BOOLEAN
    /\ freqTable \in Seq(Nat)
    /\ hwRates \in HwRateSets
    /\ client \in {"null", "live", "dead"}
    /\ emcFloor \in 0..MaxEmcRate
    /\ psRate \in SUBSET (0..MaxEmcRate) /\ Cardinality(psRate) <= 1

(* Across deferred and failed probes, every clock reference the driver    *)
(* holds is in platform->clk[], exactly once, and exactly the first       *)
(* num_clks entries are set: the rollback of err_get_clock puts every     *)
(* clock it got and the loops of gp10b_tegra_clks_control() see only      *)
(* clocks the driver owns.                                                *)
ClkRefsMatchPointers ==
    \A i \in Clks :
        /\ clk[i] = (i < numClks)
        /\ refs[i] = (IF clk[i] THEN 1 ELSE 0)

(* A railgated GPU holds no enable of any clock, and an unrailgated one   *)
(* at most one per clock it owns: gp10b_tegra_railgate() disables every  *)
(* clock gp10b_tegra_unrailgate() may have enabled, even when some enable *)
(* failed.                                                                *)
ClocksOffWhenRailgated ==
    \A i \in Clks :
        enableCnt[i] <= (IF power = "on" /\ i \in Controlled THEN 1 ELSE 0)

(* No clk_disable_unprepare() of a clock whose enable count is 0: the     *)
(* clock framework WARNs on it ("already disabled"/"already unprepared"). *)
NoUnbalancedClkDisable ==
    ~warned

(* The rates devfreq's table was built from: those of clk[0] when        *)
(* gp10b_clk_get_freqs() ran (the clocks never change once probed).       *)
TableRates == ClkRates(clk[0])

(* Neither array of gp10b_clk_get_freqs() is written past its end: the    *)
(* walk fills at most GP10B_MAX_SUPPORTED_FREQS entries of                *)
(* loc_freq_table and the selection at most GP10B_NUM_SUPPORTED_FREQS of  *)
(* gp10b_freq_table, whatever the number of rates the clock has.          *)
FreqTablesFitArrays ==
    freqInit =>
        /\ Len(LocFreqTable(TableRates).tbl) <= GP10B_MAX_SUPPORTED_FREQS
        /\ Len(freqTable) \in 1..GP10B_NUM_SUPPORTED_FREQS

(* The table handed to devfreq holds rates the clock supports, strictly   *)
(* ascending from its lowest rate: the walk of clk_round_rate(prev + 1)   *)
(* never repeats or skips backwards, and the selection keeps the order.   *)
FreqTableAscendingHwRates ==
    freqInit =>
        /\ freqTable[1] = Min(TableRates)
        /\ Range(freqTable) \subseteq TableRates
        /\ \A i \in 1..Len(freqTable) - 1 : freqTable[i] < freqTable[i + 1]

(* gp10b_round_clk_rate() on the cached table gives, for every devfreq    *)
(* target, the least table rate at or above it, or the highest table     *)
(* rate: its first match is the ceiling only because the table built by  *)
(* the first gp10b_clk_get_freqs() call is ascending.                     *)
RoundClkRateIsTableCeiling ==
    freqInit =>
        \A rate \in 0..Max(TableRates) + 1 :
            LET up == {x \in Range(freqTable) : x >= rate} IN
            GpRoundClkRate(freqTable, rate) =
                IF up # {} THEN Min(up) ELSE Max(Range(freqTable))

(* The table ends with the clock's highest rate, as the comment at line   *)
(* 488 says ("add MAX freq to last"), so devfreq can always reach it.     *)
FreqTableEndsAtMaxRate ==
    freqInit => freqTable[Len(freqTable)] = Max(TableRates)

=============================================================================
