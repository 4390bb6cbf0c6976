# TLA+ models of the nvgpu sources in this tree

This directory holds TLA+ models of parts of the nvgpu GPU driver in
`src/drivers/gpu/nvgpu`, with TLC configurations that check them. The GMMU
page-table code (`common/mm/gmmu.c`), the ACR bootstrap, the GP10B platform
clocks and frequency table, the GV11B copy-engine interrupts, the GA10B
compbit store and the GA10B clock-gating lists are modelled and checked.
`PROJECT.json` records the same information in machine-readable form:
components, runs, mutants, the definition-to-source map, findings and hazards.

## The system

| Part | Source | State | Operations | Interacts with |
|---|---|---|---|---|
| GMMU page tables | `common/mm/gmmu.c` | the page-directory tree of a `vm_gk20a` (`pdb`, `entries`, `mem` of every `nvgpu_gmmu_pd`), the VA allocator, mapping batches | `nvgpu_gmmu_init_page_table`, `nvgpu_gmmu_map`, `nvgpu_gmmu_map_fixed`, `nvgpu_gmmu_unmap`, `gk20a_locked_gmmu_map`, `gk20a_locked_gmmu_unmap` and the walk beneath them | the GPU, which walks the tables and caches translations in its TLB; VM-layer callers; ACR (maps its bootloader) |
| ACR bootstrap | `common/acr/acr_bootstrap.c` | the cached firmware, bootloader ucode memory and its GPU mapping, the ACR ucode memory | `nvgpu_acr_bootstrap_hs_ucode`, `acr_hs_bl_exec`, `acr_ucode_patch_sig`, `acr_wait_for_completion` | GMMU (map/unmap), the falcon (halt, mailbox) |
| GA10B compbit store | `hal/cbc/cbc_ga10b.c` | `nvgpu_cbc`: `max_comptag_lines`, backing store, comptag allocator | `ga10b_cbc_alloc_comptags`, `ga10b_cbc_init` | LTC registers, the comptag allocator |
| vGPU comptags | `common/vgpu/cbc/cbc_vgpu.c` | `gr->max_comptag_lines`, comptag allocator | `vgpu_cbc_alloc_comptags` | server-provided constants |
| GP10B platform | `os/linux/platform_gp10b_tegra.c` | `platform->clk[]`, `num_clks`, the frequency table and its init flag | clock acquisition, enable/disable on railgate, `gp10b_clk_get_freqs`, `gp10b_round_clk_rate`, probe/remove | the clock framework, devfreq |
| GV11B copy engine | `hal/ce/ce_gv11b.c` | the LCE interrupt status registers | `gv11b_ce_stall_isr`, `gv11b_ce_mthd_buffer_fault_in_bar2_fault` | error reporting, the BAR2 fault handler |
| GA10B gating lists | `hal/power_features/cg/ga10b_gating_reglist.c` | the gating registers of 30 tables | the load functions writing prod or disable values | registers, the runlists, MIG's `is_allowed_reg`, railgating |
| TU104 GR interrupts | `hal/gr/intr/gr_intr_tu104.c` | none | one register write | registers |
| zcull, unit tests | `include/nvgpu/gr/zcull.h`, `userspace/units/*` | none | declarations and test harnesses | none |

What makes the GMMU code hard to get right:

- The GPU is a second actor that the lock does not bind. A map or unmap runs
  entirely under `vm->update_gmmu_lock`, but the GPU may walk the tables and
  cache any valid translation at any moment, until a TLB invalidate. Even
  an unbatched unmap flushes L2 first and invalidates the TLB after it.
- Mapping batches defer the TLB invalidate to the end of the batch, but run
  the L2 flush at the batch's first unmap (`gpu_l2_flushed`). GPU engines
  may keep writing through a cached translation in between.
- Failures are not rolled back. An allocation may fail at any level of the
  walk. What the walk has written stays written, and the VA of a failed map
  is released.
- The resolvers are subtle. Chunk lists and scatterlists have partial first
  chunks (`space_to_skip`), physical address 0 is the unmap sentinel, and the
  SMMU and no-SMMU sysmem paths differ.
- The level arithmetic depends on the page size. `pd_index`, `pd_entries` and
  the chunk truncation all depend on it, and a table is sized by the page size
  of the first map under it.

The properties that make the component correct: an unmapped page has a zero
leaf entry; a freed buffer is not reachable by the GPU through either the
tables or its TLB; every table write lies inside its table; every PTE points
into some buffer; every returned mapping translates to its buffer; and map and
unmap implement the abstract contract in
`GmmuAbstract`.

## Modules

| Module | Models |
|---|---|
| `GmmuLevels` | The per-level arithmetic: `pd_entries`, `pd_size`, `pd_index` (mask and shift), the PDE range and chunk truncation of `__set_pd_level`, `ALIGN` and `nvgpu_align_map_length`. The chip's level table (`hi`, `lo`, `entry_size` per page size) is a constant. |
| `GmmuWalk` | The walk as pure operators over a walk state `w`. `w` holds the tree (`mem`: which directories have memory and their size; `kids`: which have a child array; `ent`: the words written into each table), the number of allocation attempts so far, the attempt that fails, and the error. `PdAllocate`, `PdAllocateChildren`, `SetPdLevel` (recursive, one loop iteration per LET step), `VidmemChunks`, `SysmemSgl` and the two resolvers, and `UpdatePageTable`. A directory is named by its path of indices from `vm->pdb`. |
| `Gmmu` | One address space, as a state machine. Variables: the tree `pd`, the VA allocator's ranges `vaAlloc`, each buffer's owner state `bufs`, the mapping `batch`, the GPU `tlb`, and `l2`, the physical addresses of dirty L2 lines. Actions: `NvgpuGmmuMap`, `NvgpuGmmuUnmap` and the VM layer's `VmMap`/`VmUnmap` all go through `LockedGmmuMap`/`LockedGmmuUnmap`; then `BatchFinish`, the GPU's `TlbFill` and `GpuWrite` (an engine writes a page of `WritePages` through its TLB entry, dirtying that line), and the owner's `FreeBuffer`/`AllocBuffer`. Each map is one atomic step because the lock is held for the whole call. An unbatched unmap is two: `LockedGmmuUnmap` (VA release, table update, L2 flush) leaves the buffer `"unmapping"`, and `UnmapTlbInvalidate` ends the call. In between the lock is held (`GmmuLockHeld` disables every other map, unmap and batch finish), but the GPU still runs. `Init` is `nvgpu_gmmu_init_page_table`. |
| `GmmuAbstract` | What map/unmap promises, without tables. `xlate` maps each GPU page to what the GPU reaches, and `live` holds the mappings that were returned and not yet unmapped. `MapOk` makes the whole range translate to the buffer and changes nothing else; `MapFailed` changes only pages outside live mappings, to what some map would have written; `Unmap` makes its range fault. |
| `MC_Gmmu` | The constants for `Gmmu`: a 32-unit address space, two levels, five buffers, and the view used by the refinement runs. Its `ASSUME` checks the arithmetic of `GmmuLevels` against reference definitions (Bitwise's `&` and `shiftR`, division and remainder) over every address below 32, both levels, both page sizes and lengths 1..9, before every run of the module: `MasksAreBitwise`, `IndexSelectsLevelBits` (`pd_index` is the entry number modulo the table size and steps by one at entry boundaries), `ChunkStaysInOneEntry` and `AlignIsLeastMultiple`. |
| `AcrBootstrap` | `nvgpu_acr_bootstrap_hs_ucode` and `acr_hs_bl_exec` as one process over the PMU VM of `Gmmu` (it `EXTENDS Gmmu`). `pc` follows the code's labels (`bl_exec`, `bl_map`, `bl_bootstrap`, `bl_wait`, `err_unmap_bl`, `err_unmap_bl_tlb` (the TLB invalidate of that unmap), `err_free_ucode`, `err_done`, back in the caller `bl_return`). The descriptor state is `acrFw`, `acrUcode`, `blFw`, and `fwRefs` counts the firmware references held. The BL ucode is the `Gmmu` buffer `BlBuf`, so its allocation, `nvgpu_gmmu_map`, `nvgpu_gmmu_unmap` and `nvgpu_dma_free` act on the shared page tables, VA allocator and TLB. The falcon is a variable: `BlBootstrap` starts it and `FalconHalt`, an environment step, may halt it with either mailbox verdict or never. `BlWait` is `acr_wait_for_completion`, which returns the halt's verdict or the timeout while the falcon still runs. The other owners of the VM (`GmmuOthers`) and the GPU TLB run between the process's steps. `AcrFairSpec` adds fairness on the process's own steps (`AcrThread`) and on the other owners' TLB invalidate, which ends a call holding the lock. |
| `PlatformFreqs` | The frequency table of `gp10b_clk_get_freqs` as operators. `LocFreqTable` is the walk of `clk_round_rate(prev_rate + 1)`, which stops when it reaches `max_rate` or `GP10B_MAX_SUPPORTED_FREQS`. `SelectFreqs` either keeps everything or keeps every `GP10B_FREQ_SELECT_STEP`-th rate and `max_rate`. `GpRoundClkRate` is `gp10b_round_clk_rate`. A clock is the set of rates it supports, and `clk_round_rate` rounds up, as the walk assumes. The header that defines the three table constants is not in this tree, so they are `CONSTANTS`. |
| `PlatformClocks` | The clock lifecycle of the platform. Variables: `platform->clk[]` (set or not), `num_clks`, the clock references held, the clock framework's enable count per clock and its WARN, the runtime-PM state, `freq_table_init_complete`, and the bandwidth-manager state: `client` (`profile->private_data`: NULL, a live bwmgr client, or an unregistered one still pointed at), `emcFloor` (the floor the bwmgr holds for that client) and `psRate` (a postscale past its check, with the rate it will set). Actions: `Probe` (`gp10b_tegra_get_clocks` with any device-tree count, any failing lookup, and deferral), `ScaleInit` (`gp10b_tegra_scale_init`), `Unrailgate` and `Railgate` (both through `ClksControl`, which is `gp10b_tegra_clks_control`, and `SetEmcFloor`, which is `tegra_bwmgr_set_emc` with the floor flag: the max EMC rate after the clocks come up, 0 before they go down), `PostscaleCheck` and `PostscaleSet` (the two halves of `gp10b_tegra_postscale`: the check of profile, client and `IsRailgated` and the computation `EmcRate`, then the set), `ClkGetFreqsCall` and `Remove` (with `ScaleExit`). It `EXTENDS PlatformFreqs`: `ClkGetFreqsCall` builds `freqTable` with `ClkGetFreqs` from the rates of `clk[0]` (`hwRates`, chosen at `Init`) on its first call and returns the cached table afterwards. |
| `MC_PlatformClocks` | The three-entry clock table, with device trees naming 0 to 4 clocks, and every clock whose rates are a non-empty subset of 1..9. The EMC constants (`EMC_BW_RATIO`, `emc3d_ratio`, the max EMC rate) are defined outside this tree; the cfg picks 100, 5 and 3 so that a postscale at the lowest table rate sets 0, the middle rates set 1 or 2 and the top rates hit the clamp. |
| `CeIsr` | The copy-engine interrupts of `ce_gv11b.c`. `status[l]` is the set of pending bits of LCE `l`'s write-1-to-clear status register, which `HwRaise` sets at any time. One interrupt thread (`pc`) runs either the stall ISR (`StallIsrRead`, reading `ce_intr`; `Gv11bCeStallIsr`, reporting and clearing the invalid-config and method-buffer faults; `Gp10bCeStallIsr`, `gp10b_ce_stall_isr` outside this tree, rereading the status and handling the blocking-pipe and launch errors) or the BAR2-fault path (`Bar2Fault`, then one `MthdBufferFaultInBar2Fault` step per LCE). `raised`, `reported` and `bar2Cleared` are history counters. |
| `MC_CeIsr` | Two LCEs, and at most one fault of each kind per LCE. |
| `Cbc` | `ga10b_cbc_alloc_comptags` and `ga10b_cbc_init`. The comptag line count is computed in u32 (`ShiftLeft4U32`, `U32MinusOne`), clamped, and the store sized and rounded to 64KB. `nvgpu_cbc_alloc` (a no-op once the store exists) and `gk20a_comptag_allocator_init` are outside this tree: each call chooses whether they succeed. Variables: the recorded `cbc` fields, the `store` size, the allocator's `allocLines`, the number of allocator inits, the last clear range and the last return value. |
| `Gating` | The 30 gating tables by their sizes, and `LoadGatingProd(l, prod)`, every `ga10b_<list>_load_gating_prod`: nothing unless the list's kind (SLCG, BLCG, ELCG) is enabled; then `PlainListWrites`, `RunlistListWrites` (one copy per active runlist) or `GrListWrites` (skipping what MIG refuses). A register holds `reset`, `prod` or `disable`. |
| `Ga10bPower` | Composes `Cbc` and `Gating` over power cycles: `PowerOn`, `CbcAllocComptags` (an error fails the power-on), `CbcInitCall`, `LoadGating` at any time while powered, and `PowerOff`, which resets the registers and keeps the software state. The power-on sequence is outside this tree. |
| `MC_Ga10bPower` | 1, 2 or 4 MB of compressible memory against a hardware bound of 48 lines (so the clamp is taken), the slice, GOB and alignment values the comments of `cbc_ga10b.c` give, the lists `slcg_gr` (two registers refused under MIG), `slcg_runlist` (two runlists), `blcg_bus` (BLCG disabled) and `elcg_ce`. |
| `MC_AcrBootstrap` | The BL ucode `bl` and one other kernel buffer `k1`, in a kernel VA region with room for one of them. |

`Gmmu` implements `GmmuAbstract` under the mapping
`xlate <- [v \in Pages |-> Translate(pd, v)]` (the hardware walk),
`live <- LiveMappings` (the buffers in state `mapped`) and
`Target <- ExpectedTarget` (where byte `skip + o` of a buffer is, as the GPU
addresses it: IOVA behind the SMMU, otherwise through the chunks).

Correspondence details:

- `SetPdLevel` computes `pd_index` and the truncated chunk. If there is a next
  level, it runs `pd_allocate_children` and `pd_allocate(next_pd)`, writes the
  PDE, and recurses with the chunk. Otherwise it writes the leaf word. It then
  advances `virt`, advances `phys` only when `phys` is non-zero (`NextPhys`),
  and reduces `length`. An error returns at once.
- `LockedGmmuMap` has two disjuncts. In the first, VA allocation fails: the
  state is unchanged and 0 is returned. In the second, the walk runs with a
  chosen failing attempt. On success, the VA is recorded and the TLB is
  invalidated, or `need_tlb_invalidate` is set in the batch. On failure, the
  VA is released and the walk's writes stay.
- `LockedGmmuUnmap` frees the VA when `va_allocated` and walks with a NULL
  `sgt`. Without a batch it then flushes L2 (`l2` becomes empty), and the
  TLB invalidate is the next step of the same call, `UnmapTlbInvalidate`. With a batch it flushes L2 only if `gpu_l2_flushed`
  is not yet set (`L2AfterUnmap`), then sets `gpu_l2_flushed` and
  `need_tlb_invalidate`. `BatchFinish` only invalidates the TLB, as the
  spec describes `nvgpu_vm_mapping_batch_finish_locked`.

Each map or unmap is one step, which is coarser than the hardware's view.
The spec (section 5) notes that writes become visible to the GPU mid-walk. A
mid-walk state differs from the final one only at the VAs of the call in
progress. No caller holds those VAs yet (a map), or their owner has stopped
using them (an unmap). So the GPU has no reason to reach them, and
`TlbFill` caches only what the tables hold between calls.

Data is abstracted: addresses are small integers in units, a PTE is a record
with its target and valid bit, and a PDE names the directory it points to.
Kind, comptags, cacheability and privilege attributes are left out, because
no property distinguishes them. `mb()` and `map_gmmu_pages`/`unmap_gmmu_pages`
change no modelled state. `nvgpu_mem_begin` is a no-op on 64-bit, so its
failure is not injected; allocation failures are.

## Runs

| Run | Config | Expect | Checks |
|---|---|---|---|
| gmmu_vm | `MC_Gmmu_vm.cfg` | pass | VM buffers `u1` (vidmem, chunks of 4+4 units, small pages, a fixed VA, skips 0/1/2, so a misaligned skip is EINVAL and an aligned one lands inside a chunk) and `u2` (a sysmem scatterlist of 4+4, big pages), with the SMMU bypassed. Maps are batched or not, and lengths may be trimmed to test alignment. Checks the same three properties plus `TypeOK` and `MappedBuffersTranslate` (every page of every returned mapping leads to the byte of its buffer, at its skip: the vidmem walk, though it covers the whole remaining length per chunk, ends right). |
| gmmu_refine_oom | `MC_Gmmu_refine.cfg` | pass | `k2` (a 1-page kernel buffer, allocated or at fixed VA 8) and `s1` (a 2-page sysmem VM buffer of two chunks, skips 0 and 1), with the allocation at attempt 1 or 2 of any call failing. A map of `s1` at VA 14 writes the PTE of 14 and then needs the level-1 table under 16, so a failed map leaves valid PTEs and the abstract `MapFailed` step really changes translations. `k2` at VA 8 shares the level-1 table of `s1`. Checks `ImplementsAbstract`. 1922 distinct states. Kernel mappings of sysmem behind the SMMU (IOVA) are checked by run acr_bootstrap. |
| gmmu_failed_map_leak | `MC_Gmmu_leak.cfg` | violation | `u1` with failures. `NoGpuPathToFreedMemory` is violated: a failed map leaves a valid PTE to a buffer its owner then frees. |
| acr_bootstrap | `MC_AcrBootstrap.cfg` | pass | Any number of bootstraps, with every outcome of the firmware requests, the DMA allocations, the BL map (the VA taken by `k1`) and the halt wait, while `k1` is mapped, unmapped, freed and reallocated. Checks `AcrTypeOK`, and `AcrHoldsWhatDescriptorNames`: between calls one firmware reference is held per cached pointer, the ACR ucode exactly while `acr_fw` is cached, and the BL ucode is mapped exactly while `hs_bl_fw` is cached. Also checks `BlFetchesBlUcode` (when the falcon is bootstrapped, every page of the BL's GPU VA leads to the BL ucode in the tables and the TLB, including a mapping reused from an earlier call) and `NoGpuPathToFreedMemory`. An engine writes through the kernel VA page 2 (`WritePages = {2}`), so stale translations are used. Under `AcrFairSpec` it checks `AcrCallReturns`: every call returns, although neither the falcon's halt nor `k1`'s owner is fair. 6222 distinct states. |
| acr_bl_map_failure | `MC_AcrBootstrap_maperr.cfg` | violation | `AcrSuccessMeansBooted` is violated: with `k1` holding the VA region, `nvgpu_gmmu_map` of the BL returns 0, and the call frees the BL, releases its firmware and returns 0. |
| plat_freq_table_max | `MC_PlatformClocks_freqmax.cfg` | violation | `FreqTableEndsAtMaxRate` is violated. For rates 1..8 the table is 1, 4, 7: the selection is full before it reaches 8. |
| plat_clocks | `MC_PlatformClocks.cfg` | pass | Probes that fail, defer and are retried, then railgate cycles in which any enable may fail, with the bwmgr client registered at any point after probe and devfreq postscales for every table rate interleaved with railgate and unrailgate. `PlatTypeOK` (`num_clks` within the table), `ClkRefsMatchPointers` (the references held are exactly `clk[0..num_clks-1]`, once each) and `ClocksOffWhenRailgated`. The frequency table, built on the first `gp10b_clk_get_freqs` for any of the 511 rate sets, with a local table of 8, a devfreq table of 3 and a step of 3: `FreqTablesFitArrays` (neither array written past its end, never empty), `FreqTableAscendingHwRates` (starts at the lowest rate, strictly ascending over supported rates) and `RoundClkRateIsTableCeiling` (`gp10b_round_clk_rate` returns the least table rate at or above every request up to the maximum rate plus one). `CHECK_DEADLOCK FALSE`: a removed device and a probe that failed without deferral get no more callbacks. |
| plat_clk_unbalanced_disable | `MC_PlatformClocks_unbalanced.cfg` | violation | `NoUnbalancedClkDisable` is violated: a clock whose enable failed is disabled at the next railgate. |
| ce_isr | `MC_CeIsr.cfg` | pass | `CeTypeOK`; `EveryFaultAccounted`: every fault raised is reported once, cleared by the BAR2 path once (method-buffer faults) or still pending, although the hardware raises faults between every read and write of both paths; `PendingFaultsCleared`: every pending bit is eventually cleared (liveness, under the fairness below). 237576 distinct states. |
| ga10b_power | `MC_Ga10bPower.cfg` | pass | Power cycles with every outcome of the store and allocator calls. `Ga10bTypeOK`; `ComptagLinesBacked`: recorded comptag lines are the allocator's and are backed by a store of the recorded size, though it may have been allocated by an earlier failed call; `ComptagAllocatorInitOnce`: the allocator is set up once over all power-ons and retries. The gating loads run at any time and are covered by `Ga10bTypeOK` only (see below). 741 distinct states. |
| gmmu_vidmem_overrun | `MC_Gmmu_overrun.cfg` | violation | `u1` with failures. `PtesReachOnlyBuffers` is violated: a skip of 2 at VA 12 writes pages 12 and 14 from the first chunk (200+2, 200+4). The walk then fails at the level-0 boundary at 16, so page 14 keeps physical 204, outside the 4-unit chunk at 200. |
| gmmu_l2_window | `MC_Gmmu_l2window.cfg` | violation | `u1` and `u2` with writes to pages 12 and 24. `NoDirtyL2LineOfFreedMemory` is violated. The trace: map `u1`, TLB fill, unbatched unmap up to its L2 flush, write to 200 through the cached translation, the unmap's TLB invalidate, free `u1` with line 200 still dirty. A batch gives the same with the window stretched to the batch finish. |

Findings (details in `PROJECT.json`):

1. `gk20a_locked_gmmu_map` releases the VA of a failed map but not its PTEs.
   The spec asks callers to unmap a failed range before reuse, but the caller
   is never told the VA. A buffer freed after a failed map stays reachable by
   the GPU.
2. `__nvgpu_gmmu_update_page_table_vidmem` passes `length`, not
   `chunk_length`, to `__set_pd_level`. This is harmless when the walk
   completes (`MappedBuffersTranslate` in run gmmu_vm), but a walk cut short leaves PTEs beyond
   the chunk (run gmmu_vidmem_overrun).
3. `acr_hs_bl_exec` reaches `err_free_ucode` after a failed BL map with
   `err` still 0, so `nvgpu_acr_bootstrap_hs_ucode` reports success although
   the falcon was never bootstrapped (run acr_bl_map_failure). Combined with
   finding 1, a BL map that fails for lack of page-table memory also leaves
   PTEs to the BL ucode it then frees.
4. `gp10b_clk_get_freqs` promises in a comment to add the maximum rate
   last. The selection loop stops once `GP10B_NUM_SUPPORTED_FREQS` rates are
   taken, so on a clock with more rates than that allows, the table misses
   its maximum (run plat_freq_table_max).
5. `gp10b_tegra_clks_control` ignores a failed `clk_prepare_enable`, and the
   next railgate disables that clock anyway. This is an unbalanced disable
   that the clock framework WARNs about (run plat_clk_unbalanced_disable).
6. An unmap flushes L2 (gmmu.c:836) before it invalidates the TLB (837),
   as the spec (section 4) asks, "so no stale dirty line is evicted into
   now-unmapped physical memory". Between the two the GPU still translates
   through its TLB and can dirty a line of the buffer, which is evicted into
   memory whose owner has freed it once the call returns (run
   gmmu_l2_window). A batch flushes at its first unmap and invalidates at
   its finish, so its window is longer. The order protects freed memory
   only if the engines using a buffer are idle before it is unmapped, which
   neither the spec nor this code states or checks.

Bounds and why they are enough. Two levels are the fewest that have both a
PDE level and a PTE level. Level 0 covers 8 units per entry, so the
small-page region 12..19 crosses a level-0 boundary, and a map there needs a
second directory mid-walk: that is where a partial failure bites. Small and
big pages split at level 1, so `pd_index` widths differ. Each buffer has two
chunks, so a resolver has a first chunk, a skip into it or past it, and a
next chunk. Allocation failure at attempts 1 and 2 covers failing
`pd_allocate_children` and `pd_allocate`, in the first and in a later
level-0 entry. Physical addresses of different buffers are disjoint, so a
translation identifies the buffer it leads to.

The ACR configuration has a single kernel VA page, so the BL map fails
whenever `k1` is mapped, and the BL is mapped at the VA `k1` had after `k1`
is unmapped. Every outcome of every call is an input, so each error label is
reached from both a fresh load and a cached BL. Allocation failures inside
the page-table walk are off (`MaxFail = 0`) in this run, because with them
`NoGpuPathToFreedMemory` fails by finding 1.

The copy-engine bound: two LCEs let the BAR2 loop pass an LCE and
continue, and let one LCE's stall ISR run while the other is pending; one
fault per kind and LCE lets every kind be raised between every pair of
steps of both paths (two per kind did not finish in 30 minutes).

The GA10B bounds: the three memory sizes give lines below, at and (clamped)
above the hardware bound; the store and the allocator each fail or succeed
at every call, so a store allocated by a call whose allocator init failed is
reused by the retry. The four lists reach every kind of loader (plain,
per-runlist, MIG-filtered) and both an enabled and a disabled kind. The
count of allocator inits is capped at 2 (`MaxAllocInits`), one more than the
property allows.

The platform bounds: three clocks are the table's size, and device trees
naming 0 to 4 clocks reach both error checks. Any subset of the clocks may
fail to enable. In the frequency check, a local table of 8, a devfreq table
of 3 and a step of 3 keep the ratios of the code's constants (the selection
keeps fewer rates than the walk can find). Rates up to 9 reach both ways the
maximum can be missed: a walk that finds the maximum after the selection is
full, and a walk that fills its table first.

The EMC floor race (hazard `platform_gp10b_tegra.c:397`). `gp10b_tegra_postscale`
checks `is_railgated` and later sets the floor, holding no lock that
runtime PM takes, and the runtime-PM status reads "suspended" only after
the railgate callback has returned. The model has the check and the set as
two steps, and it reaches the race. With the invariant "a railgated GPU
holds no EMC floor", TLC gives an 8-state trace: probe, scale init,
unrailgate (floor 3), the frequency table, a postscale check at a middle table
rate (EMC rate 1), railgate (floor 0), and the postscale's set (floor 1 on a railgated GPU).
No run checks that invariant. Whether devfreq can call postscale while the
runtime-suspend callback runs is decided in `scale.c`, outside this tree,
so the trace is a possible bug, not a finding.

Each pass run reaches at least 741 distinct states. Between them,
the pass runs take every action of every module and every disjunct of
their next-state relations: in `Gmmu`, VA exhaustion, EINVAL, ENOMEM, batch
and no batch, and fixed and allocated VAs; in `CeIsr`, both paths on both
LCEs; in `Ga10bPower`, failed and retried power-ons and loads of every kind
of list.

The refinement runs use `VIEW WithoutTlb`. Only `TlbFill` and `GpuWrite`
read `tlb`. `TlbFill` writes nothing else, and with `WritePages` empty
`GpuWrite` never fires. So states that differ only in the TLB have the same
futures for a property that does not mention it. `WritePages` is empty in
the other Gmmu runs except gmmu_vm, where an engine writes page 24 (the
first big page of `u2`, whose only target is 300) so that `GpuWrite` fires
there too. gmmu_vm does not check `NoDirtyL2LineOfFreedMemory`, because
finding 6 breaks it there. The view stays sound with the unmap in two
steps: `UnmapTlbInvalidate` and a successful unbatched map overwrite `tlb`
without reading it.

Every property of every pass run has a mutant in `PROJECT.json`: a plausible
bug in one mapped definition, such as a missing `- 1` in a mask, phys 0
advanced, no TLB invalidate, a table sized for the wrong page size, or the
skip dropped. TLC finds the property violated under the run's own
configuration.

Fairness. Runs ce_isr and acr_bootstrap check liveness. In ce_isr, `Fairness` is weak fairness
on the interrupt thread's continuing steps (`IntrThread`): once the ISR or
the BAR2 loop has started, it runs to its end, as interrupt code does. It
adds strong fairness on `StallIsrRead(l)` for each LCE, because the stall
line of an LCE stays asserted while a bit is pending and the stall ISR
services every pending unit each time it runs, so an LCE pending again and
again is eventually serviced. The hardware and BAR2 faults are environment
and carry no fairness. Elsewhere there is none. The GMMU code has no waits
of its own: every call runs to completion under the
lock, so `AcrFairSpec` makes another owner's `UnmapTlbInvalidate` weakly
fair. The BL map and unmap take the lock, which the other owner may take
again and again. A kernel mutex hands itself to a waiter that keeps losing
it, so these two steps are strongly fair. The ACR's only wait, for the falcon's halt, is bounded by
`ACR_COMPLETION_TIMEOUT_MS`, so the thread inside
`nvgpu_acr_bootstrap_hs_ucode` is never blocked for good. `AcrFairSpec`
therefore puts weak fairness on its steps (`AcrThread`), and on nothing
else of the falcon or of the other owners' calls. The falcon may run forever and `k1` may stay mapped forever, and
`AcrCallReturns` still holds. A wait without its timeout (the mutant) leaves
the call stuck behind a falcon that never halts.

## Not modelled, and why

- The VA allocator (`__nvgpu_vm_alloc_va`/`__nvgpu_vm_free_va`), the VM layer
  callers, `nvgpu_vm_mapping_batch_finish_locked`, the chip's `update_entry`
  encoders, and the TLB are outside this tree. They are modelled from their
  contracts (marked `spec_modelled` in the map). The model treats freeing a
  VA that was never allocated as a no-op, and assumes a free succeeds.
- The L2 is a set of dirty line addresses, one line per page. Reads, clean
  lines, eviction and the write-back data are left out.
- The mixed page-size case under one PDE is not reached, because the VA
  regions keep small and big pages in different level-0 entries, as the VM
  layer's regions do.
- In the ACR, the firmware images, the signature patch (`acr_ucode_patch_sig`
  only writes words of the image and always returns 0; its loop runs
  `sizeof(*p_patch_loc) >> 2` = 1 time), WPR patching, the BL DMEM
  descriptor and the falcon's register programming are data. The ACR ucode
  buffer from `nvgpu_dma_alloc_map_sys` is a flag, because that function is
  outside this tree.
- In the platform file, the PMU load query of `prescale`, the reset-control
  calls, the secure-buffer set-up of `late_probe` and the rates of clocks
  other than the GPC clock are not modelled. The bwmgr is modelled by what
  the driver asks of it: a registered client's floor is the last rate set,
  and a request through a NULL client is refused. Devfreq (`scale.c`,
  outside this tree) calls postscale one at a time, only with rates of the
  table, and is torn down before `Remove`; `Remove` therefore waits for a
  postscale in flight. The build modelled has `CONFIG_TEGRA_BWMGR` and a
  scale profile (`HasProfile = TRUE`). Remove ends the
  device, because what happens to the clocks of the static
  `gp10b_tegra_platform` on a rebind is decided outside this tree.
- `gp10b_ce_stall_isr` is outside this tree; it is modelled from what
  `gv11b_ce_stall_isr` leaves to it (the blocking-pipe and launch errors).
  `gv11b_ce_get_num_pce` is a population count and changes nothing.
- `nvgpu_cbc_alloc`, `gk20a_comptag_allocator_init`, the CBC's
  `cbc_configure` and `ctrl`, and the power-on sequence calling them are
  outside this tree. `g->max_comptag_mem` is set there too, so the run takes
  sizes that give comptag lines; a size of 0 (or a multiple of 2^28 MB, which
  the u32 shift wraps to 0) would make `ga10b_cbc_init` clear lines
  0..0xFFFFFFFF; the model computes that bound (`U32MinusOne`, TLC integers
  stop at 2^31 - 1, which stands for 0xFFFFFFFF), but with the sizes of the
  run every clear stays within the lines, and no property is stated over it. The clear at every
  power-on, also of lines live buffers hold, is listed as a hazard.
- `vgpu_cbc_alloc_comptags` takes a `struct gr_gk20a`, which this tree does
  not define, and nothing here calls it.
- The gating register addresses and values are data: no two tables share an
  address, and the runlist PRI bases come from outside this tree. The
  loaders are modelled (`LoadGatingProd`), but with the data left out they
  only write their lists, and which registers `is_allowed_reg` refuses under
  MIG, and what they must hold, is decided outside this tree, so no property
  beyond the type is checked over them.
- `gr_intr_tu104.c` is a single register write, `zcull.h` has declarations
  only, and the unit tests exercise code that is not in this tree.

## Plan for the remaining parts

1. The EMC floor race: once the serialisation of devfreq with runtime PM
   is known, a run checking that a railgated GPU holds no EMC floor, as a
   violation or as a pass.
2. The failure of `__nvgpu_vm_free_va` in `gk20a_locked_gmmu_unmap`
   (hazard `gmmu.c:823`), once the VA allocator's contract allows it.
