-------------------------------- MODULE Gating --------------------------------
(***************************************************************************)
(* The GA10B clock-gating register lists                                   *)
(* (hal/power_features/cg/ga10b_gating_reglist.c).  Each list is a table   *)
(* of {addr, prod, disable}; its loader ga10b_<list>_load_gating_prod(g,   *)
(* prod) writes, when the gating kind is enabled (NVGPU_GPU_CAN_SLCG,      *)
(* _BLCG or _ELCG), the prod or the disable value of every entry.  The     *)
(* runlist lists write each entry once per active runlist, at the         *)
(* runlist's PRI base; the gr lists skip, under MIG, the registers         *)
(* is_allowed_reg() refuses.                                               *)
(*                                                                         *)
(* A register is <<list, entry, runlist>> (runlist 0 outside the runlist   *)
(* lists) and holds "reset", "prod" or "disable": the addresses and the   *)
(* values are data and are left out.                                      *)
(***************************************************************************)
EXTENDS Naturals, FiniteSets, TLC

CONSTANTS
    GatingCaps,     \* the enabled kinds among "slcg", "blcg", "elcg"
    NumRunlists,    \* g->fifo.num_runlists
    MigEnabled,     \* NVGPU_SUPPORT_MIG, with is_allowed_reg set
    MigDisallowed,  \* <<list, entry>> of gr registers is_allowed_reg() refuses
    LoadedLists     \* the lists whose loaders the model calls

(* The SLCG tables, lines 41-206: the number of entries of each (the     *)
(* addresses and the prod and disable values are left out).              *)
SlcgTables ==
    [slcg_bus |-> 1, slcg_ce2 |-> 1, slcg_chiplet |-> 2, slcg_fb |-> 2,
     slcg_runlist |-> 1, slcg_gr |-> 53, slcg_ltc |-> 2, slcg_perf |-> 4,
     slcg_priring |-> 1, slcg_pmu |-> 3, slcg_therm |-> 1, slcg_xbar |-> 5,
     slcg_hshub |-> 3, slcg_timer |-> 1, slcg_rs_ctrl_fbp |-> 1,
     slcg_rs_ctrl_gpc |-> 1, slcg_rs_ctrl_sys |-> 1, slcg_rs_fbp |-> 2,
     slcg_rs_gpc |-> 2, slcg_rs_sys |-> 1]

(* The BLCG and ELCG tables, lines 209-321.                                *)
BlcgTables ==
    [blcg_bus |-> 1, blcg_ce |-> 1, blcg_fb |-> 3, blcg_runlist |-> 1,
     blcg_gr |-> 55, blcg_ltc |-> 4, blcg_pmu |-> 1, blcg_xbar |-> 5,
     blcg_hshub |-> 3, elcg_ce |-> 1]

GatingSize == SlcgTables @@ BlcgTables
GatingLists == DOMAIN GatingSize

(* The capability each loader tests before writing, for instance         *)
(* NVGPU_GPU_CAN_ELCG in ga10b_elcg_ce_load_gating_prod() (lines 1147-1162). *)
CapOf(l) ==
    CASE l \in DOMAIN SlcgTables -> "slcg"
      [] l \in {"elcg_ce"}       -> "elcg"
      [] OTHER                   -> "blcg"

RunlistLists == {"slcg_runlist", "blcg_runlist"}
GrLists == {"slcg_gr", "blcg_gr"}

ASSUME LoadedLists \subseteq GatingLists
ASSUME MigDisallowed \subseteq {<<l, i>> : l \in GrLists, i \in 0..54}

Entries(l) == 0..GatingSize[l] - 1
RunlistsOf(l) == IF l \in RunlistLists THEN 0..NumRunlists - 1 ELSE {0}
RegsOf(l) == {<<l, i, j>> : i \in Entries(l), j \in RunlistsOf(l)}
Regs == UNION {RegsOf(l) : l \in LoadedLists}

Val(prod) == IF prod THEN "prod" ELSE "disable"

VARIABLE gregs   \* gregs[r]: what register r holds

gatingVars == <<gregs>>

GatingReset == gregs' = [r \in Regs |-> "reset"]

GatingInit == gregs = [r \in Regs |-> "reset"]

-----------------------------------------------------------------------------
\* Mutant: the loop runs while i <= size.
PlainListWritesPastEnd(l, prod) ==
    [r \in {<<l, i, 0>> : i \in 0..GatingSize[l]} |-> Val(prod)]

(* The plain loaders, for instance ga10b_slcg_ltc_load_gating_prod()     *)
(* (lines 506-521): one write per entry.                                   *)
PlainListWrites(l, prod) == [r \in RegsOf(l) |-> Val(prod)]

(* ga10b_slcg_runlist_load_gating_prod() (lines 432-464; blcg alike): each *)
(* entry at the PRI base of each of the f->num_runlists active runlists.   *)
RunlistListWrites(l, prod) ==
    [r \in {<<l, i, j>> : i \in Entries(l), j \in 0..NumRunlists - 1} |-> Val(prod)]

(* ga10b_slcg_gr_load_gating_prod() (lines 466-504; blcg alike): under MIG *)
(* an entry is_allowed_reg() refuses is skipped.                           *)
GrListWrites(l, prod) ==
    [r \in {<<l, i, 0>> : i \in {e \in Entries(l) :
                ~(MigEnabled /\ <<l, e>> \in MigDisallowed)}} |-> Val(prod)]

ListWrites(l, prod) ==
    CASE l \in RunlistLists -> RunlistListWrites(l, prod)
      [] l \in GrLists      -> GrListWrites(l, prod)
      [] OTHER              -> PlainListWrites(l, prod)

(* ga10b_<list>_load_gating_prod(g, prod), for instance                   *)
(* ga10b_blcg_bus_load_gating_prod() (lines 884-899): nothing unless the   *)
(* list's kind is enabled.                                                 *)
LoadGatingProd(l, prod) ==
    gregs' = IF CapOf(l) \in GatingCaps THEN ListWrites(l, prod) @@ gregs ELSE gregs

-----------------------------------------------------------------------------
GatingTypeOK == gregs \in [Regs -> {"reset", "prod", "disable"}]

=============================================================================
