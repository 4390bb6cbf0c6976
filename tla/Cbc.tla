--------------------------------- MODULE Cbc ---------------------------------
(***************************************************************************)
(* The GA10B compbit backing store and comptag lines                       *)
(* (hal/cbc/cbc_ga10b.c).  ga10b_cbc_alloc_comptags() sizes the backing    *)
(* store for g->max_comptag_mem MB of compressible memory, has              *)
(* nvgpu_cbc_alloc() allocate it and gk20a_comptag_allocator_init() set up *)
(* the comptag-line allocator; ga10b_cbc_init() programs the CBC and       *)
(* clears every comptag line.  Both run at every power-on.                 *)
(*                                                                         *)
(* nvgpu_cbc_alloc() and gk20a_comptag_allocator_init() are outside this  *)
(* tree.  nvgpu_cbc_alloc() returns at once when the store is already     *)
(* allocated; otherwise either may fail (storeOk, allocOk).  Sizes are    *)
(* numbers, in bytes and lines; the CBC registers are the last clear      *)
(* range asked of g->ops.cbc.ctrl.                                        *)
(***************************************************************************)
EXTENDS Naturals

CONSTANTS
    MaxComptagMemValues,        \* possible g->max_comptag_mem (MB), fixed at probe
    HwMaxComptagLines,          \* ltc_ltcs_ltss_cbc_ctrl3_clear_upper_bound_init_v()
    SlicesPerLtc,               \* nvgpu_ltc_get_slices_per_ltc(g)
    GobsPerComptaglinePerSlice, \* the cbc_param2 register field
    BaseDivisor,                \* ga10b_cbc_get_base_divisor(g): 1 << alignment shift
    MaxAllocInits               \* bound on allocator inits counted

ASSUME MaxComptagMemValues \subseteq 0..(2^27 - 1)

SZ_64K == 65536

(* x - 1U in u32: 0 wraps to 0xFFFFFFFF.  TLC's integers stop at 2^31 - 1, *)
(* which stands for it: both lie above every comptag line.                *)
U32_MAX == 2^30 + (2^30 - 1)
U32MinusOne(x) == IF x = 0 THEN U32_MAX ELSE x - 1

\* max_size << 4U in u32 (bits shifted past bit 31 are lost).
ShiftLeft4U32(x) == (x % 2^28) * 16

RoundUp(x, a) == ((x + a - 1) \div a) * a

VARIABLES
    maxComptagMem,  \* g->max_comptag_mem
    cbc,            \* the fields of struct nvgpu_cbc set by alloc_comptags
    store,          \* size of cbc->compbit_store.mem, 0 when not allocated
    allocLines,     \* lines of the comptag allocator cbc->comp_tags, 0 before init
    allocInits,     \* successful gk20a_comptag_allocator_init() calls (history)
    lastClear,      \* [lo, hi] of the last nvgpu_cbc_op_clear, once asked
    cbcRet          \* what the last ga10b_cbc_alloc_comptags() returned

cbcVars == <<maxComptagMem, cbc, store, allocLines, allocInits, lastClear, cbcRet>>

CbcInit ==
    /\ maxComptagMem \in MaxComptagMemValues
    /\ cbc = [maxComptagLines |-> 0, compbitBackingSize |-> 0]
    /\ store = 0
    /\ allocLines = 0
    /\ allocInits = 0
    /\ lastClear = [asked |-> FALSE, lo |-> 0, hi |-> 0]
    /\ cbcRet = "none"

-----------------------------------------------------------------------------
\* The store size for n comptag lines (lines 111-126).
CompbitBackingSize(n) ==
    RoundUp(n * SlicesPerLtc * 1 * GobsPerComptaglinePerSlice * 2 + BaseDivisor, SZ_64K)

(* Lines 71 and 107-109: one comptag line per 64KB, at most the hardware  *)
(* clear bound.                                                           *)
ComptagLines(mem) ==
    LET n == ShiftLeft4U32(mem) IN
    IF n > HwMaxComptagLines THEN HwMaxComptagLines ELSE n

\* Mutant: the "Already initialized" early return is missing.
AlreadyInitializedNever == FALSE

\* Line 103: cbc->max_comptag_lines is set.
AlreadyInitialized == cbc.maxComptagLines # 0

\* Mutant: a failing nvgpu_cbc_alloc() is not checked.
StoreAllocFailsIgnored(storeOk) == FALSE

\* nvgpu_cbc_alloc() fails: only when the store is not yet allocated.
StoreAllocFails(storeOk) == store = 0 /\ ~storeOk

(* ga10b_cbc_alloc_comptags(): no comptag lines for no memory; nothing to *)
(* do once initialized; else size and allocate the store, init the        *)
(* allocator, and only then record the lines (so a failed allocator init  *)
(* leaves the store allocated and max_comptag_lines 0).                   *)
Ga10bCbcAllocComptags(storeOk, allocOk) ==
    LET lines == ComptagLines(maxComptagMem)
        size == CompbitBackingSize(lines)
    IN
    /\ allocInits < MaxAllocInits
    /\ IF ShiftLeft4U32(maxComptagMem) = 0 \/ AlreadyInitialized
       THEN UNCHANGED <<cbc, store, allocLines, allocInits>> /\ cbcRet' = "ok"
       ELSE /\ store' = IF store = 0 /\ storeOk THEN size ELSE store
            /\ IF StoreAllocFails(storeOk) \/ ~allocOk
               THEN UNCHANGED <<cbc, allocLines, allocInits>> /\ cbcRet' = "err"
               ELSE /\ allocLines' = lines
                    /\ allocInits' = allocInits + 1
                    /\ cbc' = [maxComptagLines |-> lines, compbitBackingSize |-> size]
                    /\ cbcRet' = "ok"
    /\ UNCHANGED <<maxComptagMem, lastClear>>

(* ga10b_cbc_init(): configure the CBC for the store, then clear comptag  *)
(* lines 0 .. max_comptag_lines - 1, computed in u32.                      *)
Ga10bCbcInit ==
    /\ lastClear' = [asked |-> TRUE, lo |-> 0, hi |-> U32MinusOne(cbc.maxComptagLines)]
    /\ UNCHANGED <<maxComptagMem, cbc, store, allocLines, allocInits, cbcRet>>

-----------------------------------------------------------------------------
CbcTypeOK ==
    /\ maxComptagMem \in MaxComptagMemValues
    /\ cbc \in [maxComptagLines : 0..HwMaxComptagLines, compbitBackingSize : Nat]
    /\ store \in Nat
    /\ allocLines \in 0..HwMaxComptagLines
    /\ allocInits \in 0..MaxAllocInits
    /\ lastClear \in [asked : BOOLEAN, lo : {0}, hi : 0..U32_MAX]
    /\ cbcRet \in {"none", "ok", "err"}

(* Once ga10b_cbc_alloc_comptags() has recorded comptag lines, they are   *)
(* the lines of the comptag allocator, and an allocated store of the      *)
(* recorded size holds their compstatus bits, although the store may have *)
(* been allocated by an earlier, failed call.                             *)
ComptagLinesBacked ==
    cbc.maxComptagLines # 0 =>
        /\ allocLines = cbc.maxComptagLines
        /\ store = cbc.compbitBackingSize
        /\ store >= cbc.maxComptagLines * SlicesPerLtc * GobsPerComptaglinePerSlice * 2

(* The comptag allocator is set up at most once over all power-ons and    *)
(* retries: a second init would forget the comptag lines handed out.      *)
ComptagAllocatorInitOnce == allocInits <= 1

=============================================================================
