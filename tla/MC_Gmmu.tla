------------------------------- MODULE MC_Gmmu -------------------------------
(***************************************************************************)
(* A small address space for Gmmu.                                         *)
(*                                                                         *)
(* 32 address units; small pages are 2 units, big pages 4.  Level 0 is    *)
(* indexed by bit 3 and 4 (8 units per entry, both page sizes), level 1   *)
(* by bits 1..2 for small pages and bit 2 for big pages, so a level-1     *)
(* table holds 4 small or 2 big PTEs.  The VA regions:                    *)
(*    2..7   kernel mappings (nvgpu_gmmu_map); VA 0 is never handed out,  *)
(*           since gk20a_locked_gmmu_map() reads a returned 0 as failure  *)
(*    8..11  a fixed kernel VA (nvgpu_gmmu_map_fixed)                      *)
(*   12..19  small-page VM mappings, across the level-0 boundary at 16     *)
(*   24..31  big-page VM mappings                                         *)
(* Physical addresses of different buffers never coincide, so a stale    *)
(* translation is always recognisable as a path to one buffer.            *)
(***************************************************************************)
EXTENDS Gmmu, Bitwise

MCLevels ==
    0 :> [hi |-> (0 :> 4 @@ 1 :> 4), lo |-> (0 :> 3 @@ 1 :> 3), entry_size |-> 8] @@
    1 :> [hi |-> (0 :> 2 @@ 1 :> 2), lo |-> (0 :> 1 @@ 1 :> 2), entry_size |-> 8]

MCPageSizes == 0 :> 2 @@ 1 :> 4 @@ 2 :> 2

MCVaPgsz == [v \in 0..31 |-> IF v < 24 THEN GmmuPageSizeSmall ELSE GmmuPageSizeBig]

MCAllocVa ==
    GmmuPageSizeKernel :> 2..7 @@ GmmuPageSizeSmall :> 12..19 @@ GmmuPageSizeBig :> 24..31

\* k1: a 2-page kernel buffer in two sysmem pages, k2: a 1-page kernel
\* buffer at a fixed VA, u1: a 4-page vidmem buffer of two chunks,
\* u2: a 2-big-page sysmem buffer of two chunks, s1: a 2-small-page
\* sysmem buffer of two chunks, which a map at VA 14 lays across the
\* level-0 boundary at 16.
MCBacking ==
    "k1" :> [aperture |-> ApertureSysmem, iova |-> 100,
             chunks |-> <<[base |-> 40, len |-> 2], [base |-> 60, len |-> 2]>>] @@
    "k2" :> [aperture |-> ApertureSysmem, iova |-> 120,
             chunks |-> <<[base |-> 80, len |-> 2]>>] @@
    "u1" :> [aperture |-> ApertureVidmem, iova |-> 0,
             chunks |-> <<[base |-> 200, len |-> 4], [base |-> 220, len |-> 4]>>] @@
    "u2" :> [aperture |-> ApertureSysmem, iova |-> 400,
             chunks |-> <<[base |-> 300, len |-> 4], [base |-> 320, len |-> 4]>>] @@
    "s1" :> [aperture |-> ApertureSysmem, iova |-> 600,
             chunks |-> <<[base |-> 500, len |-> 2], [base |-> 520, len |-> 2]>>]

MCBufPgsz ==
    "k1" :> GmmuPageSizeKernel @@ "k2" :> GmmuPageSizeKernel @@
    "u1" :> GmmuPageSizeSmall @@ "u2" :> GmmuPageSizeBig @@ "s1" :> GmmuPageSizeSmall

MCFixedVa == "k1" :> {} @@ "k2" :> {8} @@ "u1" :> {12} @@ "u2" :> {} @@ "s1" :> {}

MCKernelBufs == {"k1", "k2"}

\* States that differ only in the GPU TLB.  No action but TlbFill and
\* GpuWrite reads tlb, TlbFill writes nothing else, and with WritePages
\* empty GpuWrite never fires, so for a property that does not mention
\* tlb such states have the same futures.
WithoutTlb == <<pd, vaAlloc, bufs, batch, l2>>

-----------------------------------------------------------------------------
(* The level arithmetic of GmmuLevels against reference definitions       *)
(* written with division, remainder and the bit operations of Bitwise,    *)
(* over every address, level, page size and length up to MCMaxLength.     *)
(* TLC evaluates the ASSUME below before every run of this module.        *)

MCMaxLength == 9

(* The masks and shifts of gmmu.c, as used with power-of-two operands, are *)
(* the bitwise operations of the C code: x & (2^k - 1) and x >> k agree   *)
(* with Bitwise for every address and every bit position of the levels.  *)
MasksAreBitwise(l, virt, pgsz) ==
    \A k \in 0..Levels[l].hi[pgsz] + 1 :
        /\ LowBits(virt, 2 ^ k) = virt & (2 ^ k - 1)
        /\ ShiftR(virt, k) = shiftR(virt, k)

(* pd_index() selects exactly the address bits lo..hi: it equals the      *)
(* address divided by the entry span, modulo the number of entries, so    *)
(* every index it yields lies inside a table of pd_entries() entries, and *)
(* crossing an entry boundary moves to the next entry (wrapping at the    *)
(* end of the table).                                                     *)
IndexSelectsLevelBits(l, virt, pgsz) ==
    /\ PdIndex(l, virt, pgsz) = (virt \div PdeRange(l, pgsz)) % PdEntries(l, pgsz)
    /\ PdIndex(l, virt, pgsz) < PdEntries(l, pgsz)
    /\ virt + 1 < VaUnits =>
         PdIndex(l, virt + 1, pgsz) =
           IF (virt + 1) % PdeRange(l, pgsz) = 0
           THEN (PdIndex(l, virt, pgsz) + 1) % PdEntries(l, pgsz)
           ELSE PdIndex(l, virt, pgsz)

(* The chunk __set_pd_level() handles in one loop iteration is non-empty, *)
(* no longer than what is left, stays inside the entry of its first       *)
(* address, and either ends at that entry's boundary or consumes the rest *)
(* of the length.                                                         *)
ChunkStaysInOneEntry(l, virt, pgsz, length) ==
    LET c == ChunkSize(l, virt, length, pgsz) IN
    /\ 1 <= c /\ c <= length
    /\ (virt + c - 1) \div PdeRange(l, pgsz) = virt \div PdeRange(l, pgsz)
    /\ c = length \/ (virt + c) % PdeRange(l, pgsz) = 0

(* nvgpu_align_map_length() rounds up to the least multiple of the page   *)
(* size, so a map of page_size + 1 walks two pages, never one.            *)
AlignIsLeastMultiple(pgsz, length) ==
    LET ps == GmmuPageSizes[pgsz]
        a  == NvgpuAlignMapLength(length, pgsz)
    IN  /\ a % ps = 0
        /\ a >= length
        /\ a - length < ps

ASSUME \A l \in 0..NumLevels-1, virt \in 0..VaUnits-1,
         pgsz \in {GmmuPageSizeSmall, GmmuPageSizeBig}, length \in 1..MCMaxLength :
    /\ MasksAreBitwise(l, virt, pgsz)
    /\ IndexSelectsLevelBits(l, virt, pgsz)
    /\ ChunkStaysInOneEntry(l, virt, pgsz, length)
    /\ AlignIsLeastMultiple(pgsz, length)

=============================================================================
