----------------------------- MODULE GmmuLevels -----------------------------
(***************************************************************************)
(* Level arithmetic of the GMMU page-table walker (common/mm/gmmu.c).      *)
(*                                                                         *)
(* The chip supplies, for every level of the page-table tree and every     *)
(* page size, the bit window [lo, hi] of the GPU virtual address that      *)
(* indexes that level, and the size of one entry.  Addresses here are in   *)
(* abstract units; a page size is a power of two number of units.          *)
(***************************************************************************)
EXTENDS Naturals

CONSTANTS
    NumLevels,      \* number of levels with an update_entry function
    Levels,         \* [0..NumLevels-1 -> [hi, lo : [PgSzIdx -> Nat], entry_size : Nat]]
    GmmuPageSizes   \* vm->gmmu_page_sizes: [PgSzIdx -> page size in units]

\* enum gmmu_pgsz_gk20a: small, big, and the kernel alias of small.
GmmuPageSizeSmall  == 0
GmmuPageSizeBig    == 1
GmmuPageSizeKernel == 2
PgSzIdx == {GmmuPageSizeSmall, GmmuPageSizeBig, GmmuPageSizeKernel}

ASSUME NumLevels \in Nat \ {0}
ASSUME \A l \in 0..NumLevels-1 : \A s \in {GmmuPageSizeSmall, GmmuPageSizeBig} :
          Levels[l].lo[s] <= Levels[l].hi[s] + 1

MinOf(a, b) == IF a < b THEN a ELSE b

\* Mutant: x & a, the mask written without its - 1.
LowBitsMaskIsA(x, a) == ((x \div a) % 2) * a

\* x & (a - 1) for a power of two a: the bits of x below a.
LowBits(x, a) == x % a

\* x >> n.
ShiftR(x, n) == x \div (2 ^ n)

\* pd_entries(): 2 raised to the number of bits that index the level.
PdEntries(l, pgsz) ==
    2 ^ (Levels[l].hi[pgsz] - Levels[l].lo[pgsz] + 1)

\* Mutant: the size counts entries, not bytes.
PdSizeNoEntrySize(l, pgsz) == PdEntries(l, pgsz)

\* pd_size(): bytes of one page directory at level l.
PdSize(l, pgsz) == PdEntries(l, pgsz) * Levels[l].entry_size

\* Mutant: the mask keeps one bit above hi.
PdIndexWideMask(l, virt, pgsz) ==
    ShiftR(LowBits(virt, 2 ^ (Levels[l].hi[pgsz] + 2)), Levels[l].lo[pgsz])

\* pd_index(): mask off the bits above hi and shift the bits below lo away.
PdIndex(l, virt, pgsz) ==
    ShiftR(LowBits(virt, 2 ^ (Levels[l].hi[pgsz] + 1)), Levels[l].lo[pgsz])

\* The span of virtual address covered by one entry of level l.
PdeRange(l, pgsz) == 2 ^ Levels[l].lo[pgsz]

\* Mutant: the chunk ignores where in the entry virt starts.
ChunkSizeIgnoresOffset(l, virt, length, pgsz) == MinOf(length, PdeRange(l, pgsz))

\* __set_pd_level(): the part of length that lies in the entry of virt,
\* truncated to the next entry boundary.
ChunkSize(l, virt, length, pgsz) ==
    MinOf(length, PdeRange(l, pgsz) - LowBits(virt, PdeRange(l, pgsz)))

\* Mutant: x + a with the low bits cleared, the - 1 forgotten.
AlignNoMinusOne(x, a) == (x + a) - LowBits(x + a, a)

\* ALIGN(x, a) of the kernel: (x + a - 1) with the bits below a cleared.
Align(x, a) == (x + a - 1) - LowBits(x + a - 1, a)

\* nvgpu_align_map_length(): length rounded up to the page size in attrs.
NvgpuAlignMapLength(length, pgsz) == Align(length, GmmuPageSizes[pgsz])

=============================================================================
