------------------------------ MODULE GmmuWalk ------------------------------
(***************************************************************************)
(* The page-table update engine of common/mm/gmmu.c as pure operators.    *)
(*                                                                         *)
(* A walk state w is the page-directory tree plus the bookkeeping of one  *)
(* call of __nvgpu_gmmu_update_page_table():                               *)
(*   w.mem    [path -> pd_size]     pd->mem: the tables that have memory   *)
(*   w.kids   [path -> num_entries] pd->entries: the child arrays          *)
(*   w.ent    [path -> [index -> entry]] the words written into each table *)
(*   w.allocs allocation attempts made so far in this call                 *)
(*   w.failAt the attempt that runs out of memory (0: none does)           *)
(*   w.err    "ok", "ENOMEM" or "EINVAL"                                   *)
(* A page directory is named by its path from the root (vm->pdb = <<>>),  *)
(* the path of pd->entries[i] being Append(path, i).  The caller holds    *)
(* vm->update_gmmu_lock for the whole call, so a call is one atomic step. *)
(***************************************************************************)
EXTENDS GmmuLevels, Sequences, SequencesExt, Functions, TLC

CONSTANTS
    BypassSmmu      \* g->mm.bypass_smmu: sysmem is addressed without the IOMMU

\* enum nvgpu_aperture values that select the resolver.
ApertureSysmem  == "sysmem"
ApertureVidmem  == "vidmem"
ApertureInvalid == "invalid"

\* Table words.  A zeroed word makes any access through it fault.
Zero == [kind |-> "zero"]
Pte(pa, valid) == [kind |-> "pte", pa |-> pa, valid |-> valid]
Pde(pd) == [kind |-> "pde", pd |-> pd]

\* The sg_table passed by an unmap: NULL.
NullSgt == [aperture |-> ApertureInvalid, iova |-> 0, chunks |-> <<>>]

ZeroTable(n) == [i \in 0..n-1 |-> Zero]

OutOfMemory(w) == [w EXCEPT !.allocs = @ + 1, !.err = "ENOMEM"]

NextAllocFails(w) == w.allocs + 1 = w.failAt

\* Mutant: the table is sized for big pages whatever page size it serves.
PdAllocateBigSize(w, pd, l, pgsz) ==
    IF pd \in DOMAIN w.mem THEN w
    ELSE IF NextAllocFails(w) THEN OutOfMemory(w)
    ELSE [w EXCEPT !.allocs = @ + 1,
                   !.mem    = (pd :> PdSize(l, GmmuPageSizeBig)) @@ @,
                   !.ent    = (pd :> ZeroTable(PdEntries(l, pgsz))) @@ @]

\* Mutant: the entries are set up but pd->mem is never recorded.
PdAllocateNoMem(w, pd, l, pgsz) ==
    IF pd \in DOMAIN w.mem THEN w
    ELSE IF NextAllocFails(w) THEN OutOfMemory(w)
    ELSE [w EXCEPT !.allocs = @ + 1,
                   !.ent    = (pd :> ZeroTable(PdEntries(l, pgsz))) @@ @]

(* pd_allocate(): nothing to do if the table already has memory;          *)
(* otherwise allocate pd_size() zeroed bytes for it.                      *)
PdAllocate(w, pd, l, pgsz) ==
    IF pd \in DOMAIN w.mem THEN w
    ELSE IF NextAllocFails(w) THEN OutOfMemory(w)
    ELSE [w EXCEPT !.allocs = @ + 1,
                   !.mem    = (pd :> PdSize(l, pgsz)) @@ @,
                   !.ent    = (pd :> ZeroTable(PdEntries(l, pgsz))) @@ @]

\* Mutant: pd->entries is allocated afresh on every call.
PdAllocateChildrenAlways(w, l, pd, pgsz) ==
    IF NextAllocFails(w) THEN OutOfMemory(w)
    ELSE LET Kept(q) == ~IsStrictPrefix(pd, q) IN
         [w EXCEPT !.allocs = @ + 1,
                   !.kids   = (pd :> PdEntries(l, pgsz)) @@ RestrictDomain(@, Kept),
                   !.mem    = RestrictDomain(@, Kept),
                   !.ent    = RestrictDomain(@, Kept)]

(* pd_allocate_children(): nothing to do if pd->entries exists; otherwise *)
(* a fresh zeroed array of pd_entries() child directories, none of which  *)
(* has memory yet (anything below pd is unreachable from then on).        *)
PdAllocateChildren(w, l, pd, pgsz) ==
    IF pd \in DOMAIN w.kids THEN w
    ELSE IF NextAllocFails(w) THEN OutOfMemory(w)
    ELSE LET Kept(q) == ~IsStrictPrefix(pd, q) IN
         [w EXCEPT !.allocs = @ + 1,
                   !.kids   = (pd :> PdEntries(l, pgsz)) @@ RestrictDomain(@, Kept),
                   !.mem    = RestrictDomain(@, Kept),
                   !.ent    = RestrictDomain(@, Kept)]

\* nvgpu_pde_phys_addr(): what a directory entry holds to point at next_pd.
PdePhysAddr(pd) == Pde(pd)

\* Mutant: a PTE is written whatever the physical address.
LeafEntryAlwaysPte(phys, attrs) == Pte(phys, attrs.valid)

(* The leaf update_entry of the chip (gp10b update_gmmu_pte_locked): a    *)
(* zero physical address writes a zero word, any other one a PTE.         *)
LeafEntry(phys, attrs) ==
    IF phys = 0 THEN Zero ELSE Pte(phys, attrs.valid)

\* Mutant: the physical address advances even when it is 0.
NextPhysAlways(phys, chunk) == phys + chunk

\* The loop tail of __set_pd_level(): phys only advances when it is not 0,
\* so an unmap keeps writing zero words.
NextPhys(phys, chunk) == IF phys # 0 THEN phys + chunk ELSE 0

(* __set_pd_level(): program [virt, virt + length) at level lvl of table  *)
(* pd, one entry of this level per loop iteration, recursing into the     *)
(* next level when that level has an update_entry.  The first error       *)
(* returns at once; nothing written before it is undone.                  *)
RECURSIVE SetPdLevel(_, _, _, _, _, _, _)
SetPdLevel(w, pd, lvl, phys, virt, length, attrs) ==
    IF length = 0 THEN w
    ELSE
    LET pgsz    == attrs.pgsz
        pdIdx   == PdIndex(lvl, virt, pgsz)
        chunk   == ChunkSize(lvl, virt, length, pgsz)
        hasNext == lvl + 1 < NumLevels
        nextPd  == Append(pd, pdIdx)
        wKids   == IF hasNext THEN PdAllocateChildren(w, lvl, pd, pgsz) ELSE w
        wNext   == IF hasNext /\ wKids.err = "ok"
                   THEN PdAllocate(wKids, nextPd, lvl + 1, pgsz) ELSE wKids
        target  == IF hasNext THEN PdePhysAddr(nextPd) ELSE LeafEntry(phys, attrs)
        wEntry  == [wNext EXCEPT !.ent[pd] = (pdIdx :> target) @@ @]
        wBelow  == IF hasNext
                   THEN SetPdLevel(wEntry, nextPd, lvl + 1, phys, virt, chunk, attrs)
                   ELSE wEntry
    IN  IF wNext.err # "ok" THEN wNext
        ELSE IF wBelow.err # "ok" THEN wBelow
        ELSE SetPdLevel(wBelow, pd, lvl,
                        NextPhys(phys, chunk),
                        virt + chunk, length - chunk, attrs)

\* Mutant: every chunk is programmed from its base, space_to_skip dropped.
RECURSIVE VidmemChunksNoSkip(_, _, _, _, _, _)
VidmemChunksNoSkip(w, chunks, skip, virt, length, attrs) ==
    IF chunks = <<>> THEN w
    ELSE
    LET c == Head(chunks) IN
    IF skip # 0 /\ skip >= c.len
    THEN VidmemChunksNoSkip(w, Tail(chunks), skip - c.len, virt, length, attrs)
    ELSE LET chunkLength == MinOf(length, c.len - skip)
             w1 == SetPdLevel(w, <<>>, 0, c.base, virt, length, attrs)
         IN  IF w1.err # "ok" \/ length - chunkLength = 0 THEN w1
             ELSE VidmemChunksNoSkip(w1, Tail(chunks), 0, virt + chunkLength,
                                     length - chunkLength, attrs)

(* The chunk loop of __nvgpu_gmmu_update_page_table_vidmem(): whole       *)
(* chunks are skipped while space_to_skip covers them; every other chunk  *)
(* is programmed starting at chunk->base + space_to_skip, for the whole   *)
(* remaining length (the code passes length, not chunk_length).           *)
RECURSIVE VidmemChunks(_, _, _, _, _, _)
VidmemChunks(w, chunks, skip, virt, length, attrs) ==
    IF chunks = <<>> THEN w
    ELSE
    LET c == Head(chunks) IN
    IF skip # 0 /\ skip >= c.len
    THEN VidmemChunks(w, Tail(chunks), skip - c.len, virt, length, attrs)
    ELSE LET chunkLength == MinOf(length, c.len - skip)
             w1 == SetPdLevel(w, <<>>, 0, c.base + skip, virt, length, attrs)
         IN  IF w1.err # "ok" \/ length - chunkLength = 0 THEN w1
             ELSE VidmemChunks(w1, Tail(chunks), 0, virt + chunkLength,
                               length - chunkLength, attrs)

(* __nvgpu_gmmu_update_page_table_vidmem().                               *)
UpdatePageTableVidmem(w, sgt, skip, virt, length, attrs) ==
    IF sgt = NullSgt THEN SetPdLevel(w, <<>>, 0, 0, virt, length, attrs)
    ELSE VidmemChunks(w, sgt.chunks, skip, virt, length, attrs)

(* The no-IOMMU loop of __nvgpu_gmmu_update_page_table_sysmem(): one      *)
(* __set_pd_level() call per scatterlist entry, for chunk_length.         *)
RECURSIVE SysmemSgl(_, _, _, _, _, _)
SysmemSgl(w, sgl, skip, virt, length, attrs) ==
    IF sgl = <<>> THEN w
    ELSE
    LET s == Head(sgl) IN
    IF skip # 0 /\ skip >= s.len
    THEN SysmemSgl(w, Tail(sgl), skip - s.len, virt, length, attrs)
    ELSE LET chunkLength == MinOf(length, s.len - skip)
             w1 == SetPdLevel(w, <<>>, 0, s.base + skip, virt, chunkLength, attrs)
         IN  IF w1.err # "ok" \/ length - chunkLength = 0 THEN w1
             ELSE SysmemSgl(w1, Tail(sgl), 0, virt + chunkLength,
                            length - chunkLength, attrs)

\* Mutant: the IOMMU address is used even when the SMMU is bypassed.
UpdatePageTableSysmemIgnoresBypass(w, sgt, skip, virt, length, attrs) ==
    IF sgt = NullSgt THEN SetPdLevel(w, <<>>, 0, 0, virt, length, attrs)
    ELSE SetPdLevel(w, <<>>, 0, sgt.iova + skip, virt, length, attrs)

(* __nvgpu_gmmu_update_page_table_sysmem(): NULL is an unmap over the     *)
(* whole range; behind the IOMMU the buffer is one contiguous IO virtual  *)
(* range; otherwise the scatterlist is walked.                            *)
UpdatePageTableSysmem(w, sgt, skip, virt, length, attrs) ==
    IF sgt = NullSgt THEN SetPdLevel(w, <<>>, 0, 0, virt, length, attrs)
    ELSE IF ~BypassSmmu
    THEN SetPdLevel(w, <<>>, 0, sgt.iova + skip, virt, length, attrs)
    ELSE SysmemSgl(w, sgt.chunks, skip, virt, length, attrs)

(* __nvgpu_gmmu_update_page_table(): the kernel page size becomes the     *)
(* small one, a skip that is not page aligned is EINVAL, the length is    *)
(* page aligned, and the aperture picks the resolver.                     *)
UpdatePageTable(w, sgt, skip, virt, length, attrs0) ==
    LET attrs == IF attrs0.pgsz = GmmuPageSizeKernel
                 THEN [attrs0 EXCEPT !.pgsz = GmmuPageSizeSmall] ELSE attrs0
        pageSize == GmmuPageSizes[attrs.pgsz]
        len == NvgpuAlignMapLength(length, attrs.pgsz)
    IN  IF LowBits(skip, pageSize) # 0 THEN [w EXCEPT !.err = "EINVAL"]
        ELSE IF attrs.aperture = ApertureVidmem
        THEN UpdatePageTableVidmem(w, sgt, skip, virt, len, attrs)
        ELSE UpdatePageTableSysmem(w, sgt, skip, virt, len, attrs)

=============================================================================
