-------------------------------- MODULE Gmmu --------------------------------
(***************************************************************************)
(* One GPU address space (struct vm_gk20a) and the map/unmap calls of     *)
(* common/mm/gmmu.c made on it, with the GPU TLB that caches its          *)
(* translations and the callers that own the mapped buffers.               *)
(*                                                                         *)
(* Every call runs under vm->update_gmmu_lock from VA allocation to TLB   *)
(* invalidation, so each call is one step.  The GPU is the other actor:   *)
(* it may cache any valid translation in its TLB at any moment, and only *)
(* a TLB invalidate drops what it cached.                                 *)
(***************************************************************************)
EXTENDS GmmuWalk, FiniteSets

CONSTANTS
    Bufs,       \* the buffers (struct nvgpu_mem) callers map
    KernelBufs, \* the ones mapped with nvgpu_gmmu_map(); the rest go through the VM layer
    Backing,    \* [Bufs -> [aperture, iova, chunks]]: where each buffer lives
    BufPgsz,    \* [Bufs -> page size index] the VM layer maps a buffer with
    FixedVa,    \* [Bufs -> SUBSET addresses] fixed GPU VAs a caller may ask for
    Skips,      \* buffer offsets (space_to_skip) the VM layer may ask for
    VaUnits,    \* size of the GPU virtual address space
    VaPgsz,     \* [0..VaUnits-1 -> page size index] page size of each VA region
    AllocVa,    \* [page size index -> SUBSET 0..VaUnits-1] what __nvgpu_vm_alloc_va hands out
    MaxFail,    \* the OOM injected at allocation attempt 1..MaxFail (0: never)
    Unallocated, \* buffers whose memory is not allocated yet when the VM is created
    WritePages   \* the pages GPU engines may write through

VARIABLES
    pd,       \* the page-directory tree: [mem, kids, ent] as in GmmuWalk
    vaAlloc,  \* GPU VA ranges handed out by the VA allocator
    bufs,     \* each buffer's owner: its mapping and its memory
    batch,    \* struct vm_gk20a_mapping_batch of the VM layer
    tlb,      \* the GPU TLB: [Pages -> cached target or NoXlate]
    l2        \* physical addresses of the dirty lines in the GPU L2 cache

vars == <<pd, vaAlloc, bufs, batch, tlb, l2>>

NoXlate == -1

Pages == {v \in 0..VaUnits-1 : v % GmmuPageSizes[VaPgsz[v]] = 0}

BufSize(b) == LET RECURSIVE Sum(_)
                  Sum(cs) == IF cs = <<>> THEN 0 ELSE Head(cs).len + Sum(Tail(cs))
              IN  Sum(Backing[b].chunks)

RealPgsz(s) == IF s = GmmuPageSizeKernel THEN GmmuPageSizeSmall ELSE s

-----------------------------------------------------------------------------
(* What the GPU reaches: the hardware walk of the tree from vm->pdb.       *)

RECURSIVE WalkFrom(_, _, _, _)
WalkFrom(t, p, l, v) ==
    LET idx == PdIndex(l, v, VaPgsz[v])
        e   == IF p \in DOMAIN t.ent /\ idx \in DOMAIN t.ent[p]
               THEN t.ent[p][idx] ELSE Zero
    IN  IF l = NumLevels - 1 THEN e
        ELSE IF e.kind = "pde" THEN WalkFrom(t, e.pd, l + 1, v) ELSE Zero

\* The leaf word the GPU finds for page v.
LeafOf(t, v) == WalkFrom(t, <<>>, 0, v)

Translate(t, v) ==
    LET e == LeafOf(t, v) IN
    IF e.kind = "pte" /\ e.valid THEN e.pa ELSE NoXlate

\* Where byte o of buffer b is, as the GPU addresses it.
ExpectedTarget(b, skip, o) ==
    LET RECURSIVE At(_, _)
        At(cs, off) == IF cs = <<>> THEN NoXlate - 1
                       ELSE IF off < Head(cs).len THEN Head(cs).base + off
                       ELSE At(Tail(cs), off - Head(cs).len)
    IN  IF Backing[b].aperture = ApertureSysmem /\ ~BypassSmmu
        THEN Backing[b].iova + skip + o
        ELSE At(Backing[b].chunks, skip + o)

BufAddrs(b) == {ExpectedTarget(b, 0, o) : o \in 0..BufSize(b)-1}

-----------------------------------------------------------------------------

TreeOf(w) == [mem |-> w.mem, kids |-> w.kids, ent |-> w.ent]

StartWalk(failAt) ==
    [mem |-> pd.mem, kids |-> pd.kids, ent |-> pd.ent,
     allocs |-> 0, failAt |-> failAt, err |-> "ok"]

EmptyTlb == [v \in Pages |-> NoXlate]

InRange(u, r) == r.va <= u /\ u < r.va + r.len

(* __nvgpu_vm_alloc_va(): any free, page aligned range of the VA region of *)
(* the page size (the allocator itself lives in the VM layer).             *)
VaCandidates(size, pgsz) ==
    LET ps  == GmmuPageSizes[RealPgsz(pgsz)]
        len == Align(size, ps)
    IN  {s \in AllocVa[pgsz] :
            /\ s % ps = 0
            /\ \A u \in s..s+len-1 : u \in AllocVa[pgsz] /\ \A r \in vaAlloc : ~InRange(u, r)}

Init ==
    \* nvgpu_gmmu_init_page_table(): the PDB gets one page-aligned table.
    /\ pd = [mem  |-> (<<>> :> Align(PdSize(0, GmmuPageSizeSmall), 4096)),
             kids |-> <<>>,
             ent  |-> (<<>> :> ZeroTable(PdEntries(0, GmmuPageSizeSmall)))]
    /\ vaAlloc = {}
    /\ bufs = [b \in Bufs |-> [st |-> IF b \in Unallocated THEN "freed" ELSE "idle", va |-> 0, len |-> 0, skip |-> 0,
                               pgsz |-> BufPgsz[b], vaAllocated |-> FALSE,
                               awaitInval |-> FALSE]]
    /\ batch = [need_tlb_invalidate |-> FALSE, gpu_l2_flushed |-> FALSE]
    /\ tlb = EmptyTlb
    /\ l2 = {}

-----------------------------------------------------------------------------
(* gk20a_locked_gmmu_map(): allocate a VA unless one is given, program the *)
(* tables, then invalidate the TLB or leave that to the batch.  On a      *)
(* failed update the allocated VA is released and 0 is returned; the      *)
(* tables keep what the walk wrote.                                       *)
LockedGmmuMap(b, vaddr, skip, size, pgszIdx, useBatch) ==
    LET allocated == vaddr = 0
        attrs == [pgsz |-> pgszIdx, valid |-> TRUE, aperture |-> Backing[b].aperture]
    IN
    \/ /\ allocated
       /\ VaCandidates(size, pgszIdx) = {}
       /\ UNCHANGED vars
    \/ \E va \in (IF allocated THEN VaCandidates(size, pgszIdx) ELSE {vaddr}),
          failAt \in 0..MaxFail :
         LET w   == UpdatePageTable(StartWalk(failAt), Backing[b], skip, va, size, attrs)
             len == NvgpuAlignMapLength(size, RealPgsz(pgszIdx))
         IN  /\ pd' = TreeOf(w)
             /\ IF w.err = "ok"
                THEN /\ vaAlloc' = IF allocated THEN vaAlloc \cup {[va |-> va, len |-> len]}
                                   ELSE vaAlloc
                     /\ bufs' = [bufs EXCEPT ![b] = [@ EXCEPT !.st = "mapped", !.va = va,
                                    !.len = len, !.skip = skip, !.pgsz = pgszIdx,
                                    !.vaAllocated = allocated]]
                     /\ IF useBatch
                        THEN /\ batch' = [batch EXCEPT !.need_tlb_invalidate = TRUE]
                             /\ UNCHANGED tlb
                        ELSE /\ tlb' = EmptyTlb
                             /\ UNCHANGED batch
                     /\ UNCHANGED l2
                ELSE UNCHANGED <<vaAlloc, bufs, batch, tlb, l2>>

\* Mutant: unmap never flushes L2.
L2AfterUnmapNoFlush(useBatch) == l2

(* Lines 835-842: gk20a_mm_l2_flush(g, true) writes back and invalidates  *)
(* every dirty line, unless the batch records that it already ran.        *)
L2AfterUnmap(useBatch) == IF useBatch /\ batch.gpu_l2_flushed THEN l2 ELSE {}

\* Mutant: with a batch, only the L2 flush is recorded, not need_tlb_invalidate.
LockedGmmuUnmapBatchNoInvalidate(b, vaddr, size, pgszIdx, vaAllocated, useBatch) ==
    LET attrs == [pgsz |-> pgszIdx, valid |-> FALSE, aperture |-> ApertureInvalid] IN
    /\ vaAlloc' = IF vaAllocated THEN {r \in vaAlloc : r.va # vaddr} ELSE vaAlloc
    /\ \E failAt \in 0..MaxFail :
         pd' = TreeOf(UpdatePageTable(StartWalk(failAt), NullSgt, 0, vaddr, size, attrs))
    /\ bufs' = [bufs EXCEPT ![b] = [@ EXCEPT !.st = IF useBatch THEN "idle" ELSE "unmapping",
                                              !.awaitInval = useBatch]]
    /\ l2' = L2AfterUnmap(useBatch)
    /\ IF useBatch
       THEN batch' = [batch EXCEPT !.gpu_l2_flushed = TRUE]
       ELSE UNCHANGED batch
    /\ UNCHANGED tlb

(* gk20a_locked_gmmu_unmap(), lines 821-836 and 838-843: release the VA  *)
(* if the allocator gave it, write zero PTEs over the range (an error is  *)
(* only logged), then flush L2, or leave that to the batch if it already  *)
(* flushed, and record the TLB invalidate in the batch.  Without a batch  *)
(* the invalidate of line 837 is the next step of the same call, still    *)
(* under vm->update_gmmu_lock ("unmapping").                               *)
LockedGmmuUnmap(b, vaddr, size, pgszIdx, vaAllocated, useBatch) ==
    LET attrs == [pgsz |-> pgszIdx, valid |-> FALSE, aperture |-> ApertureInvalid] IN
    /\ vaAlloc' = IF vaAllocated THEN {r \in vaAlloc : r.va # vaddr} ELSE vaAlloc
    /\ \E failAt \in 0..MaxFail :
         pd' = TreeOf(UpdatePageTable(StartWalk(failAt), NullSgt, 0, vaddr, size, attrs))
    /\ bufs' = [bufs EXCEPT ![b] = [@ EXCEPT !.st = IF useBatch THEN "idle" ELSE "unmapping",
                                              !.awaitInval = useBatch]]
    /\ l2' = L2AfterUnmap(useBatch)
    /\ IF useBatch
       THEN batch' = [need_tlb_invalidate |-> TRUE, gpu_l2_flushed |-> TRUE]
       ELSE UNCHANGED batch
    /\ UNCHANGED tlb

\* Mutant: the unbatched unmap returns without invalidating the TLB.
UnmapTlbInvalidateSkipped(b) ==
    /\ bufs[b].st = "unmapping"
    /\ bufs' = [bufs EXCEPT ![b].st = "idle"]
    /\ UNCHANGED <<pd, vaAlloc, batch, tlb, l2>>

(* Line 837: g->ops.fb.tlb_invalidate() ends an unbatched unmap; the call *)
(* then returns and its caller drops vm->update_gmmu_lock.                *)
UnmapTlbInvalidate(b) ==
    /\ bufs[b].st = "unmapping"
    /\ tlb' = EmptyTlb
    /\ bufs' = [bufs EXCEPT ![b].st = "idle"]
    /\ UNCHANGED <<pd, vaAlloc, batch, l2>>

\* A call is inside gk20a_locked_gmmu_unmap(), holding vm->update_gmmu_lock.
GmmuLockHeld == \E b \in Bufs : bufs[b].st = "unmapping"

-----------------------------------------------------------------------------
(* The calls.                                                              *)

\* nvgpu_gmmu_map() (addr 0) and nvgpu_gmmu_map_fixed() via __nvgpu_gmmu_map().
NvgpuGmmuMap(b) ==
    /\ ~GmmuLockHeld
    /\ b \in KernelBufs
    /\ bufs[b].st = "idle"
    /\ \E addr \in {0} \cup FixedVa[b] :
         LockedGmmuMap(b, addr, 0, BufSize(b), GmmuPageSizeKernel, FALSE)

\* nvgpu_gmmu_unmap(): always frees the VA, always the kernel page size.
NvgpuGmmuUnmap(b) ==
    /\ ~GmmuLockHeld
    /\ b \in KernelBufs
    /\ bufs[b].st = "mapped"
    /\ LockedGmmuUnmap(b, bufs[b].va, BufSize(b), GmmuPageSizeKernel, TRUE, FALSE)

\* The VM layer mapping part of a buffer, with or without its batch.
VmMap(b) ==
    /\ ~GmmuLockHeld
    /\ b \notin KernelBufs
    /\ bufs[b].st = "idle"
    /\ \E addr \in {0} \cup FixedVa[b], skip \in Skips, trim \in {0, 1}, useBatch \in BOOLEAN :
         /\ skip < BufSize(b)
         /\ LockedGmmuMap(b, addr, skip, BufSize(b) - skip - trim, BufPgsz[b], useBatch)

VmUnmap(b) ==
    /\ ~GmmuLockHeld
    /\ b \notin KernelBufs
    /\ bufs[b].st = "mapped"
    /\ \E useBatch \in BOOLEAN :
         LockedGmmuUnmap(b, bufs[b].va, bufs[b].len, bufs[b].pgsz,
                         bufs[b].vaAllocated, useBatch)

(* nvgpu_vm_mapping_batch_finish_locked() of the VM layer: one TLB        *)
(* invalidate for everything the batch deferred.                          *)
BatchFinish ==
    /\ ~GmmuLockHeld
    /\ batch.need_tlb_invalidate \/ batch.gpu_l2_flushed
    /\ tlb' = IF batch.need_tlb_invalidate THEN EmptyTlb ELSE tlb
    /\ batch' = [need_tlb_invalidate |-> FALSE, gpu_l2_flushed |-> FALSE]
    /\ bufs' = [b \in Bufs |-> [bufs[b] EXCEPT !.awaitInval = FALSE]]
    /\ UNCHANGED <<pd, vaAlloc, l2>>

\* The GPU caches the translation of a page it accesses.
TlbFill(v) ==
    /\ Translate(pd, v) # NoXlate
    /\ tlb[v] # Translate(pd, v)
    /\ tlb' = [tlb EXCEPT ![v] = Translate(pd, v)]
    /\ UNCHANGED <<pd, vaAlloc, bufs, batch, l2>>

(* A GPU engine writes page v through the translation its TLB holds: the *)
(* line is dirty in L2 until the next L2 flush writes it back.            *)
GpuWrite(v) ==
    /\ v \in WritePages
    /\ tlb[v] # NoXlate
    /\ l2' = l2 \cup {tlb[v]}
    /\ UNCHANGED <<pd, vaAlloc, bufs, batch, tlb>>

(* The owner frees a buffer that is not mapped (after a failed map, or    *)
(* after its unmap and any TLB invalidate that unmap left to the batch),   *)
(* and may allocate the same memory again later.                          *)
FreeBuffer(b) ==
    /\ bufs[b].st = "idle"
    /\ ~bufs[b].awaitInval
    /\ bufs' = [bufs EXCEPT ![b].st = "freed"]
    /\ UNCHANGED <<pd, vaAlloc, batch, tlb, l2>>

AllocBuffer(b) ==
    /\ bufs[b].st = "freed"
    /\ bufs' = [bufs EXCEPT ![b].st = "idle"]
    /\ UNCHANGED <<pd, vaAlloc, batch, tlb, l2>>

Next ==
    \/ \E b \in Bufs : NvgpuGmmuMap(b) \/ NvgpuGmmuUnmap(b) \/ VmMap(b) \/ VmUnmap(b)
                       \/ UnmapTlbInvalidate(b) \/ FreeBuffer(b) \/ AllocBuffer(b)
    \/ BatchFinish
    \/ \E v \in Pages : TlbFill(v) \/ GpuWrite(v)

Spec == Init /\ [][Next]_vars

-----------------------------------------------------------------------------
(* Properties.                                                             *)

TypeOK ==
    /\ DOMAIN pd.ent = DOMAIN pd.mem
    /\ \A p \in DOMAIN pd.ent : \A i \in DOMAIN pd.ent[p] : pd.ent[p][i].kind \in {"zero", "pte", "pde"}
    /\ vaAlloc \subseteq [va : 0..VaUnits-1, len : Nat]
    /\ \A b \in Bufs : bufs[b].st \in {"idle", "mapped", "unmapping", "freed"}
    /\ batch \in [need_tlb_invalidate : BOOLEAN, gpu_l2_flushed : BOOLEAN]
    /\ tlb \in [Pages -> Int]
    /\ l2 \subseteq Int

(* When an owner frees a buffer, L2 holds no dirty line of its memory: no *)
(* line is later evicted into memory the table no longer maps and the     *)
(* owner may have handed to someone else.  It is about the L2 flush of    *)
(* gk20a_locked_gmmu_unmap() running after the last GPU write to the       *)
(* buffer, which a batch (gpu_l2_flushed) runs once at its first unmap.   *)
NoDirtyL2LineOfFreedMemory ==
    \A b \in Bufs : bufs[b].st = "freed" => l2 \cap BufAddrs(b) = {}

MappedAt(b, v) == bufs[b].st = "mapped" /\ InRange(v, bufs[b])

(* Round trip of map and unmap: every GPU page that no returned mapping    *)
(* covers has a zero leaf word, bit for bit what it had before it was      *)
(* ever mapped.  It is about __set_pd_level() never advancing the zero     *)
(* physical address of an unmap, about gk20a_locked_gmmu_map() releasing  *)
(* the VA of a map whose table update failed, and about every resolver    *)
(* staying inside the range it was given.                                  *)
NoStaleEntries ==
    \A v \in Pages : (\A b \in Bufs : ~MappedAt(b, v)) => LeafOf(pd, v) = Zero

(* Once an owner has freed a buffer, the GPU reaches none of its memory:  *)
(* neither through the tables nor through a translation its TLB cached.   *)
(* It is about gk20a_locked_gmmu_unmap() invalidating the TLB itself or   *)
(* leaving need_tlb_invalidate set in the batch, and about failed maps.   *)
NoGpuPathToFreedMemory ==
    \A b \in Bufs : bufs[b].st = "freed" =>
        \A v \in Pages : /\ tlb[v] \notin BufAddrs(b)
                        /\ Translate(pd, v) \notin BufAddrs(b)

(* Every word ever written into a page directory lies inside the memory   *)
(* pd_allocate() gave that directory: pd_index() never exceeds the        *)
(* pd_entries() the table was sized with, whichever page size sized it.   *)
EntriesWithinTable ==
    \A p \in DOMAIN pd.ent : \A i \in DOMAIN pd.ent[p] :
        (i + 1) * Levels[Len(p)].entry_size <= pd.mem[p]

(* Every valid PTE leads to memory of some buffer: no walk, complete or   *)
(* cut short by an error, writes a physical address beyond the memory it  *)
(* was given.  It is about the resolvers of __nvgpu_gmmu_update_page_table *)
(* handing __set_pd_level() a length that fits the chunk it starts in.   *)
PtesReachOnlyBuffers ==
    \A v \in Pages : Translate(pd, v) # NoXlate =>
        \E b \in Bufs : Translate(pd, v) \in BufAddrs(b)

(* Every page of every returned mapping translates to the byte of its     *)
(* buffer it stands for, whatever mappings came and went before: the     *)
(* vidmem resolver walks each chunk with the whole remaining length and   *)
(* the next chunk must overwrite what that walk wrote past the chunk's    *)
(* end; the sysmem resolver walks the IOVA or every SGL chunk from the    *)
(* skip offset.                                                           *)
MappedBuffersTranslate ==
    \A b \in Bufs, v \in Pages : MappedAt(b, v) =>
        Translate(pd, v) = ExpectedTarget(b, bufs[b].skip, v - bufs[b].va)

LiveMappings ==
    {[buf |-> b, va |-> bufs[b].va, len |-> bufs[b].len, skip |-> bufs[b].skip] :
        b \in {x \in Bufs : bufs[x].st = "mapped"}}

Abs == INSTANCE GmmuAbstract
         WITH xlate <- [v \in Pages |-> Translate(pd, v)],
              live <- LiveMappings,
              Target <- ExpectedTarget

(* The tables implement the abstract map/unmap contract of GmmuAbstract:  *)
(* a returned mapping translates every page of its aligned range to the   *)
(* right byte of its buffer, a failed map only ever writes what the       *)
(* successful one would have, and nothing else changes a translation.     *)
ImplementsAbstract == Abs!Spec

=============================================================================
