---------------------------- MODULE AcrBootstrap ----------------------------
(***************************************************************************)
(* nvgpu_acr_bootstrap_hs_ucode() and acr_hs_bl_exec() of                  *)
(* common/acr/acr_bootstrap.c, composed with the GMMU of Gmmu.             *)
(*                                                                         *)
(* The ACR ucode and the HS bootloader (BL) firmware are requested once    *)
(* and cached in the hs_acr descriptor (acr_fw, acr_hs_bl.hs_bl_fw); an    *)
(* error path releases what it holds and clears the pointer.  The BL      *)
(* ucode is copied into a sysmem buffer BlBuf, which the PMU VM maps with  *)
(* nvgpu_gmmu_map() for the falcon to fetch.  The bootstrap runs as a     *)
(* process whose program counter pc follows the labels of the code; the   *)
(* GPU TLB and the owners of the other buffers of the address space run   *)
(* between its steps.                                                      *)
(*                                                                         *)
(* Firmware images and the ACR ucode buffer (nvgpu_dma_alloc_map_sys())    *)
(* are external, represented by the references held and a flag.           *)
(***************************************************************************)
EXTENDS Gmmu

CONSTANT BlBuf      \* the nvgpu_mem hs_bl_ucode

VARIABLES
    pc,         \* where nvgpu_acr_bootstrap_hs_ucode() is ("idle" between calls)
    acrFw,      \* acr_desc->acr_fw # NULL
    acrUcode,   \* acr_desc->acr_ucode is allocated and mapped
    blFw,       \* acr_desc->acr_hs_bl.hs_bl_fw # NULL
    fwRefs,     \* firmware references requested and not released
    err,        \* err of acr_hs_bl_exec()
    lastRet,    \* what the last completed call returned
    ranBl,      \* this call started the BL and saw it halt cleanly
    falcon      \* the ACR falcon: "off", "running" the BL, or halted with
                \* MAILBOX_0 clear ("halted_ok") or not ("halted_err")

acrVars == <<pc, acrFw, acrUcode, blFw, fwRefs, err, lastRet, ranBl, falcon>>
allVars == <<vars, acrVars>>

Errnos == {"ok", "ENOENT", "ENOMEM", "EAGAIN", "ETIMEDOUT"}

AcrInit ==
    /\ Init
    /\ pc = "idle"
    /\ acrFw = FALSE
    /\ acrUcode = FALSE
    /\ blFw = FALSE
    /\ fwRefs = [f \in {"acr", "bl"} |-> 0]
    /\ err = "ok"
    /\ lastRet = "none"
    /\ ranBl = FALSE
    /\ falcon = "off"

\* Mutant: the wait has no timeout: it returns only once the falcon halts.
AcrWaitForCompletionNoTimeout(f) ==
    CASE f = "halted_ok"  -> {"ok"}
      [] f = "halted_err" -> {"EAGAIN"}
      [] OTHER            -> {}

(* acr_wait_for_completion(): nvgpu_falcon_wait_for_halt() returns once   *)
(* the falcon has halted, or times out after ACR_COMPLETION_TIMEOUT_MS;   *)
(* a halt with a non-zero MAILBOX_0 is -EAGAIN.                           *)
AcrWaitForCompletion(f) ==
    CASE f = "halted_ok"  -> {"ok"}
      [] f = "halted_err" -> {"EAGAIN"}
      [] OTHER            -> {"ETIMEDOUT"}

-----------------------------------------------------------------------------
(* nvgpu_acr_bootstrap_hs_ucode() up to the call of acr_hs_bl_exec().      *)
(* With acr_fw cached only the WPR info is patched.  Otherwise the ucode  *)
(* is requested, its signatures patched (acr_ucode_patch_sig() returns 0), *)
(* and it is copied to a new mapped sysmem buffer; a failed allocation    *)
(* releases the firmware again.                                           *)
AcrBootstrapStart ==
    /\ pc = "idle"
    /\ ranBl' = FALSE
    /\ \/ /\ acrFw
          /\ pc' = "bl_exec"
          /\ UNCHANGED <<acrFw, acrUcode, fwRefs, lastRet>>
       \/ /\ ~acrFw
          /\ \E fwOk, allocOk \in BOOLEAN :
               IF ~fwOk \/ ~allocOk
               THEN /\ pc' = "idle"
                    /\ lastRet' = IF fwOk THEN "ENOMEM" ELSE "ENOENT"
                    /\ UNCHANGED <<acrFw, acrUcode, fwRefs>>
               ELSE /\ pc' = "bl_exec"
                    /\ acrFw' = TRUE
                    /\ acrUcode' = TRUE
                    /\ fwRefs' = [fwRefs EXCEPT !["acr"] = @ + 1]
                    /\ UNCHANGED lastRet
    /\ UNCHANGED <<blFw, err, vars, falcon>>

(* acr_hs_bl_exec(), lines 88-112: with hs_bl_fw cached, go on to the     *)
(* bootstrap; else request it (-ENOENT back to the caller if absent) and  *)
(* allocate the BL ucode buffer, jumping to err_done if that fails.       *)
BlExecLoad ==
    /\ pc = "bl_exec"
    /\ \/ /\ blFw
          /\ pc' = "bl_bootstrap"
          /\ UNCHANGED <<blFw, fwRefs, err, bufs>>
       \/ /\ ~blFw
          /\ pc' = "bl_return"
          /\ err' = "ENOENT"
          /\ UNCHANGED <<blFw, fwRefs, bufs>>
       \/ /\ ~blFw
          /\ blFw' = TRUE
          /\ fwRefs' = [fwRefs EXCEPT !["bl"] = @ + 1]
          /\ \/ /\ pc' = "err_done"
                /\ err' = "ENOMEM"
                /\ UNCHANGED bufs
             \/ /\ pc' = "bl_map"
                /\ err' = "ok"
                /\ bufs' = [bufs EXCEPT ![BlBuf].st = "idle"]
    /\ UNCHANGED <<acrFw, acrUcode, lastRet, ranBl, pd, vaAlloc, batch, tlb, l2, falcon>>

(* Lines 114-123: map the BL ucode in the PMU VM; a returned gpu_va of 0  *)
(* jumps to err_free_ucode with err still 0.                               *)
BlMap ==
    /\ pc = "bl_map"
    /\ NvgpuGmmuMap(BlBuf)
    /\ pc' = IF bufs'[BlBuf].st = "mapped" THEN "bl_bootstrap" ELSE "err_free_ucode"
    /\ UNCHANGED <<acrFw, acrUcode, blFw, fwRefs, err, lastRet, ranBl, falcon>>

(* Lines 130-144: fill the BL info, reset the falcon and bootstrap it    *)
(* with the BL, which starts running.                                     *)
BlBootstrap ==
    /\ pc = "bl_bootstrap"
    /\ falcon' = "running"
    /\ pc' = "bl_wait"
    /\ UNCHANGED <<acrFw, acrUcode, blFw, fwRefs, err, lastRet, ranBl, vars>>

\* Mutant: a failed wait jumps past err_unmap_bl.
BlWaitSkipsUnmap ==
    /\ pc = "bl_wait"
    /\ \E completion \in AcrWaitForCompletion(falcon) :
         /\ err' = completion
         /\ pc' = IF completion = "ok" THEN "bl_return" ELSE "err_free_ucode"
         /\ ranBl' = (completion = "ok")
    /\ UNCHANGED <<acrFw, acrUcode, blFw, fwRefs, lastRet, falcon, vars>>

(* Lines 146-155: wait for the falcon's halt; any completion but a clean  *)
(* halt goes to err_unmap_bl.                                              *)
BlWait ==
    /\ pc = "bl_wait"
    /\ \E completion \in AcrWaitForCompletion(falcon) :
         /\ err' = completion
         /\ pc' = IF completion = "ok" THEN "bl_return" ELSE "err_unmap_bl"
         /\ ranBl' = (completion = "ok")
    /\ UNCHANGED <<acrFw, acrUcode, blFw, fwRefs, lastRet, falcon, vars>>

(* The falcon running the BL halts, with the ACR's verdict in MAILBOX_0;  *)
(* it may also never halt.                                                 *)
FalconHalt ==
    /\ falcon = "running"
    /\ falcon' \in {"halted_ok", "halted_err"}
    /\ UNCHANGED <<pc, acrFw, acrUcode, blFw, fwRefs, err, lastRet, ranBl, vars>>

(* err_unmap_bl: nvgpu_gmmu_unmap() of the BL ucode, up to its L2 flush, *)
(* and then its TLB invalidate.                                            *)
ErrUnmapBl ==
    /\ pc = "err_unmap_bl"
    /\ NvgpuGmmuUnmap(BlBuf)
    /\ pc' = "err_unmap_bl_tlb"
    /\ UNCHANGED <<acrFw, acrUcode, blFw, fwRefs, err, lastRet, ranBl, falcon>>

ErrUnmapBlTlb ==
    /\ pc = "err_unmap_bl_tlb"
    /\ UnmapTlbInvalidate(BlBuf)
    /\ pc' = "err_free_ucode"
    /\ UNCHANGED <<acrFw, acrUcode, blFw, fwRefs, err, lastRet, ranBl, falcon>>

\* err_free_ucode: nvgpu_dma_free() of the BL ucode.
ErrFreeUcode ==
    /\ pc = "err_free_ucode"
    /\ bufs' = [bufs EXCEPT ![BlBuf].st = "freed"]
    /\ pc' = "err_done"
    /\ UNCHANGED <<acrFw, acrUcode, blFw, fwRefs, err, lastRet, ranBl,
                   pd, vaAlloc, batch, tlb, l2, falcon>>

\* Mutant: hs_bl_fw is cleared without nvgpu_release_firmware().
ErrDoneKeepsFw ==
    /\ pc = "err_done"
    /\ blFw' = FALSE
    /\ pc' = "bl_return"
    /\ UNCHANGED <<acrFw, acrUcode, fwRefs, err, lastRet, ranBl, vars, falcon>>

\* Mutant: the firmware is released but hs_bl_fw is left set.
ErrDoneKeepsPointer ==
    /\ pc = "err_done"
    /\ fwRefs' = [fwRefs EXCEPT !["bl"] = @ - 1]
    /\ pc' = "bl_return"
    /\ UNCHANGED <<acrFw, acrUcode, blFw, err, lastRet, ranBl, vars, falcon>>

\* err_done: release the BL firmware and clear hs_bl_fw.
ErrDone ==
    /\ pc = "err_done"
    /\ fwRefs' = [fwRefs EXCEPT !["bl"] = @ - 1]
    /\ blFw' = FALSE
    /\ pc' = "bl_return"
    /\ UNCHANGED <<acrFw, acrUcode, err, lastRet, ranBl, vars, falcon>>

\* Mutant: the error path releases acr_fw but keeps the ACR ucode buffer.
AcrBootstrapReturnKeepsUcode ==
    /\ pc = "bl_return"
    /\ pc' = "idle"
    /\ lastRet' = err
    /\ IF err = "ok"
       THEN UNCHANGED <<acrFw, fwRefs>>
       ELSE /\ acrFw' = FALSE
            /\ fwRefs' = [fwRefs EXCEPT !["acr"] = @ - 1]
    /\ UNCHANGED <<acrUcode, blFw, err, ranBl, vars, falcon>>

(* Back in nvgpu_acr_bootstrap_hs_ucode(), lines 276-287: a non-zero      *)
(* status unmaps and frees the ACR ucode and releases acr_fw.             *)
AcrBootstrapReturn ==
    /\ pc = "bl_return"
    /\ pc' = "idle"
    /\ lastRet' = err
    /\ IF err = "ok"
       THEN UNCHANGED <<acrFw, acrUcode, fwRefs>>
       ELSE /\ acrUcode' = FALSE
            /\ acrFw' = FALSE
            /\ fwRefs' = [fwRefs EXCEPT !["acr"] = @ - 1]
    /\ UNCHANGED <<blFw, err, ranBl, vars, falcon>>

\* The rest of the system: the other buffers' owners and the GPU.
GmmuOthers ==
    /\ \/ \E b \in Bufs \ {BlBuf} :
            \/ NvgpuGmmuMap(b) \/ NvgpuGmmuUnmap(b) \/ UnmapTlbInvalidate(b)
            \/ FreeBuffer(b) \/ AllocBuffer(b)
       \/ \E v \in Pages : TlbFill(v) \/ GpuWrite(v)
    /\ UNCHANGED acrVars

AcrNext ==
    \/ AcrBootstrapStart
    \/ BlExecLoad
    \/ BlMap
    \/ BlBootstrap
    \/ BlWait
    \/ ErrUnmapBl
    \/ ErrUnmapBlTlb
    \/ ErrFreeUcode
    \/ ErrDone
    \/ AcrBootstrapReturn
    \/ FalconHalt
    \/ GmmuOthers

AcrSpec == AcrInit /\ [][AcrNext]_allVars

(* The steps of the thread inside nvgpu_acr_bootstrap_hs_ucode(): once    *)
(* called, it runs on; its one wait is bounded by its timeout.  Neither   *)
(* the falcon's halt nor the other owners of the PMU VM are fair, except  *)
(* that an owner inside nvgpu_gmmu_unmap() finishes it and drops          *)
(* vm->update_gmmu_lock.  The BL map and unmap wait for that lock, which  *)
(* the other owners may take again and again; a kernel mutex hands itself *)
(* to a waiter that keeps losing it, so those two steps are strongly fair. *)
AcrThread ==
    \/ BlExecLoad \/ BlMap \/ BlBootstrap \/ BlWait
    \/ ErrUnmapBl \/ ErrUnmapBlTlb \/ ErrFreeUcode \/ ErrDone \/ AcrBootstrapReturn

OthersUnmapTlb == \E b \in Bufs \ {BlBuf} : UnmapTlbInvalidate(b) /\ UNCHANGED acrVars

AcrFairSpec ==
    /\ AcrSpec
    /\ WF_allVars(AcrThread)
    /\ SF_allVars(BlMap) /\ SF_allVars(ErrUnmapBl)
    /\ WF_allVars(OthersUnmapTlb)

-----------------------------------------------------------------------------
(* Properties.                                                             *)

AcrTypeOK ==
    /\ pc \in {"idle", "bl_exec", "bl_map", "bl_bootstrap", "bl_wait",
               "err_unmap_bl", "err_unmap_bl_tlb", "err_free_ucode", "err_done", "bl_return"}
    /\ falcon \in {"off", "running", "halted_ok", "halted_err"}
    /\ {acrFw, acrUcode, blFw, ranBl} \subseteq BOOLEAN
    /\ fwRefs \in [{"acr", "bl"} -> 0..1]
    /\ err \in Errnos
    /\ lastRet \in Errnos \cup {"none"}

(* Between calls the descriptor names exactly what is held: one reference  *)
(* per cached firmware pointer and none without one, the ACR ucode buffer  *)
(* exactly while acr_fw is cached, and the BL ucode allocated and mapped   *)
(* exactly while hs_bl_fw is cached.  It is about every error path of      *)
(* acr_hs_bl_exec() and nvgpu_acr_bootstrap_hs_ucode() undoing what that   *)
(* call, or an earlier one, set up; a later call trusts these pointers.    *)
AcrHoldsWhatDescriptorNames ==
    pc = "idle" =>
        /\ fwRefs["acr"] = (IF acrFw THEN 1 ELSE 0)
        /\ fwRefs["bl"] = (IF blFw THEN 1 ELSE 0)
        /\ acrUcode = acrFw
        /\ bufs[BlBuf].st = (IF blFw THEN "mapped" ELSE "freed")

(* When the falcon is bootstrapped, and while it runs, the GPU VA the BL  *)
(* is given fetches the BL ucode: every page of the mapping translates to *)
(* the buffer, in the tables and in any TLB entry.  The BL map may take   *)
(* the VA another owner of the PMU VM has just unmapped, whose            *)
(* translations the GPU had cached, and with hs_bl_fw cached a later call *)
(* bootstraps through the mapping an earlier call made (acr_hs_bl_exec(), *)
(* lines 88-144).                                                          *)
BlFetchesBlUcode ==
    pc \in {"bl_bootstrap", "bl_wait"} =>
        /\ bufs[BlBuf].st = "mapped"
        /\ \A v \in Pages : InRange(v, bufs[BlBuf]) =>
               LET t == ExpectedTarget(BlBuf, 0, v - bufs[BlBuf].va) IN
               /\ Translate(pd, v) = t
               /\ tlb[v] \in {NoXlate, t}

(* A call that returns 0 has started the BL and seen the falcon halt with *)
(* a clear mailbox: callers of nvgpu_acr_bootstrap_hs_ucode() take 0 as   *)
(* "ACR booted".                                                           *)
AcrSuccessMeansBooted ==
    (pc = "idle" /\ lastRet = "ok") => ranBl


(* Every call of nvgpu_acr_bootstrap_hs_ucode() returns to its caller,    *)
(* whatever the falcon does (it may never halt) and whatever the other    *)
(* owners of the PMU VM do (the BL map may find no VA): the wait of        *)
(* acr_wait_for_completion() times out, and every error label goes on to  *)
(* the return.                                                             *)
AcrCallReturns == (pc # "idle") ~> (pc = "idle")

=============================================================================
