-------------------------------- MODULE CeIsr --------------------------------
(***************************************************************************)
(* The stall interrupts of the GV11B copy engines (hal/ce/ce_gv11b.c).     *)
(*                                                                         *)
(* Each LCE has an interrupt status register NV_CE_INTR_STATUS whose      *)
(* pending bits are write-1-to-clear.  The hardware raises faults in it   *)
(* at any moment.  One interrupt thread services the stall interrupts:   *)
(* for an LCE whose stall line is pending it runs gv11b_ce_stall_isr()    *)
(* (which ends in gp10b_ce_stall_isr()), and on a BAR2 fault it runs       *)
(* gv11b_ce_mthd_buffer_fault_in_bar2_fault() over every LCE.  The two    *)
(* never overlap, but the hardware interleaves with each of their register *)
(* accesses.                                                              *)
(*                                                                         *)
(* A register holds the set of its pending bits.  The log messages and    *)
(* the status word passed along with a report are left out.               *)
(***************************************************************************)
EXTENDS Naturals, FiniteSets

CONSTANTS
    NumLce,     \* g->ops.top.get_num_lce(g)
    MaxRaise    \* faults the hardware raises per LCE and kind (a bound)

Lces == 0..NumLce - 1

\* The pending bits gv11b_ce_stall_isr() handles, and those it leaves to
\* gp10b_ce_stall_isr().
Gv11bBits == {"invalid_config", "mthd_buffer_fault"}
Gp10bBits == {"blockpipe", "launcherr"}
Bits == Gv11bBits \cup Gp10bBits

VARIABLES
    status,     \* status[l]: the pending bits of ce_intr_status_r(l)
    pc,         \* the interrupt thread: "idle", "gv11b", "gp10b" or "bar2"
    inst,       \* inst_id of the ISR, or lce of the BAR2 loop
    ceIntr,     \* ce_intr: what the ISR read from the status register
    raised,     \* raised[l][k]: faults the hardware raised (history)
    reported,   \* reported[l][k]: nvgpu_report_ce_error() calls (history)
    bar2Cleared \* bar2Cleared[l]: method-buffer faults the BAR2 path cleared (history)

vars == <<status, pc, inst, ceIntr, raised, reported, bar2Cleared>>

Init ==
    /\ status = [l \in Lces |-> {}]
    /\ pc = "idle"
    /\ inst = 0
    /\ ceIntr = {}
    /\ raised = [l \in Lces |-> [k \in Bits |-> 0]]
    /\ reported = [l \in Lces |-> [k \in Bits |-> 0]]
    /\ bar2Cleared = [l \in Lces |-> 0]

-----------------------------------------------------------------------------
(* The hardware sets a pending bit that is clear.  A fault of a kind      *)
(* already pending sets nothing new, so it is not counted.                *)
HwRaise(l, k) ==
    /\ k \notin status[l]
    /\ raised[l][k] < MaxRaise
    /\ status' = [status EXCEPT ![l] = @ \cup {k}]
    /\ raised' = [raised EXCEPT ![l][k] = @ + 1]
    /\ UNCHANGED <<pc, inst, ceIntr, reported, bar2Cleared>>

(* nvgpu_report_ce_error() for each kind in ks: one call to the safety    *)
(* service hook (a missing hook or a failed call is only logged).         *)
NvgpuReportCeError(l, ks) ==
    reported' = [reported EXCEPT ![l] = [k \in Bits |-> IF k \in ks THEN @[k] + 1 ELSE @[k]]]

(* The stall interrupt of LCE l is serviced: gv11b_ce_stall_isr() reads   *)
(* the status register into ce_intr.                                       *)
StallIsrRead(l) ==
    /\ pc = "idle"
    /\ status[l] # {}
    /\ ceIntr' = status[l]
    /\ inst' = l
    /\ pc' = "gv11b"
    /\ UNCHANGED <<status, raised, reported, bar2Cleared>>

\* Mutant: the method-buffer fault branch is missing.
Gv11bCeStallIsrNoMthd ==
    LET ks == ceIntr \cap {"invalid_config"} IN
    /\ pc = "gv11b"
    /\ NvgpuReportCeError(inst, ks)
    /\ status' = [status EXCEPT ![inst] = @ \ ks]
    /\ pc' = "gp10b"
    /\ UNCHANGED <<inst, ceIntr, raised, bar2Cleared>>

(* The rest of gv11b_ce_stall_isr(): report each of its kinds that        *)
(* ce_intr holds, and write their reset bits (and only those) to the      *)
(* status register.                                                       *)
Gv11bCeStallIsr ==
    LET ks == ceIntr \cap Gv11bBits IN
    /\ pc = "gv11b"
    /\ NvgpuReportCeError(inst, ks)
    /\ status' = [status EXCEPT ![inst] = @ \ ks]
    /\ pc' = "gp10b"
    /\ UNCHANGED <<inst, ceIntr, raised, bar2Cleared>>

(* gp10b_ce_stall_isr() (hal/ce/ce_gp10b.c): reads the status register    *)
(* again, reports and clears the blocking-pipe and launch errors.         *)
Gp10bCeStallIsr ==
    LET ks == status[inst] \cap Gp10bBits IN
    /\ pc = "gp10b"
    /\ NvgpuReportCeError(inst, ks)
    /\ status' = [status EXCEPT ![inst] = @ \ ks]
    /\ pc' = "idle"
    /\ UNCHANGED <<inst, ceIntr, raised, bar2Cleared>>

(* A BAR2 fault is handled: the MMU fault handling calls                  *)
(* gv11b_ce_mthd_buffer_fault_in_bar2_fault().                            *)
Bar2Fault ==
    /\ pc = "idle"
    /\ pc' = "bar2"
    /\ inst' = 0
    /\ UNCHANGED <<status, ceIntr, raised, reported, bar2Cleared>>

\* Mutant: the loop writes back the whole status it read.
MthdBufferFaultInBar2FaultWritesBack ==
    /\ pc = "bar2"
    /\ IF "mthd_buffer_fault" \in status[inst]
       THEN /\ status' = [status EXCEPT ![inst] = {}]
            /\ bar2Cleared' = [bar2Cleared EXCEPT ![inst] = @ + 1]
       ELSE UNCHANGED <<status, bar2Cleared>>
    /\ IF inst + 1 < NumLce
       THEN inst' = inst + 1 /\ pc' = "bar2"
       ELSE inst' = 0 /\ pc' = "idle"
    /\ UNCHANGED <<ceIntr, raised, reported>>

\* Mutant: the loop runs while lce <= num_lce.
MthdBufferFaultInBar2FaultPastEnd ==
    /\ pc = "bar2"
    /\ IF "mthd_buffer_fault" \in status[inst]
       THEN /\ status' = [status EXCEPT ![inst] = @ \ {"mthd_buffer_fault"}]
            /\ bar2Cleared' = [bar2Cleared EXCEPT ![inst] = @ + 1]
       ELSE UNCHANGED <<status, bar2Cleared>>
    /\ IF inst + 1 <= NumLce
       THEN inst' = inst + 1 /\ pc' = "bar2"
       ELSE inst' = 0 /\ pc' = "idle"
    /\ UNCHANGED <<ceIntr, raised, reported>>

(* One iteration of the loop over lce: read its status register and, if a *)
(* method-buffer fault is pending, write its reset bit alone; the fault is *)
(* logged, not reported.                                                  *)
MthdBufferFaultInBar2Fault ==
    /\ pc = "bar2"
    /\ IF "mthd_buffer_fault" \in status[inst]
       THEN /\ status' = [status EXCEPT ![inst] = @ \ {"mthd_buffer_fault"}]
            /\ bar2Cleared' = [bar2Cleared EXCEPT ![inst] = @ + 1]
       ELSE UNCHANGED <<status, bar2Cleared>>
    /\ IF inst + 1 < NumLce
       THEN inst' = inst + 1 /\ pc' = "bar2"
       ELSE inst' = 0 /\ pc' = "idle"
    /\ UNCHANGED <<ceIntr, raised, reported>>

\* The steps of the interrupt thread once it has started on something.
IntrThread ==
    \/ Gv11bCeStallIsr
    \/ Gp10bCeStallIsr
    \/ MthdBufferFaultInBar2Fault

Next ==
    \/ \E l \in Lces, k \in Bits : HwRaise(l, k)
    \/ \E l \in Lces : StallIsrRead(l)
    \/ IntrThread
    \/ Bar2Fault

(* The interrupt thread, once running, finishes what it started.  The     *)
(* stall line of an LCE stays asserted while a bit is pending, and the    *)
(* stall ISR services every pending unit each time it runs, so an LCE     *)
(* pending again and again is serviced (strong fairness).  The hardware   *)
(* and BAR2 faults are the environment and need not happen.               *)
Fairness ==
    /\ WF_vars(IntrThread)
    /\ \A l \in Lces : SF_vars(StallIsrRead(l))

Spec == Init /\ [][Next]_vars /\ Fairness

-----------------------------------------------------------------------------
(* Properties.                                                             *)

CeTypeOK ==
    /\ status \in [Lces -> SUBSET Bits]
    /\ pc \in {"idle", "gv11b", "gp10b", "bar2"}
    /\ inst \in Lces
    /\ ceIntr \subseteq Bits
    /\ raised \in [Lces -> [Bits -> 0..MaxRaise]]
    /\ reported \in [Lces -> [Bits -> Nat]]
    /\ bar2Cleared \in [Lces -> Nat]

(* Every fault the hardware raised is accounted for exactly once: it was  *)
(* reported by the stall ISR, cleared by the BAR2 path (method-buffer     *)
(* faults only), or is still pending.  None is cleared unseen and none is *)
(* reported twice: both paths write back only the reset bits of what they *)
(* handled, though the hardware raises other bits between their read and  *)
(* their write.                                                            *)
EveryFaultAccounted ==
    \A l \in Lces, k \in Bits :
        raised[l][k] =
            reported[l][k]
            + (IF k = "mthd_buffer_fault" THEN bar2Cleared[l] ELSE 0)
            + (IF k \in status[l] THEN 1 ELSE 0)

(* A pending fault does not stay pending: the interrupt thread eventually  *)
(* clears every bit the hardware sets.                                    *)
PendingFaultsCleared ==
    \A l \in Lces, k \in Bits : (k \in status[l]) ~> (k \notin status[l])

=============================================================================
