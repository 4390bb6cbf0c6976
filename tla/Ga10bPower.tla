------------------------------ MODULE Ga10bPower ------------------------------
(***************************************************************************)
(* The GA10B state programmed at power-on: the compbit backing store and   *)
(* comptag lines (Cbc) and the clock-gating registers (Gating).  The GPU   *)
(* is railgated and powered on again at any time; a power-on runs          *)
(* g->ops.cbc.alloc_comptags and, if it succeeded, g->ops.cbc.init, and a *)
(* failed one leaves the GPU to be railgated and retried.  Gating lists    *)
(* are loaded whenever the GPU is powered, during power-on or later.      *)
(* Railgating resets every register; the software state of struct         *)
(* nvgpu_cbc and the store survive it.                                     *)
(*                                                                         *)
(* The power-on sequence is nvgpu_finalize_poweron() and                   *)
(* nvgpu_cbc_init_support(), outside this tree.                            *)
(***************************************************************************)
EXTENDS Cbc, Gating

VARIABLE step   \* "off", "cbc_alloc", "cbc_init", "on" or "failed"

vars == <<step, cbcVars, gatingVars>>

Init ==
    /\ step = "off"
    /\ CbcInit
    /\ GatingInit

\* The GPU is powered on (unrailgated) and starts its power-on sequence.
PowerOn ==
    /\ step = "off"
    /\ step' = "cbc_alloc"
    /\ UNCHANGED <<cbcVars, gatingVars>>

\* The power-on sequence calls ga10b_cbc_alloc_comptags(); an error fails it.
CbcAllocComptags ==
    /\ step = "cbc_alloc"
    /\ \E storeOk, allocOk \in BOOLEAN : Ga10bCbcAllocComptags(storeOk, allocOk)
    /\ step' = IF cbcRet' = "err" THEN "failed" ELSE "cbc_init"
    /\ UNCHANGED gatingVars

\* Then ga10b_cbc_init(), and the GPU is on.
CbcInitCall ==
    /\ step = "cbc_init"
    /\ Ga10bCbcInit
    /\ step' = "on"
    /\ UNCHANGED gatingVars

\* A gating list is loaded (prod or disable) while the GPU is powered.
LoadGating ==
    /\ step # "off"
    /\ \E l \in LoadedLists, prod \in BOOLEAN : LoadGatingProd(l, prod)
    /\ UNCHANGED <<step, cbcVars>>

\* The GPU is railgated, after a power-on that finished or failed.
PowerOff ==
    /\ step \in {"on", "failed"}
    /\ step' = "off"
    /\ GatingReset
    /\ UNCHANGED cbcVars

Next ==
    \/ PowerOn
    \/ CbcAllocComptags
    \/ CbcInitCall
    \/ LoadGating
    \/ PowerOff

Spec == Init /\ [][Next]_vars

-----------------------------------------------------------------------------
Ga10bTypeOK ==
    /\ step \in {"off", "cbc_alloc", "cbc_init", "on", "failed"}
    /\ CbcTypeOK
    /\ GatingTypeOK

=============================================================================
