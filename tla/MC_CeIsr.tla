------------------------------- MODULE MC_CeIsr -------------------------------
(***************************************************************************)
(* Two LCEs, each fault kind raised up to MaxRaise times per LCE.  Two    *)
(* LCEs let the BAR2 loop pass over a register other than the one the    *)
(* ISR last read, and let both registers hold faults at once.             *)
(***************************************************************************)
EXTENDS CeIsr

=============================================================================
