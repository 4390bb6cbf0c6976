-------------------------- MODULE MC_PlatformClocks --------------------------
(***************************************************************************)
(* The gp10b clock table has three entries ("gpu", "pwr", "fuse").  The  *)
(* device tree may name none of them, one to three, or one too many.     *)
(* The GPC clock supports any non-empty set of rates in 1..MaxRate.       *)
(***************************************************************************)
EXTENDS PlatformClocks

CONSTANT MaxRate

MCDtClockCounts == 0..NumClkEntries + 1

MCHwRateSets == SUBSET (1..MaxRate) \ {{}}

=============================================================================
