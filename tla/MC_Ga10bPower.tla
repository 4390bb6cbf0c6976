---------------------------- MODULE MC_Ga10bPower ----------------------------
(***************************************************************************)
(* GA10B power cycles.  The compressible memory is 1, 2 or 4 MB (16, 32 or *)
(* 64 comptag lines) against a hardware bound of 48 lines, so the clamp    *)
(* is taken; the slices, GOBs and base divisor are those the comments of   *)
(* cbc_ga10b.c give (4 slices, 16 GOBs, 2KB).  Two gr registers are        *)
(* refused under MIG, there are two active runlists, and BLCG is disabled. *)
(***************************************************************************)
EXTENDS Ga10bPower

MCMaxComptagMemValues == {1, 2, 4}

MCLoadedLists == {"slcg_gr", "slcg_runlist", "blcg_bus", "elcg_ce"}

MCMigDisallowed == {<<"slcg_gr", 0>>, <<"slcg_gr", 52>>}

=============================================================================
