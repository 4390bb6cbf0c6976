--------------------------- MODULE MC_AcrBootstrap ---------------------------
(***************************************************************************)
(* The ACR bootstrap in the PMU VM of MC_Gmmu: the BL ucode "bl" is a     *)
(* one-page sysmem buffer mapped at a kernel VA, beside a kernel buffer   *)
(* "k1" that another owner maps and unmaps.  The kernel VA region 2..3    *)
(* holds one of the two mappings, so the BL map fails while k1 is mapped *)
(* and the BL reuses the VA k1 had, with k1's translations in the TLB.   *)
(***************************************************************************)
EXTENDS AcrBootstrap

MCLevels ==
    0 :> [hi |-> (0 :> 4 @@ 1 :> 4), lo |-> (0 :> 3 @@ 1 :> 3), entry_size |-> 8] @@
    1 :> [hi |-> (0 :> 2 @@ 1 :> 2), lo |-> (0 :> 1 @@ 1 :> 2), entry_size |-> 8]

MCPageSizes == 0 :> 2 @@ 1 :> 4 @@ 2 :> 2

MCVaPgsz == [v \in 0..31 |-> IF v < 24 THEN GmmuPageSizeSmall ELSE GmmuPageSizeBig]

MCAllocVa ==
    GmmuPageSizeKernel :> 2..3 @@ GmmuPageSizeSmall :> {} @@ GmmuPageSizeBig :> {}

MCBacking ==
    "k1" :> [aperture |-> ApertureSysmem, iova |-> 100,
             chunks |-> <<[base |-> 40, len |-> 2]>>] @@
    "bl" :> [aperture |-> ApertureSysmem, iova |-> 140,
             chunks |-> <<[base |-> 90, len |-> 2]>>]

MCBufPgsz == "k1" :> GmmuPageSizeKernel @@ "bl" :> GmmuPageSizeKernel

MCFixedVa == "k1" :> {} @@ "bl" :> {}

MCKernelBufs == {"k1", "bl"}

=============================================================================
