--------------------------- MODULE MC_HomePages ---------------------------
(* Two AGVs and the two months of a very short calendar. *)
EXTENDS HomePages
=============================================================================
