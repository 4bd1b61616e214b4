--------------------------- MODULE MCRegionFinder ---------------------------
(* RegionFinder on three blocks, two of which share a slot of regionHeads. *)
EXTENDS RegionFinder

MCAddr == {0, 1, 2}
=============================================================================
