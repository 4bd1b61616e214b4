------------------------------- MODULE Words -------------------------------
(* Addresses in the guest's text, counted in instruction words (pc >> 2).  *)
CONSTANT Addr
=============================================================================
