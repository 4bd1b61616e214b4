-------------------------- MODULE MCDispatchFinder --------------------------
(* The main loop, its finder and its guest side by side, on MCPrograms.    *)
EXTENDS DispatchFinder, DispatchProps, MCPrograms
=============================================================================
