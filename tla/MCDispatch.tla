----------------------------- MODULE MCDispatch -----------------------------
(* The main loop on the programs of MCPrograms.                            *)
EXTENDS DispatchProps, BuildProps, MCPrograms
=============================================================================
