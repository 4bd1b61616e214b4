------------------------------- MODULE MCHost -------------------------------
(***************************************************************************)
(* What the simulator keeps about a run, one module in each behaviour: the *)
(* variables of the others stand still, at their initial values.           *)
(***************************************************************************)
EXTENDS Checkpoint, PerfMap, Counting, TLC

VARIABLE part  \* the module at work

Init ==
  /\ part \in {"Checkpoint", "PerfMap", "Counting"}
  /\ CheckpointInit /\ PerfInit /\ CountingInit
  /\ part # "Counting" => ~options.countInsns

Next ==
  /\ UNCHANGED part
  /\ \/ part = "Checkpoint" /\ CheckpointNext
        /\ UNCHANGED <<perfVars, countingVars>>
     \/ part = "PerfMap" /\ PerfNext
        /\ UNCHANGED <<checkpointVars, countingVars>>
     \/ part = "Counting" /\ CountingNext
        /\ UNCHANGED <<checkpointVars, perfVars>>

Spec == Init /\ [][Next]_<<part, checkpointVars, perfVars, countingVars>>

-----------------------------------------------------------------------------
TextAndVectors == {"text", "vectors"}
VectorWords == {<<"vectors", 0>>}
VectorOf(e) == 1

(* A loop of its own, one that ends in a branch-likely, a block that falls *)
(* through and a monitor call.                                             *)
FourBlocks ==
  {[pc |-> 0, len |-> 2, end |-> "branch"], [pc |-> 2, len |-> 3, end |-> "likely"],
   [pc |-> 5, len |-> 1, end |-> "plain"], [pc |-> 6, len |-> 1, end |-> "monitor"]}
=============================================================================
