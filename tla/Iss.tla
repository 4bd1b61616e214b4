-------------------------------- MODULE Iss --------------------------------
(***************************************************************************)
(* What the simulator promises: the instruction-set simulation itself.     *)
(* One step interprets the instruction at pc together with its delay slot, *)
(* as the main loop does with --cfg=false (main.cc), until a break, a      *)
(* syscall, a trap or SIGINT sets brk.                                     *)
(***************************************************************************)
EXTENDS Guest

VARIABLES prog, pc, brk

vars == <<prog, pc, brk>>

Init ==
  /\ prog \in Programs
  /\ pc = 0
  /\ brk = FALSE

Step ==
  /\ ~brk
  /\ prog[pc].kind # "halt"
  /\ pc' \in NextPcs(prog, pc)
  /\ UNCHANGED <<prog, brk>>

(* break leaves the pc alone, syscall moves past itself.                   *)
Halt ==
  /\ ~brk
  /\ prog[pc].kind = "halt"
  /\ pc' \in {pc, pc + 1}
  /\ brk' = TRUE
  /\ UNCHANGED prog

Trap ==
  /\ ~brk
  /\ prog[pc].kind = "teq"
  /\ brk' = TRUE
  /\ UNCHANGED <<prog, pc>>

(* SIGINT stops the simulation; where it leaves pc is not promised.        *)
Interrupt ==
  /\ ~brk
  /\ brk' = TRUE
  /\ pc' \in Addr \cup {a + 1 : a \in Addr}
  /\ UNCHANGED prog

Next == Step \/ Halt \/ Trap \/ Interrupt

(* The simulator keeps retiring instructions until it is told to stop:     *)
(* WF_vars(Step \/ Halt), written out, since one of the two is enabled     *)
(* exactly when brk is not set.                                            *)
Progress == []<>brk \/ []<><<Step \/ Halt>>_vars

Spec == Init /\ [][Next]_vars /\ Progress
=============================================================================
