------------------------------- MODULE Guest -------------------------------
(***************************************************************************)
(* The guest program as the translator's control code sees it: for every   *)
(* word address the kind of the instruction and where it may transfer to.  *)
(* Register values are abstracted: a conditional branch goes either way, a *)
(* jr, jalr or monitor call returns to any of its listed targets.          *)
(*                                                                         *)
(*   alu    any instruction that compiles and falls through                *)
(*   nc     one that falls through and does not compile (ll, sc, cop0,     *)
(*          tge)                                                           *)
(*   teq    compiles, but may trap when interpreted                        *)
(*   br     conditional branch          brl   branch-likely                *)
(*   j jal  direct jumps                jr jalr  register jumps            *)
(*   mon    the reserved monitor instruction (no delay slot)               *)
(*   sync   drops every block           halt  break or syscall             *)
(***************************************************************************)
EXTENDS Words, Integers, FiniteSets

CONSTANT Programs    \* the programs under study

Kinds == {"alu", "nc", "teq", "br", "brl", "j", "jal", "jr", "jalr", "mon",
          "sync", "halt"}

Program == [Addr -> [kind: Kinds, to: SUBSET Addr]]

(* isBranchOrJump: the instructions with a delay slot.                     *)
isBranchOrJump(kind) == kind \in {"br", "brl", "j", "jal", "jr", "jalr"}

(* The instructions whose handler ends in getNextBlock.                    *)
EndsBlock(kind) == isBranchOrJump(kind) \/ kind = "mon"

(* A program the model can run: no instruction transfers to nowhere, to    *)
(* itself or off the text, a direct branch or jump has one target, and a   *)
(* delay slot holds a plain instruction.                                   *)
WellFormed(p) ==
  \A a \in Addr :
    /\ EndsBlock(p[a].kind) => p[a].to # {} /\ a \notin p[a].to
    /\ p[a].kind \notin {"halt", "mon"} => a + 1 \in Addr
    /\ isBranchOrJump(p[a].kind) => p[a + 1].kind \in {"alu", "nc"}
    /\ p[a].kind \in {"br", "brl"} => a + 2 \in Addr
    /\ p[a].kind \in {"br", "brl", "j", "jal"} => \E t \in Addr : p[a].to = {t}

ASSUME ProgramsAssumption ==
  /\ Addr \subseteq Nat /\ IsFiniteSet(Addr)
  /\ 0 \in Addr
  /\ Programs \subseteq {p \in Program : WellFormed(p)}

(* Where the instruction at a, its delay slot included, may leave the pc.  *)
NextPcs(p, a) ==
  LET kind == p[a].kind IN
  CASE kind \in {"br", "brl"} -> p[a].to \cup {a + 2}
    [] kind \in {"j", "jal", "jr", "jalr", "mon"} -> p[a].to
    [] OTHER -> {a + 1}
=============================================================================
