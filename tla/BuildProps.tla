----------------------------- MODULE BuildProps -----------------------------
(***************************************************************************)
(* Every region the main loop compiles, built block by block.              *)
(***************************************************************************)
EXTENDS Dispatch, RegionBuild

(* executeJIT has just compiled a region for unit.                         *)
CompilesNow ==
  /\ mode = "loop" /\ unit' # None
  /\ g.blk[unit'].code = None /\ g'.blk[unit'].code # None

BuiltNow(cut) == Built(prog, g', unit', g'.blk[unit'].code.blocks, cut)

(* None of the ways buildCFG and code generation end the program.          *)
Survives(E, u) ==
  /\ \A n \in Nodes(E) : Plausible(prog, E, n)
  /\ allBlocksReachable(patchLikely(prog, E), u)

(* No region that is compiled makes buildCFG or the code generator give up *)
(* on the whole program.                                                   *)
BuildNeverDies ==
  [][CompilesNow =>
       \A E \in BuiltNow(FALSE) : Survives(E, unit')]_vars

(* The same with --splitCFGBBs, which starts a block wherever a branch of  *)
(* the region goes: "found impossible edge" is not to be seen.             *)
SplitNeverDies ==
  [][CompilesNow =>
       \A E \in BuiltNow(TRUE) : Survives(E, unit')]_vars

(* Where splitBBs takes a j to go as well: past its delay slot.            *)
AfterJump(C, n) ==
  {a + 2 : a \in {t \in Terminators(prog, C, n) : prog[t].kind = "j"}}

(* The CFG's edges are the ones its terminators take: LLVM needs a value   *)
(* for every phi from each predecessor, and from no other block.  A        *)
(* terminator enters the block that starts at the pc the guest reaches, or *)
(* aborts there, so what Dispatch runs is what the region's code does.     *)
(* The one edge too many is splitBBs's, from a j to the word after its     *)
(* delay slot.  A CFG does come of it: repairBrokenEdges ends.             *)
EmitsTheEdges ==
  [][CompilesNow =>
       /\ BuiltNow(TRUE) # {}
       /\ \A cut \in BOOLEAN : \A E \in BuiltNow(cut) :
         LET C == patchLikely(prog, E)
         IN Survives(E, unit') =>
              \A n \in Nodes(C) :
                /\ Entered(prog, C, n) \subseteq C.succs[n]
                /\ C.succs[n] \subseteq Entered(prog, C, n)
                                       \cup (IF cut THEN AfterJump(C, n) ELSE {})
                /\ RightPlace(prog, C, n)
                /\ ~cut /\ ~IsPatch(n) =>
                     Beyond(C, C.succs[n]) = g'.blk[unit'].code.next[n]]_vars

(* The edges repairBrokenEdges erases from the blocks of a region are gone *)
(* from the block graph for good.  No later build can tell: whichever      *)
(* blocks it is of, it starts from a copy it could have made had those     *)
(* edges still been there, though it repairs some blocks again and finds   *)
(* others repaired.  And no edge is left with one end only.                *)
RepairsGoUnnoticed ==
  [][CompilesNow =>
       \A worn \in repairBrokenEdges(prog, g', g'.blk[unit'].code.blocks) :
         /\ \A a, b \in Live(g') : b \in worn.blk[a].succs <=> a \in worn.blk[b].preds
         /\ \A later \in SUBSET Live(g') :
              RepairedCopies(prog, worn, later) \subseteq RepairedCopies(prog, g', later)]_vars
=============================================================================
