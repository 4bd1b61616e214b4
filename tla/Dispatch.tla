------------------------------ MODULE Dispatch ------------------------------
(***************************************************************************)
(* The translator's main loop (main.cc) with the code it drives: the       *)
(* interpreter that builds basic blocks, executeJIT, basicBlock::run and   *)
(* regionCFG::run.  Granularity: one guest instruction with its delay slot *)
(* per step, interpreted or compiled, so that SIGINT can strike between    *)
(* any two; the bookkeeping between instructions is one step per call.     *)
(***************************************************************************)
EXTENDS BlockGraph

CONSTANTS
  Aug,          \* globals::cfgAug: "none" or "head"
  EnableBoth    \* globals::enableBoth

ASSUME OptionsAssumption == Aug \in {"none", "head"} /\ EnableBoth \in BOOLEAN

VARIABLES
  prog,   \* the guest program
  g,      \* blocks, instruction map and region finder
  cBB,    \* globals::cBB
  pc,     \* s->pc
  brk,    \* s->brk
  mode,   \* "loop" main loop, "run" basicBlock::run, "cfg" compiled code,
          \* "post" the end of executeJIT, "exit" after the shutdown
  unit,   \* the block whose executeJIT is in progress, or None
  todo,   \* iterations basicBlock::run has left
  at      \* <<block, index>> in the compiled code, or <<>>

vars == <<prog, g, cBB, pc, brk, mode, unit, todo, at>>

Init ==
  /\ prog \in Programs
  /\ g = newBlock(EmptyGraph, 0)
  /\ cBB = 0
  /\ pc = 0
  /\ brk = FALSE
  /\ mode = "loop"
  /\ unit = None
  /\ todo = 0
  /\ at = <<>>

Kind(a) == prog[a].kind

-----------------------------------------------------------------------------
(* executeJIT returns false: the block is still being built, or the pc is  *)
(* not its entry.  interpretAndBuildCFG then appends the instruction at pc *)
(* to cBB and executes it.                                                 *)
NotReady == mode = "loop" /\ ~brk /\ (~g.blk[cBB].ro \/ pc # cBB)

(* Mutant: an unfinished block does not end the collection.                *)
BuildingKeepsTrace(h) == h

Building(h) == [h EXCEPT !.rf = disableRegionCollection(@)]

Appended == addIns(Building(g), cBB, pc)

BuildPlain ==
  /\ NotReady
  /\ Kind(pc) \in {"alu", "nc", "teq"}
  /\ g' = Appended
  /\ pc' = pc + 1
  /\ UNCHANGED <<prog, cBB, brk, mode, unit, todo, at>>

(* A branch, jump or monitor call ends the block.  The not-taken side of a *)
(* branch-likely skips the delay slot but still appends it.                *)
BuildEnd ==
  /\ NotReady
  /\ EndsBlock(Kind(pc))
  /\ \E q \in NextPcs(prog, pc) :
       LET t == setTermAddr(Appended, cBB, pc)
           l == IF Kind(pc) = "brl" THEN setBranchLikely(t, cBB) ELSE t
           d == IF isBranchOrJump(Kind(pc)) THEN addIns(l, cBB, pc + 1) ELSE l
       IN /\ g' = getNextBlock(prog, d, cBB, q)
          /\ cBB' = q
          /\ pc' = q
  /\ UNCHANGED <<prog, brk, mode, unit, todo, at>>

(* sync deletes every block, the one it stands in included.                *)
BuildSync ==
  /\ NotReady
  /\ Kind(pc) = "sync"
  /\ g' = newBlock(dropAllBBs(Appended), pc + 1)
  /\ cBB' = pc + 1
  /\ pc' = pc + 1
  /\ UNCHANGED <<prog, brk, mode, unit, todo, at>>

(* break, syscall, or a teq that traps.                                    *)
BuildStop ==
  /\ NotReady
  /\ Kind(pc) \in {"halt", "teq"}
  /\ g' = Appended
  /\ brk' = TRUE
  /\ pc' \in IF Kind(pc) = "halt" THEN {pc, pc + 1} ELSE {pc}
  /\ UNCHANGED <<prog, cBB, mode, unit, todo, at>>

-----------------------------------------------------------------------------
(* executeJIT on a finished block: the region finder sees the block, and a *)
(* region that closes here is counted and, once it has been seen often     *)
(* enough, compiled.  typed is the verdict of buildCFG's floating-point      *)
(* analysis, which only matters with --both=false.                         *)
CanCompileAll(r, blocks) ==
  \A x \in blocks : \A a \in ToSet(r.blk[x].ins) : canCompileInstr(Kind(a))

(* Mutant: hasRegion is set whether or not buildCFG succeeds.              *)
CompiledAnyway(r, blocks, typed) ==
  [r EXCEPT !.blk[cBB].code = IF typed /\ CanCompileAll(r, blocks)
                              THEN buildCFG(prog, r, cBB, blocks) ELSE None,
            !.blk[cBB].has = TRUE, !.blk[cBB].traces = {}]

Compiled(r, blocks, typed) ==
  IF typed /\ CanCompileAll(r, blocks)
  THEN [r EXCEPT !.blk[cBB].code = buildCFG(prog, r, cBB, blocks),
                 !.blk[cBB].has = TRUE, !.blk[cBB].traces = {}]
  ELSE [r EXCEPT !.blk[cBB].code = None]

RegionClosed(h, region, typed, up) ==
  LET r == addRegion(joinRegions(h, cBB, region), cBB, region)
      can == canCompileRegion(prog, r, region)
      blocks == TraceBlocks(r, cBB)
                \cup (IF Aug = "head" THEN AugBlocks(prog, r, cBB, up) ELSE {})
  IN IF enoughRegions(r, cBB) /\ can
     THEN Compiled(r, blocks, typed)
     ELSE [r EXCEPT !.blk[cBB].has = FALSE,
                    !.blk[cBB].traces = IF can THEN @ ELSE {}]

Dispatched ==
  IF RegionComplete(g.rf, cBB)
  THEN \E typed \in {TRUE, EnableBoth},
          up \in (IF Aug = "head" THEN BOOLEAN ELSE {TRUE}) :
         g' = RegionClosed([g EXCEPT !.rf = getRegion(update(@, cBB))],
                           g.rf.hist, typed, up)
  ELSE g' = [g EXCEPT !.rf = update(@, cBB)]

(* Compiled code runs if there is some and no trace is being collected;    *)
(* otherwise the block is interpreted.  That hasRegion means there is code *)
(* is an invariant (RegionFlagAgrees), so a step of a missing code is an   *)
(* error of evaluation.                                                    *)
ExecuteJIT ==
  /\ mode = "loop" /\ ~brk
  /\ g.blk[cBB].ro /\ pc = cBB
  /\ Dispatched
  /\ unit' = cBB
  /\ \/ /\ g'.blk[cBB].has /\ ~g'.rf.on
        /\ mode' = "cfg"
        /\ at' = <<cBB, 1>>
        /\ UNCHANGED todo
     \/ /\ ~g'.blk[cBB].has \/ g'.rf.on
        /\ mode' = "run"
        /\ todo' = g.blk[cBB].term - cBB + 1
        /\ UNCHANGED at
  /\ UNCHANGED <<prog, cBB, pc, brk>>

-----------------------------------------------------------------------------
(* basicBlock::run interprets whatever stands at pc, one call per word up  *)
(* to termAddr.                                                            *)
Interpreting == mode = "run" /\ todo > 0 /\ ~brk

RunPlain ==
  /\ Interpreting
  /\ Kind(pc) \in {"alu", "nc", "teq"}
  /\ pc' = pc + 1
  /\ todo' = todo - 1
  /\ UNCHANGED <<prog, g, cBB, brk, mode, unit, at>>

RunTrap ==
  /\ Interpreting
  /\ Kind(pc) = "teq"
  /\ brk' = TRUE
  /\ todo' = todo - 1
  /\ UNCHANGED <<prog, g, cBB, pc, mode, unit, at>>

(* The handler calls getNextBlock on cBB, which moves to the next block.   *)
RunEnd ==
  /\ Interpreting
  /\ EndsBlock(Kind(pc))
  /\ \E q \in NextPcs(prog, pc) :
       /\ g' = getNextBlock(prog, g, cBB, q)
       /\ cBB' = q
       /\ pc' = q
  /\ todo' = todo - 1
  /\ UNCHANGED <<prog, brk, mode, unit, at>>

(* The loop is done: run looks the next block up from the block it ran.    *)
RunReturn ==
  /\ mode = "run" /\ (todo = 0 \/ brk)
  /\ g' = findBlock(prog, g, unit, pc)
  /\ mode' = "post"
  /\ todo' = 0
  /\ UNCHANGED <<prog, cBB, pc, brk, unit, at>>

(* regionCFG::run: one instruction of the compiled copy of block at[1].    *)
(* Leaving the region stores the pc and the block left (abortloc); the     *)
(* next block is looked up without touching the graph.                     *)
Code == g.blk[unit].code

CodePc == Code.ins[at[1]][at[2]]

LeavesBlock == isBranchOrJump(Kind(CodePc)) \/ at[2] = Len(Code.ins[at[1]])

CfgWithin ==
  /\ mode = "cfg"
  /\ ~LeavesBlock
  /\ at' = <<at[1], at[2] + 1>>
  /\ UNCHANGED <<prog, g, cBB, pc, brk, mode, unit, todo>>

CfgEdge ==
  /\ mode = "cfg"
  /\ LeavesBlock
  /\ \E q \in NextPcs(prog, CodePc) \cap Code.next[at[1]] : at' = <<q, 1>>
  /\ UNCHANGED <<prog, g, cBB, pc, brk, mode, unit, todo>>

(* Mutant: compiled code returns without storing the pc.                   *)
CfgAbortKeepsPc ==
  /\ mode = "cfg"
  /\ LeavesBlock
  /\ NextPcs(prog, CodePc) \ Code.next[at[1]] # {}
  /\ cBB' = at[1]
  /\ mode' = "post"
  /\ at' = <<>>
  /\ UNCHANGED <<prog, g, pc, brk, unit, todo>>

CfgAbort ==
  /\ mode = "cfg"
  /\ LeavesBlock
  /\ pc' \in NextPcs(prog, CodePc) \ Code.next[at[1]]
  /\ cBB' = at[1]
  /\ mode' = "post"
  /\ at' = <<>>
  /\ UNCHANGED <<prog, g, brk, unit, todo>>

(* Mutant: cBB does not move on.                                            *)
PostKeepsBlock ==
  /\ mode = "post"
  /\ g' = IF g.blk[pc] = None THEN newBlockAfter(g, pc, cBB) ELSE g
  /\ mode' = "loop"
  /\ unit' = None
  /\ UNCHANGED <<prog, cBB, pc, brk, todo, at>>

(* The end of executeJIT: create the next block if there is none, count it *)
(* as a region head unless it has compiled code, and move on to it.        *)
Post ==
  /\ mode = "post"
  /\ LET n == IF g.blk[pc] = None THEN newBlockAfter(g, pc, cBB) ELSE g
     IN IF n.blk[pc].has
        THEN g' = n
        ELSE \E reused \in BOOLEAN :
               g' = [n EXCEPT !.rf = updateRegionHeads(@, pc, cBB, reused)]
  /\ cBB' = pc
  /\ mode' = "loop"
  /\ unit' = None
  /\ UNCHANGED <<prog, pc, brk, todo, at>>

-----------------------------------------------------------------------------
(* SIGINT: brk is set and longjmp abandons whatever was in progress.       *)
Interrupt ==
  /\ ~brk
  /\ brk' = TRUE
  /\ mode' = "loop"
  /\ unit' = None
  /\ todo' = 0
  /\ at' = <<>>
  /\ UNCHANGED <<prog, g, cBB, pc>>

Shutdown ==
  /\ mode = "loop" /\ brk
  /\ mode' = "exit"
  /\ g' = dropAllBBs(g)
  /\ cBB' = None
  /\ UNCHANGED <<prog, pc, brk, unit, todo, at>>

Exited == mode = "exit" /\ UNCHANGED vars

Next ==
  \/ BuildPlain \/ BuildEnd \/ BuildSync \/ BuildStop
  \/ ExecuteJIT
  \/ RunPlain \/ RunTrap \/ RunEnd \/ RunReturn
  \/ CfgWithin \/ CfgEdge \/ CfgAbort
  \/ Post
  \/ Interrupt \/ Shutdown
  \/ Exited

(* A single thread that never waits: the loop takes a step whenever it can *)
(* take one.  SIGINT need never arrive.                                    *)
Loop ==
  \/ BuildPlain \/ BuildEnd \/ BuildSync \/ BuildStop
  \/ ExecuteJIT
  \/ RunPlain \/ RunEnd \/ RunReturn
  \/ CfgWithin \/ CfgEdge \/ CfgAbort
  \/ Post \/ Shutdown

Spec == Init /\ [][Next]_vars /\ WF_vars(Loop)
=============================================================================
