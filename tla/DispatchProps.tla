--------------------------- MODULE DispatchProps ---------------------------
(***************************************************************************)
(* What the translator's control must keep true, and the two abstract      *)
(* specifications it implements.                                           *)
(***************************************************************************)
EXTENDS Dispatch

-----------------------------------------------------------------------------
(* Between two dispatches the pc is where cBB begins or, while cBB is      *)
(* being built, where its next instruction goes.  Otherwise executeJIT     *)
(* would refuse a finished block for ever and the interpreter would step   *)
(* without a block to append to.                                           *)
LoopAtBlock ==
  mode = "loop" /\ ~brk =>
    pc = IF g.blk[cBB].ro THEN cBB ELSE cBB + Len(g.blk[cBB].ins)

(* basicBlock::run interprets at s->pc and trusts termAddr alone for how   *)
(* far to go: the words left are exactly the ones from pc to termAddr of   *)
(* the block it runs, and none of them is a sync, which would delete the   *)
(* block under run's feet.                                                 *)
RunCoversBlock ==
  mode = "run" /\ todo > 0 /\ ~brk =>
    /\ g.blk[unit] # None
    /\ pc + todo - 1 = g.blk[unit].term
    /\ pc \in ToSet(g.blk[unit].ins)
    /\ prog[pc].kind \notin {"sync", "halt"}
    /\ EndsBlock(prog[pc].kind) => todo = 1

(* A finished block is a run of consecutive words that ends in the first   *)
(* instruction that can leave it (with its delay slot), and termAddr says  *)
(* where run has to stop.                                                  *)
SealedShape ==
  \A b \in Live(g) :
    LET B == g.blk[b]
        n == Len(B.ins)
    IN /\ \A i \in 1 .. n : B.ins[i] = b + i - 1
       /\ B.ro =>
            /\ n > 0
            /\ B.term = BranchOf(prog, B.ins)
            /\ \A a \in ToSet(B.ins) : EndsBlock(prog[a].kind) => a = B.term

(* insMap sends every instruction of every block to a block that holds it, *)
(* so that findBlock splits a block which contains the address.            *)
InsMapCoherent ==
  /\ \A b \in Live(g) : \A a \in ToSet(g.blk[b].ins) : g.insMap[a] # None
  /\ \A a \in Addr : g.insMap[a] # None =>
       g.blk[g.insMap[a]] # None /\ a \in ToSet(g.blk[g.insMap[a]].ins)

(* basicBlock::sanityCheck: successors and predecessors mirror each other. *)
EdgesSymmetric ==
  \A a, b \in Live(g) :
    /\ b \in g.blk[a].succs <=> a \in g.blk[b].preds
    /\ g.blk[a].succs \cup g.blk[a].preds \subseteq Live(g)

(* A finished block has no edge its last instruction cannot take; in       *)
(* particular one that does not end in a jump has at most one successor,   *)
(* and only register jumps and monitor calls have more than two (the       *)
(* check in addSuccessor that ends the program).                           *)
EdgesRealizable ==
  \A b \in Live(g) :
    g.blk[b].ro /\ ~brk => g.blk[b].succs \subseteq Exits(prog, g.blk[b].ins)

(* The check in basicBlock::addSuccessor that ends the program: only       *)
(* register jumps and monitor calls have more than two successors.         *)
TwoSuccessors ==
  \A b \in Live(g) :
    LET B == g.blk[b] IN
    Cardinality(B.succs) > 2 =>
      B.ro /\ \E a \in ToSet(B.ins) : prog[a].kind \in {"jr", "jalr", "mon"}

(* A block's likely flag and its instructions agree (cfgBasicBlock::       *)
(* haslikely exits the program otherwise), whichever way it was split.     *)
LikelyFlagAgrees ==
  \A b \in Live(g) :
    g.blk[b].likely <=> \E a \in ToSet(g.blk[b].ins) : prog[a].kind = "brl"

(* What split, joinRegions and the code generator take a block to be.      *)
BlocksWellFormed == SealedShape /\ InsMapCoherent /\ LikelyFlagAgrees

-----------------------------------------------------------------------------
(* hasRegion and cfgCplr go together.  A block with the flag and no code   *)
(* would not run at all: executeJIT would create a second block with its   *)
(* entry address.                                                          *)
RegionFlagAgrees ==
  \A b \in Live(g) : g.blk[b].has <=> g.blk[b].code # None

(* The block a trace is collected for has no compiled code yet, so buildCFG *)
(* never replaces, and leaks, code that is still in use.                   *)
HeadNotCompiled == g.rf.on /\ ~brk => g.blk[g.rf.head].code = None

(* A block is compiled once, and runs compiled from then on.               *)
CompiledOnce == RegionFlagAgrees /\ HeadNotCompiled

IsPath(t) == \A i \in 1 .. Len(t) - 1 : t[i + 1] \in g.blk[t[i]].succs

(* basicBlock::validPath: the trace being collected follows edges of the   *)
(* graph, through blocks that still exist, up to the block about to run.   *)
TraceIsPath ==
  g.rf.on /\ ~brk =>
    /\ ToSet(g.rf.hist) \subseteq Live(g)
    /\ IsPath(g.rf.hist)
    /\ mode = "loop" /\ g.rf.hist # <<>> => cBB \in g.blk[Last(g.rf.hist)].succs

(* The regions recorded for a block are closed paths that start with it,   *)
(* which is what buildCFG needs to find a single head and an edge back.    *)
RegionsAreLoops ==
  \A b \in Live(g) : \A s \in g.blk[b].traces :
    LET t == s[1]
    IN t[1] = b /\ IsPath(t) /\ b \in g.blk[Last(t)].succs

(* basicBlock.hh: cfgInRegions holds the heads of the regions that include *)
(* this block.  split relies on it to throw away what it invalidates.      *)
RegionHeadsRecorded ==
  \A b \in Live(g) :
    LET B == g.blk[b]
        included == TraceBlocks(g, b)
                    \cup (IF B.code = None THEN {} ELSE B.code.blocks)
    IN \A x \in included : b \in g.blk[x].heads

(* Compiled code is a copy of its blocks as they are now: a split never    *)
(* leaves the old code behind.                                             *)
CodeIsCurrent ==
  \A b \in Live(g) : g.blk[b].code # None =>
    \A x \in g.blk[b].code.blocks : g.blk[b].code.ins[x] = g.blk[x].ins

-----------------------------------------------------------------------------
(* The instruction about to execute, whichever engine executes it.         *)
GuestPc == IF mode = "cfg" THEN CodePc ELSE pc

ISS == INSTANCE Iss WITH pc <- GuestPc

(* Interpreted, half-built, split or compiled, the blocks execute the      *)
(* guest instruction by instruction as the plain simulator would ...       *)
StepsAsIss == ISS!Init /\ [][ISS!Next]_(ISS!vars)

(* ... and do not stop doing so.                                           *)
ImplementsIss == ISS!Spec
=============================================================================
