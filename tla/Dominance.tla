----------------------------- MODULE Dominance -----------------------------
(***************************************************************************)
(* What regionCFG::analyzeGraph works out about the shape of a region      *)
(* before it generates code, step by step.                                 *)
(***************************************************************************)
EXTENDS Dominators

VARIABLES
  succs,    \* the region's edges, and the entry block's
  idom,     \* cfgBasicBlock::idombb
  dfn,      \* the numbers of fastDominancePreComputation
  df,       \* cfgBasicBlock::dfrontier
  loops,    \* the natural loops
  phase     \* how far analyzeGraph is

Built(g) ==
  /\ succs = g
  /\ idom = [b \in cfgBlocks(g) |-> None]
  /\ dfn = <<>> /\ df = <<>> /\ loops = {}
  /\ phase = "built"

ComputeDominance ==
  /\ phase = "built"
  /\ idom' = computeDominance(succs)
  /\ phase' = "dominators"
  /\ UNCHANGED <<succs, dfn, df, loops>>

ComputeLengauerTarjan ==
  /\ phase = "built"
  /\ idom' = LengauerTarjan(succs)
  /\ phase' = "dominators"
  /\ UNCHANGED <<succs, dfn, df, loops>>

FastDominance ==
  /\ phase = "dominators"
  /\ dfn' = fastDominancePreComputation(idom)
  /\ phase' = "numbers"
  /\ UNCHANGED <<succs, idom, df, loops>>

ComputeFrontiers ==
  /\ phase = "numbers"
  /\ df' = dfrontier(succs, idom)
  /\ phase' = "frontiers"
  /\ UNCHANGED <<succs, idom, dfn, loops>>

FindNaturalLoops ==
  /\ phase = "frontiers"
  /\ loops' = naturalLoops(succs, dfn)
  /\ phase' = "loops"
  /\ UNCHANGED <<succs, idom, dfn, df>>

CfgBlocks == cfgBlocks(succs)

-----------------------------------------------------------------------------
(* What dominance is: every path from the entry to b goes through a.       *)
Dominates(a, b) == b \notin Reach(succs, entryBlock, {a})
StrictlyDominates(a, b) == a # b /\ Dominates(a, b)

(* Either algorithm finds the immediate dominator of every block: it       *)
(* dominates the block, and every other dominator of the block dominates   *)
(* it.                                                                     *)
IdomIsImmediate ==
  phase = "dominators" =>
    \A b \in CfgBlocks \ {entryBlock} :
      /\ StrictlyDominates(idom[b], b)
      /\ \A a \in CfgBlocks : StrictlyDominates(a, b) => Dominates(a, idom[b])

(* The numbers, the walk up the tree and the definition agree on every     *)
(* pair: the check that fastDominancePreComputation leaves disabled.       *)
DominanceQueriesAgree ==
  phase = "numbers" =>
    \A a \in CfgBlocks, b \in CfgBlocks :
      /\ fastDominates(dfn, a, b) <=> Dominates(a, b)
      /\ dominates(idom, a, b) <=> Dominates(a, b)

(* What the passes after it ask of dominance: each block's immediate       *)
(* dominator is right, and both ways to ask who dominates whom.            *)
DominatorsAreRight == IdomIsImmediate /\ DominanceQueriesAgree

(* A block's frontier is where its dominance ends: the joins with a        *)
(* predecessor it dominates that it does not strictly dominate. Renaming   *)
(* needs a phi exactly there.                                              *)
FrontierEndsDominance ==
  phase = "frontiers" =>
    \A b \in CfgBlocks, x \in CfgBlocks :
      x \in df[b] <=> /\ ~StrictlyDominates(b, x)
                      /\ \E p \in Preds(succs, x) : Dominates(b, p)

(* The head of a loop dominates all of it, every block of the loop can get *)
(* back to the head inside it, and two loops are apart or one in another.  *)
LoopsAreNatural ==
  phase = "loops" =>
    \A l \in loops :
      /\ \A b \in l.loop :
           /\ Dominates(l.head, b)
           /\ \E x \in succs[b] : l.head \in Reach(succs, x, CfgBlocks \ l.loop)
      /\ \A m \in loops : l.loop \cap m.loop = {} \/ l.loop \subseteq m.loop
                          \/ m.loop \subseteq l.loop
=============================================================================
