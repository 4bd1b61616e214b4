---------------------------- MODULE Dominators -----------------------------
(***************************************************************************)
(* The graph algorithms of regionCFG: the immediate dominator of every     *)
(* block, by either of two algorithms, the numbers that answer "does A     *)
(* dominate B" at once, the dominance frontiers, and the natural loops.    *)
(*                                                                         *)
(* Block 0 is the entry block analyzeGraph adds in front of the region's   *)
(* head. Sets of blocks are walked in the order of the blocks' addresses,  *)
(* which is the order of their numbers here; every numbering is tried.     *)
(***************************************************************************)
EXTENDS Integers, FiniteSets, Sequences, SequencesExt, FiniteSetsExt

entryBlock == 0
None == -1

(* A region is the function from its blocks to their successors; the       *)
(* algorithms' results are functions of the same blocks.                   *)
cfgBlocks(g) == DOMAIN g
Preds(g, b) == {p \in cfgBlocks(g) : b \in g[p]}
InOrder(S) == SetToSortSeq(S, <)

(* The blocks reached from b without entering the blocks in without.       *)
Reach(g, b, without) ==
  LET grow(S) == S \cup (UNION {g[x] : x \in S} \ without)
      n == Cardinality(cfgBlocks(g))
      steps[i \in 0 .. n] == IF i = 0 THEN {b} \ without ELSE grow(steps[i - 1])
  IN steps[n]

(* buildCFG gives up on a region with a block its head does not reach.     *)
allBlocksReachable(g) == Reach(g, entryBlock, {}) = cfgBlocks(g)

-----------------------------------------------------------------------------
(* computeDominance: the dominators of every block by iteration, in depth- *)
(* first order, to a fixed point, and the nearest of them.                 *)

RECURSIVE Visit(_, _, _)
Visit(g, seen, b) ==
  IF Contains(seen, b) THEN seen
  ELSE FoldLeft(LAMBDA s, x : Visit(g, s, x), Append(seen, b), InOrder(g[b]))

preOrder(g) == Visit(g, <<>>, entryBlock)

Refine(g, dom, b) ==
  [dom EXCEPT ![b] = (@ \cap {d \in cfgBlocks(g) : \A p \in Preds(g, b) : d \in dom[p]}) \cup {b}]

RECURSIVE Settle(_, _)
Settle(g, dom) ==
  LET next == FoldLeft(LAMBDA d, b : Refine(g, d, b), dom, preOrder(g))
  IN IF next = dom THEN dom ELSE Settle(g, next)

(* Each dominator that is still there strikes out the others it has. The   *)
(* sets of blocks earlier in the order are cut down already, to their      *)
(* immediate dominator; it is enough.                                      *)
Nearest(g, dom, b) ==
  LET strike(S, j) == IF j \in S THEN S \ (dom[j] \ {j}) ELSE S
  IN [dom EXCEPT ![b] = FoldLeft(strike, dom[b] \ {b}, preOrder(g))]

computeDominance(g) ==
  LET dom == Settle(g, [b \in cfgBlocks(g) |-> IF b = entryBlock THEN {entryBlock} ELSE cfgBlocks(g)])
      near == FoldLeft(LAMBDA d, b : Nearest(g, d, b), dom, Tail(preOrder(g)))
      first(b) == SelectInSeq(preOrder(g), LAMBDA x : x \in near[b])
  IN [b \in cfgBlocks(g) |-> IF b = entryBlock THEN None ELSE preOrder(g)[first(b)]]

-----------------------------------------------------------------------------
(* LengauerTarjanDominators. t holds its maps: Sdno, Ancestor, Label,      *)
(* Buckets and the immediate dominators.                                   *)

RECURSIVE Parents(_, _, _)
Parents(g, t, b) ==
  FoldLeft(LAMBDA s, x : IF Contains(s.order, x) THEN s
                         ELSE Parents(g, [s EXCEPT !.order = Append(@, x), !.parent[x] = b], x),
           t, InOrder(g[b]))

DFS(g) ==
  Parents(g, [order |-> <<entryBlock>>, parent |-> [b \in cfgBlocks(g) |-> None]], entryBlock)

RECURSIVE Compress(_, _)
Compress(t, b) ==
  LET a == t.ancestor[b]
      u == Compress(t, a)
  IN IF t.ancestor[a] = None THEN t
     ELSE [u EXCEPT
       !.label[b] = IF u.sdno[u.label[a]] < u.sdno[u.label[b]] THEN u.label[a] ELSE @,
       !.ancestor[b] = u.ancestor[a]]

Compressed(t, b) == IF t.ancestor[b] = None THEN t ELSE Compress(t, b)
Eval(t, b) == IF t.ancestor[b] = None THEN b ELSE Compress(t, b).label[b]

(* The semidominator of w, over its predecessors.                          *)
Semi(t, w, p) ==
  LET u == Eval(t, p)
  IN [Compressed(t, p) EXCEPT !.sdno[w] = IF t.sdno[u] < @ THEN t.sdno[u] ELSE @]

(* A block of w's parent's bucket gets its dominator, or defers to one.    *)
Resolve(t, w, v) ==
  LET u == Eval(t, v)
  IN [Compressed(t, v) EXCEPT !.idom[v] = IF t.sdno[u] < t.sdno[v] THEN u ELSE t.parent[w]]

Process(g, t, w) ==
  LET s == FoldLeft(LAMBDA x, p : Semi(x, w, p), t, InOrder(Preds(g, w)))
      filed == [s EXCEPT !.buckets[s.order[s.sdno[w]]] = @ \cup {w},
                         !.ancestor[w] = s.parent[w]]
      mine == filed.buckets[s.parent[w]]
  IN [FoldLeft(LAMBDA x, v : Resolve(x, w, v), filed, InOrder(mine))
        EXCEPT !.buckets[s.parent[w]] = {}]

LTStart(g) ==
  LET d == DFS(g)
  IN [sdno |-> [b \in cfgBlocks(g) |-> CHOOSE i \in DOMAIN d.order : d.order[i] = b],
      ancestor |-> [b \in cfgBlocks(g) |-> None], label |-> [b \in cfgBlocks(g) |-> b],
      buckets |-> [b \in cfgBlocks(g) |-> {}], idom |-> [b \in cfgBlocks(g) |-> None],
      parent |-> d.parent, order |-> d.order]

(* Mutant: the deferred dominators are left as they are.                   *)
LengauerTarjanUndeferred(g) ==
  LET d == LTStart(g)
  IN FoldLeft(LAMBDA t, w : Process(g, t, w), d, Reverse(Tail(d.order))).idom

LengauerTarjan(g) ==
  LET d == LTStart(g)
      t == FoldLeft(LAMBDA x, w : Process(g, x, w), d, Reverse(Tail(d.order)))
      defer(i, w) == IF i[w] = d.order[t.sdno[w]] THEN i ELSE [i EXCEPT ![w] = i[i[w]]]
  IN FoldLeft(defer, t.idom, Tail(d.order))

-----------------------------------------------------------------------------
(* fastDominancePreComputation: each block's number in a walk of the       *)
(* dominator tree, and the last number given out below it.                 *)

DTSuccs(idom, b) == {x \in cfgBlocks(idom) : idom[x] = b}

RECURSIVE Number(_, _, _)
Number(idom, t, b) ==
  LET entered == [t EXCEPT !.cnt = @ + 1, !.dfn[b] = t.cnt + 1]
      left == FoldLeft(LAMBDA s, x : Number(idom, s, x), entered, InOrder(DTSuccs(idom, b)))
  IN [left EXCEPT !.max[b] = left.cnt]

fastDominancePreComputation(idom) ==
  Number(idom, [cnt |-> 0, dfn |-> [b \in cfgBlocks(idom) |-> -1],
                max |-> [b \in cfgBlocks(idom) |-> -1]], entryBlock)

fastDominates(d, a, b) == a = b \/ (d.dfn[a] < d.dfn[b] /\ d.max[a] >= d.dfn[b])

(* cfgBasicBlock::dominates, up the dominator tree.                        *)
RECURSIVE Climb(_, _, _)
Climb(idom, a, p) == p # None /\ (p = a \/ Climb(idom, a, idom[p]))

dominates(idom, a, b) ==
  a = b \/ idom[b] = a \/ (idom[a] # b /\ Climb(idom, a, idom[b]))

(* computeDominanceFrontiers: from each predecessor of a join up to the    *)
(* join's dominator.                                                       *)
RECURSIVE Runners(_, _, _)
Runners(idom, b, p) == IF p = idom[b] THEN {} ELSE {p} \cup Runners(idom, b, idom[p])

(* Mutant: the walk stops at the predecessor.                              *)
dfrontierShort(g, idom) ==
  [b \in cfgBlocks(g) |->
     {x \in cfgBlocks(g) : Cardinality(Preds(g, x)) > 1 /\ b \in Preds(g, x) /\ idom[x] # b}]

dfrontier(g, idom) ==
  [b \in cfgBlocks(g) |->
     {x \in cfgBlocks(g) : /\ Cardinality(Preds(g, x)) > 1
                        /\ \E p \in Preds(g, x) : b \in Runners(idom, x, p)}]

-----------------------------------------------------------------------------
(* findNaturalLoops. A back edge ends in a block that dominates it.        *)

RECURSIVE findLoop(_, _, _, _)
findLoop(g, loop, stack, h) ==
  IF stack = <<>> THEN loop
  ELSE LET c == Head(stack)
           in == loop \cup {c}
           more == IF c = h THEN <<>> ELSE Reverse(InOrder(Preds(g, c) \ in))
       IN findLoop(g, in, more \o Tail(stack), h)

BackEdges(g, d) ==
  {e \in cfgBlocks(g) \X cfgBlocks(g) : e[2] \in g[e[1]] /\ fastDominates(d, e[2], e[1])}

(* Mutant: loops with the same head stay apart.                            *)
naturalLoopsApart(g, d) ==
  {[head |-> e[2], loop |-> findLoop(g, {}, <<e[1]>>, e[2])] : e \in BackEdges(g, d)}

(* Loops with the same head are merged.                                    *)
naturalLoops(g, d) ==
  {[head |-> h, loop |-> UNION {findLoop(g, {}, <<e[1]>>, h) : e \in {x \in BackEdges(g, d) : x[2] = h}}]
     : h \in {e[2] : e \in BackEdges(g, d)}}

-----------------------------------------------------------------------------
(* The regions of n blocks entered at one of the blocks in heads.          *)
Regions(n, heads, maxSuccs) ==
  {g \in [0 .. n -> SUBSET (1 .. n)] :
     /\ \E h \in heads : g[entryBlock] = {h}
     /\ \A b \in 0 .. n : Cardinality(g[b]) <= maxSuccs
     /\ allBlocksReachable(g)}
=============================================================================
