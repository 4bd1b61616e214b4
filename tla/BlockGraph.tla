----------------------------- MODULE BlockGraph -----------------------------
(***************************************************************************)
(* The graph of basic blocks (basicBlock.cc, basicBlock.hh) and the        *)
(* operations the interpreter and executeJIT perform on it, as operators   *)
(* on a graph record:                                                      *)
(*   blk     bbMap: the block at each entry address, or None,              *)
(*   insMap  the block each instruction was last appended to,              *)
(*   rf      the region finder, which split and dropAllBBs reset.          *)
(* Pointers to blocks are entry addresses: bbMap holds one block per entry *)
(* and only dropAllBBs deletes blocks.                                     *)
(***************************************************************************)
EXTENDS Guest, HotRegion, FiniteSets, SequencesExt

CONSTANT EnoughRegions   \* globals::enoughRegions

ASSUME EnoughRegionsAssumption == EnoughRegions \in Nat \ {0}

(***************************************************************************)
(* A block: ins is vecIns (addresses only), term is termAddr, ro readOnly, *)
(* likely branchLikely, heads cfgInRegions, traces bbRegions with their    *)
(* bbRegionCounts (<<t, k>>: t was recorded k times or more; counts above  *)
(* EnoughRegions are not told apart), has hasRegion, code cfgCplr.         *)
(* succsMap always agrees with succs here, and hasjr, hasjalr, hasmonitor  *)
(* are read off ins.  Code is a copy of its blocks' instructions and the   *)
(* edges between them.                                                     *)
(***************************************************************************)
CodeType == [blocks: SUBSET Addr, ins: [Addr -> Seq(Addr)], next: [Addr -> SUBSET Addr]]

BlockType ==
  [ins: Seq(Addr), term: Addr \cup {None}, ro: BOOLEAN, likely: BOOLEAN,
   succs: SUBSET Addr, preds: SUBSET Addr, heads: SUBSET Addr,
   traces: SUBSET (Seq(Addr) \X (1 .. EnoughRegions)), has: BOOLEAN,
   code: CodeType \cup {None}]

ASSUME NullAssumption == None \notin BlockType /\ None \notin CodeType

FreshBlock ==
  [ins |-> <<>>, term |-> None, ro |-> FALSE, likely |-> FALSE,
   succs |-> {}, preds |-> {}, heads |-> {},
   traces |-> {}, has |-> FALSE, code |-> None]

EmptyGraph ==
  [blk |-> [a \in Addr |-> None], insMap |-> [a \in Addr |-> None],
   rf |-> NewFinder]

Live(g) == {a \in Addr : g.blk[a] # None}

newBlock(g, a) == [g EXCEPT !.blk[a] = FreshBlock]

addSuccessor(g, b, s) ==
  [g EXCEPT !.blk[b].succs = @ \cup {s}, !.blk[s].preds = @ \cup {b}]

newBlockAfter(g, a, prev) == addSuccessor(newBlock(g, a), prev, a)

addIns(g, b, a) ==
  IF g.blk[b].ro THEN g
  ELSE [g EXCEPT !.blk[b].ins = Append(@, a), !.insMap[a] = b]

setTermAddr(g, b, a) ==
  IF g.blk[b].term # None THEN g ELSE [g EXCEPT !.blk[b].term = a]

setBranchLikely(g, b) == [g EXCEPT !.blk[b].likely = TRUE]

Sealed(B) ==
  [B EXCEPT !.ro = TRUE, !.code = None, !.has = FALSE, !.traces = {}]

setReadOnly(g, b) ==
  IF g.blk[b].ro THEN g ELSE [g EXCEPT !.blk[b] = Sealed(@)]

(* Discard the compiled code and the recorded regions of every head whose  *)
(* regions include b, and b's own recorded regions.                        *)
(* Mutant: the recorded regions stay.                                      *)
NukedKeepsTraces(B) ==
  [B EXCEPT !.has = IF B.code = None THEN @ ELSE FALSE, !.code = None]

Nuked(B) ==
  [B EXCEPT !.has = IF B.code = None THEN @ ELSE FALSE,
            !.code = None, !.traces = {}]

(* Mutant: only b's own code goes.                                         *)
DropOwnCode(g, b) == [g EXCEPT !.blk[b] = Nuked(@)]

dropCompiledCode(g, b) ==
  [g EXCEPT !.blk =
    [a \in Addr |->
      CASE a \in g.blk[b].heads -> Nuked(@[a])
        [] a \notin g.blk[b].heads /\ a = b -> [@[a] EXCEPT !.traces = {}]
        [] OTHER -> @[a]]]

(* The last instruction is a delay slot: it gets a block of its own, and   *)
(* b keeps its copy.                                                       *)
DelaySlotBlock(g, q) ==
  [g EXCEPT !.blk[q] = [Sealed(FreshBlock) EXCEPT !.ins = <<q>>, !.term = q],
            !.insMap[q] = q]

(* Mutants: termAddr, or the successors, stay behind.                       *)
HeadKeepsTerm(B, n, q) ==
  Sealed([B EXCEPT !.ins = SubSeq(@, 1, n), !.succs = {q}, !.likely = FALSE])

HeadKeepsSuccs(B, n, q) ==
  Sealed([B EXCEPT !.ins = SubSeq(@, 1, n), !.succs = @ \cup {q},
                   !.term = q - 1, !.likely = FALSE])

(* Otherwise b keeps the first n instructions, up to q, and a new block    *)
(* takes the rest together with b's successors.                            *)
HeadOf(B, n, q) ==
  Sealed([B EXCEPT !.ins = SubSeq(@, 1, n), !.succs = {q}, !.term = q - 1,
                   !.likely = FALSE])

(* Mutant: the tail does not inherit branchLikely.                         *)
TailNotLikely(B, n, b) ==
  Sealed([FreshBlock EXCEPT !.ins = SubSeq(B.ins, n + 1, Len(B.ins)),
                            !.term = B.term,
                            !.succs = B.succs, !.preds = {b}])

TailOf(B, n, b) ==
  Sealed([FreshBlock EXCEPT !.ins = SubSeq(B.ins, n + 1, Len(B.ins)),
                            !.term = B.term, !.likely = B.likely,
                            !.succs = B.succs, !.preds = {b}])

(* Mutant: the successors still name the block that was split.             *)
RelinkKeepsOld(S, b, q) == S \cup {q}

Relink(S, b, q) == IF b \in S THEN (S \ {b}) \cup {q} ELSE S

Claim(insMap, ins, q) == [a \in Addr |-> IF a \in ToSet(ins) THEN q ELSE insMap[a]]

MoveTail(g, b, q) ==
  LET B == g.blk[b]
      tail == TailOf(B, q - b, b)
      cut == [g.blk EXCEPT ![b] = HeadOf(B, q - b, q), ![q] = tail]
  IN [g EXCEPT
       !.blk = [a \in Addr |-> IF a \in B.succs
                               THEN [cut[a] EXCEPT !.preds = Relink(@, b, q)]
                               ELSE cut[a]],
       !.insMap = Claim(@, tail.ins, q)]

(* Mutant: the trace being collected survives the split.                   *)
SplitKeepsTrace(p, g, b, q) ==
  LET B == g.blk[b]
      clean == dropCompiledCode(g, b)
  IN IF q - b = Len(B.ins) - 1 /\ isBranchOrJump(p[B.ins[q - b]].kind)
     THEN DelaySlotBlock(clean, q)
     ELSE MoveTail(clean, b, q)

split(p, g, b, q) ==
  LET B == g.blk[b]
      offs == q - b
      clean == dropCompiledCode(
                 [g EXCEPT !.rf = disableRegionCollection(@)], b)
  IN IF offs = Len(B.ins) - 1 /\ isBranchOrJump(p[B.ins[offs]].kind)
     THEN DelaySlotBlock(clean, q)
     ELSE MoveTail(clean, b, q)

(* Afterwards the block found is g.blk[q], or None for a null result.      *)
findBlock(p, g, b, q) ==
  IF q \in g.blk[b].succs THEN g
  ELSE IF g.blk[q] # None THEN addSuccessor(g, b, q)
  ELSE IF g.insMap[q] # None
       THEN addSuccessor(split(p, g, g.insMap[q], q), b, q)
  ELSE g

(* interpret.cc: afterwards cBB is the block at q.                         *)
getNextBlock(p, g, b, q) ==
  LET f == findBlock(p, g, b, q)
  IN setReadOnly(IF f.blk[q] = None THEN newBlockAfter(f, q, b) ELSE f, b)

dropAllBBs(g) ==
  [EmptyGraph EXCEPT !.rf = HeadsGoStale(disableRegionCollection(g.rf))]

-----------------------------------------------------------------------------
(* compile::canCompileInstr                                                *)
canCompileInstr(kind) == kind \notin {"nc", "mon", "sync", "halt"}

HasBranchOrJump(p, B) == \E a \in ToSet(B.ins) : isBranchOrJump(p[a].kind)

canCompileRegion(p, g, region) ==
  \A i \in DOMAIN region :
    LET B == g.blk[region[i]]
        nB == IF i = Len(region) THEN region[1] ELSE region[i + 1]
    IN /\ \A a \in ToSet(B.ins) : canCompileInstr(p[a].kind)
       /\ HasBranchOrJump(p, B) \/ B.term + 1 = nB

(* Once more than it has been recorded.                                    *)
addRegion(g, u, region) ==
  LET seen == {k \in 1 .. EnoughRegions - 1 : <<region, k>> \in g.blk[u].traces}
  IN [g EXCEPT !.blk[u].traces =
        @ \cup {<<region, 1>>} \cup {<<region, k + 1>> : k \in seen}]

enoughRegions(g, u) == \E t \in g.blk[u].traces : t[2] = EnoughRegions

(* Mutant: the last block of the region is forgotten.                      *)
JoinRegionsButLast(g, u, region) ==
  [g EXCEPT !.blk =
    [a \in Addr |-> IF a \in ToSet(SubSeq(region, 1, Len(region) - 1))
                    THEN [g.blk[a] EXCEPT !.heads = @ \cup {u}] ELSE g.blk[a]]]

joinRegions(g, u, region) ==
  [g EXCEPT !.blk =
    [a \in Addr |-> IF a \in ToSet(region)
                    THEN [g.blk[a] EXCEPT !.heads = @ \cup {u}] ELSE g.blk[a]]]

(* The exits of a block with these instructions: the pcs control may be at *)
(* when it has run.                                                        *)
BranchOf(p, ins) ==
  IF Len(ins) >= 2 /\ isBranchOrJump(p[ins[Len(ins) - 1]].kind)
  THEN ins[Len(ins) - 1] ELSE Last(ins)

Exits(p, ins) == NextPcs(p, BranchOf(p, ins))

(* addWithInCFGEdges and the jr speculation of buildCFG: the edges inside  *)
(* a region on blocks, headed by u, that leave block x.                    *)
RegionEdges(p, g, u, blocks, x) ==
  LET B == g.blk[x]
      indirect == \E a \in ToSet(B.ins) : p[a].kind \in {"jr", "jalr"}
  IN (B.succs \cap blocks)
     \cup (IF indirect THEN {u} ELSE Exits(p, B.ins) \cap blocks)
     \cup (IF blocks = {u} THEN {u} ELSE {})

(* The region buildCFG compiles for u: the blocks of its traces, a copy of *)
(* their instructions, and the edges between them.                         *)
buildCFG(p, g, u, blocks) ==
  [blocks |-> blocks,
   ins |-> [x \in Addr |-> IF x \in blocks THEN g.blk[x].ins ELSE <<>>],
   next |-> [x \in Addr |-> IF x \in blocks THEN RegionEdges(p, g, u, blocks, x) ELSE {}]]

(* The blocks of u's recorded regions.                                     *)
TraceBlocks(g, u) == UNION {ToSet(t[1]) : t \in g.blk[u].traces}
-----------------------------------------------------------------------------
(***************************************************************************)
(* cfgAugEnum::head: aug_dfs looks for paths from the region's head to     *)
(* each of its blocks and adds the blocks on them.  It gives up at         *)
(* register jumps and monitor calls, and at a call none of whose           *)
(* successors is the target or already seen.  sortByIcnt fixes the order   *)
(* of visits by how hot the blocks are; up stands for that order.          *)
(***************************************************************************)
AugPasses(p, g, n, target, seen) ==
  LET kinds == {p[a].kind : a \in ToSet(g.blk[n].ins)} IN
  IF "jal" \in kinds THEN g.blk[n].succs \cap (seen \cup {target}) # {}
  ELSE kinds \cap {"jr", "jalr", "mon"} = {}

VisitOrder(S, up) ==
  SetToSortSeq(S, LAMBDA x, y : IF up THEN x < y ELSE x > y)

augDfs(p, g, head, target, up) ==
  LET Found == [found: BOOLEAN, seen: SUBSET Addr, visited: SUBSET Addr]
      visit[todo \in Seq(Addr), r \in Found] ==
        IF todo = <<>> THEN r
        ELSE LET n == Head(todo)
                 seen == r.seen \cup {n}
                 d == visit[VisitOrder(g.blk[n].succs, up),
                            [found |-> FALSE, seen |-> seen, visited |-> {}]]
             IN visit[Tail(todo),
                      IF n = target
                      THEN [r EXCEPT !.found = TRUE, !.visited = @ \cup {n}]
                      ELSE IF n \in r.seen \/ ~AugPasses(p, g, n, target, seen)
                      THEN [r EXCEPT !.seen = seen]
                      ELSE [found |-> r.found \/ d.found, seen |-> d.seen,
                            visited |-> r.visited \cup d.visited
                                        \cup (IF d.found THEN {n} ELSE {})]]
  IN visit[<<head>>, [found |-> FALSE, seen |-> {}, visited |-> {}]].visited

AugBlocks(p, g, u, up) ==
  {b \in Live(g) : \E bb \in TraceBlocks(g, u) : b \in augDfs(p, g, u, bb, up)}
=============================================================================
