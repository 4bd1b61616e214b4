---------------------------- MODULE RegionBuild ----------------------------
(***************************************************************************)
(* How regionCFG::buildCFG turns the basic blocks of a region into a CFG   *)
(* of its own, and which way the code generated for each of its blocks     *)
(* leaves it.  Dispatch runs compiled code by the guest's instructions and *)
(* the edges between blocks; here are the steps that decide those edges,   *)
(* --splitCFGBBs included, and the terminators that must agree with them.  *)
(*                                                                         *)
(* A CFG is a record: ins, the instructions of each cfgBasicBlock, and     *)
(* succs, its successors.  A block is named by its entry address and the   *)
(* patch block of a branch-likely in block x by Patch(x).                  *)
(***************************************************************************)
EXTENDS BlockGraph

Patch(x) == -1 - x
Owner(m) == -1 - m
IsPatch(n) == n < 0

(* The name of a patch block is not the null pointer.                      *)
ASSUME PatchAssumption == \A x \in Addr : Patch(x) # None

Nodes(C) == DOMAIN C.ins
Entries(C) == {n \in Nodes(C) : ~IsPatch(n)}

addEdge(C, n, m) == [C EXCEPT !.succs[n] = @ \cup {m}]

(* The instruction that ends a block: the searches of addWithInCFGEdges    *)
(* and haslikely find the same one, as a block has one at most.            *)
Terminators(p, C, n) == {a \in ToSet(C.ins[n]) : isBranchOrJump(p[a].kind)}

TakenAddr(p, a) == CHOOSE t \in p[a].to : TRUE
NotTakenAddr(a) == a + 2

Indirect(p, C, n) == \E a \in Terminators(p, C, n) : p[a].kind \in {"jr", "jalr"}

(* The addresses the code of a block can name as its next pc.              *)
DirectExits(p, C, n) ==
  IF Terminators(p, C, n) = {} THEN {Last(C.ins[n]) + 1}
  ELSE UNION {NextPcs(p, a) : a \in Terminators(p, C, n)}

-----------------------------------------------------------------------------
(* Mutant: one successor is erased, not all but one.                       *)
RepairedByOne(p, B) ==
  LET next == Last(B.ins) + 1
      found == \E a \in ToSet(B.ins) : isBranchOrJump(p[a].kind) /\ p[a].kind # "jalr"
  IN IF found \/ Cardinality(B.succs) = 1 THEN {B.succs}
     ELSE {B.succs \ {s} : s \in B.succs \ {next}}

(* What repairBrokenEdges leaves of a block's successors: a block without  *)
(* a jump or branch keeps one, the next word's if it is among them; its    *)
(* loop does not end when there is none to keep.  jalr is not one of the   *)
(* jumps it looks for.                                                     *)
Repaired(p, B) ==
  LET next == Last(B.ins) + 1
      found == \E a \in ToSet(B.ins) : isBranchOrJump(p[a].kind) /\ p[a].kind # "jalr"
  IN IF found THEN {B.succs}
     ELSE IF next \in B.succs THEN {{next}} ELSE {{s} : s \in B.succs}

(* The edges from the blocks in succs's domain are erased, at both ends,   *)
(* but for those it names.  succsMap keeps them all, and findBlock looks   *)
(* there: it finds the way across an erased edge and does not redraw it,   *)
(* until a split of the block gives it a new succsMap.                     *)
erased(g, succs) ==
  LET left(a) ==
        [g.blk[a] EXCEPT !.succs = IF a \in DOMAIN succs THEN succs[a] ELSE @,
                         !.preds = {x \in @ : x \in DOMAIN succs => a \in succs[x]}]
  IN [g EXCEPT !.blk = [a \in Addr |-> IF g.blk[a] = None THEN None ELSE left(a)]]

(* With --splitCFGBBs a build repairs the region's blocks themselves, not  *)
(* the copies it makes of them afterwards.                                 *)
repairBrokenEdges(p, g, blocks) ==
  LET left(x) == Repaired(p, g.blk[x])
      choices == {f \in [blocks -> UNION {left(x) : x \in blocks}] :
                    \A x \in blocks : f[x] \in left(x)}
  IN {erased(g, f) : f \in choices}

(* The cfgBasicBlock of a basic block: the delay slot of a branch-likely   *)
(* stays out of it.                                                        *)
cfgBasicBlock(B) == IF B.likely THEN Front(B.ins) ELSE B.ins

Copied(g, blocks) ==
  [ins |-> [x \in blocks |-> cfgBasicBlock(g.blk[x])],
   succs |-> [x \in blocks |-> g.blk[x].succs \cap blocks]]

(* The copies the build of a region with --splitCFGBBs may start from.     *)
RepairedCopies(p, g, blocks) ==
  {Copied(h, blocks) : h \in repairBrokenEdges(p, g, blocks)}

(* splitBB: the tail of block z, from address a on, takes z's successors.  *)
splitBB(C, z, a) ==
  LET n == a - C.ins[z][1]
      Cut(f, head, tail) ==
        [m \in Nodes(C) \cup {a} |-> IF m = a THEN tail ELSE IF m = z THEN head ELSE f[m]]
  IN [ins |-> Cut(C.ins, SubSeq(C.ins[z], 1, n), SubSeq(C.ins[z], n + 1, Len(C.ins[z]))),
      succs |-> Cut(C.succs, {a}, C.succs[z])]

(* Where the direct branch or jump of block x, whose words these are,      *)
(* would have blocks begin: at its target and at the word after its delay  *)
(* slot, whether or not the latter is an exit.                             *)
Wanted(p, ins) ==
  LET t == ins[Len(ins) - 1]
  IN IF Len(ins) >= 2 /\ p[t].kind \in {"br", "j"} THEN {TakenAddr(p, t), t + 2} ELSE {}

(* The places where splitBBs would split: <<the block with the direct      *)
(* branch or jump, the block to split, where>>.                            *)
Splits(p, C) ==
  {s \in Nodes(C) \X Nodes(C) \X Addr :
     /\ s[3] \in Wanted(p, C.ins[s[1]]) \ Nodes(C)
     /\ s[3] > C.ins[s[2]][1] /\ s[3] <= Last(C.ins[s[2]])}

splitOnce(p, C) ==
  {addEdge(splitBB(C, s[2], s[3]), s[1], s[3]) : s \in Splits(p, C)}

(* splitBBs on any of cfgs splits until there is nothing left to split.    *)
(* Every split makes a block of another word, so there are fewer splits    *)
(* than words.                                                             *)
splitBBs(p, cfgs) ==
  LET after[k \in 0 .. Cardinality(Addr)] ==
        IF k = 0 THEN cfgs ELSE UNION {splitOnce(p, C) : C \in after[k - 1]}
  IN {C \in UNION {after[k] : k \in DOMAIN after} : Splits(p, C) = {}}

selfLoop(C, u) == IF Nodes(C) = {u} THEN addEdge(C, u, u) ELSE C

(* Mutant: the head is a guess for every block.                            *)
speculateAll(p, C, u) ==
  [C EXCEPT !.succs = [n \in Nodes(C) |-> C.succs[n] \cup {u}]]

(* Speculate that jr's can branch back to the region head.                 *)
speculate(p, C, u) ==
  [C EXCEPT !.succs = [n \in Nodes(C) |-> IF Indirect(p, C, n)
                                          THEN C.succs[n] \cup {u} ELSE C.succs[n]]]

addWithInCFGEdges(p, C, n) ==
  C.succs[n] \cup (IF Indirect(p, C, n) THEN {}
                   ELSE DirectExits(p, C, n) \cap Entries(C))

withInEdges(p, C) ==
  [C EXCEPT !.succs = [n \in Nodes(C) |-> addWithInCFGEdges(p, C, n)]]

(* patchLikely: the taken edge of a branch-likely leads through a block of *)
(* its own that holds the delay slot; without a taken edge that block has  *)
(* no successor.                                                           *)
Likelies(p, C) == {n \in Nodes(C) : \E a \in ToSet(C.ins[n]) : p[a].kind = "brl"}

LikelyTaken(p, C, n) == TakenAddr(p, Last(C.ins[n]))

(* Mutant: the direct edge stays.                                          *)
patchedBeside(p, C, n) == {Patch(n)} \cup C.succs[n]

patched(p, C, n) == {Patch(n)} \cup (C.succs[n] \ {LikelyTaken(p, C, n)})

patchLikely(p, C) ==
  LET L == Likelies(p, C)
      all == Nodes(C) \cup {Patch(n) : n \in L}
  IN [ins |-> [m \in all |-> IF IsPatch(m) THEN <<Last(C.ins[Owner(m)]) + 1>>
                             ELSE C.ins[m]],
      succs |-> [m \in all |->
                   IF IsPatch(m) THEN C.succs[Owner(m)] \cap {LikelyTaken(p, C, Owner(m))}
                   ELSE IF m \in L THEN patched(p, C, m) ELSE C.succs[m]]]

(* The CFG before the patch blocks, and the one code is generated for.     *)
Edged(p, u, C) == withInEdges(p, speculate(p, selfLoop(C, u), u))

Built(p, g, u, blocks, splitting) ==
  LET cut == IF splitting THEN splitBBs(p, RepairedCopies(p, g, blocks))
             ELSE {Copied(g, blocks)}
  IN {Edged(p, u, C) : C \in cut}
-----------------------------------------------------------------------------
(* The end of a block's code: the pcs the guest can be at and, for each,   *)
(* the block entered there, or None for an abort block that stores the pc. *)
getSuccLLVMBasicBlock(C, n, a) == IF a \in C.succs[n] THEN a ELSE None

Goes(C, n, a) == [pc |-> a, to |-> getSuccLLVMBasicBlock(C, n, a)]

(* jal goes to its first successor, whichever that is; a register jump is  *)
(* compared with every successor before it aborts.                         *)
Jumps(p, C, n, a) ==
  LET kind == p[a].kind IN
  CASE kind \in {"br", "j"} -> {Goes(C, n, q) : q \in NextPcs(p, a)}
    [] kind = "brl" -> {[pc |-> TakenAddr(p, a), to |-> Patch(n)],
                        Goes(C, n, NotTakenAddr(a))}
    [] kind = "jal" -> {[pc |-> TakenAddr(p, a), to |-> m] : m \in C.succs[n]}
    [] OTHER -> {Goes(C, n, q) : q \in NextPcs(p, a) \cup C.succs[n]}

(* A patch block ends in a branch to its one successor, or aborts where    *)
(* the branch-likely goes when it is taken.                                *)
PatchGoes(p, C, n) ==
  [pc |-> LikelyTaken(p, C, Owner(n)),
   to |-> IF C.succs[n] = {} THEN None ELSE CHOOSE m \in C.succs[n] : TRUE]

Transfers(p, C, n) ==
  IF IsPatch(n) THEN {PatchGoes(p, C, n)}
  ELSE IF Terminators(p, C, n) = {} THEN {Goes(C, n, Last(C.ins[n]) + 1)}
  ELSE UNION {Jumps(p, C, n, a) : a \in Terminators(p, C, n)}

Entered(p, C, n) == {t.to : t \in Transfers(p, C, n)} \ {None}

-----------------------------------------------------------------------------
(* Where the patch blocks lead counts as where their branches do.          *)
Beyond(C, S) == UNION {IF IsPatch(n) THEN C.succs[n] ELSE {n} : n \in S}

(* A transfer enters the block of its pc, if need be through the patch.    *)
RightPlace(p, C, n) ==
  /\ \A t \in Transfers(p, C, n) :
       t.to # None => \/ t.to = t.pc
                      \/ IsPatch(t.to) /\ PatchGoes(p, C, t.to).pc = t.pc
  /\ ~IsPatch(n) =>
       DirectExits(p, C, n) \subseteq {t.pc : t \in Transfers(p, C, n)}

(* The ways buildCFG and code generation end the program: a branch with a  *)
(* successor it cannot reach (checkIfPlausableSuccessors), a block nobody  *)
(* reaches (allBlocksReachable), a j without its target, a jal without a   *)
(* successor, a branch cut off from its delay slot.                        *)
Plausible(p, C, n) ==
  \A a \in Terminators(p, C, n) :
    /\ p[a].kind \in {"br", "brl"} => C.succs[n] \subseteq NextPcs(p, a)
    /\ p[a].kind = "j" => TakenAddr(p, a) \in C.succs[n]
    /\ p[a].kind = "jal" => C.succs[n] # {}
    /\ p[a].kind # "brl" => a # Last(C.ins[n])

allBlocksReachable(C, u) ==
  \A S \in SUBSET Nodes(C) :
    u \in S /\ (\A n \in S : C.succs[n] \subseteq S) => S = Nodes(C)
=============================================================================
