-------------------------- MODULE BlockGraphProofs --------------------------
(***************************************************************************)
(* The operations on the graph of basic blocks keep it well formed, for    *)
(* every program: blocks are runs of words that end at the first jump,     *)
(* insMap and edges agree with them, recorded regions and compiled code    *)
(* consist of finished blocks.                                             *)
(***************************************************************************)
EXTENDS BlockGraph, TLAPS

FinderType ==
  [on: BOOLEAN, head: Addr \cup {None}, hist: Seq(Addr),
   heads: [Idx -> Addr \cup {None, Stale}], counts: [Idx -> Nat]]

GraphType ==
  [blk: [Addr -> BlockType \cup {None}], insMap: [Addr -> Addr \cup {None}],
   rf: FinderType]

(* The blocks that are finished.                                           *)
Done(h) == {b \in Live(h) : h.blk[b].ro}

-----------------------------------------------------------------------------
(* A block's instructions are consecutive words.                           *)
Consecutive(b, B) == \A i \in 1 .. Len(B.ins) : B.ins[i] = b + i - 1

(* A block that may be finished, a branch or jump with its delay slot, and *)
(* one that may yet grow.                                                  *)
Ended(p, B) ==
  /\ B.ins # <<>>
  /\ B.term = BranchOf(p, B.ins)
  /\ isBranchOrJump(p[B.term].kind) => B.term # Last(B.ins)
  /\ \A a \in ToSet(B.ins) : EndsBlock(p[a].kind) => a = B.term
  /\ \A a \in ToSet(B.ins) : p[a].kind \notin {"sync", "halt"}

Open(p, B) ==
  /\ B.term = None
  /\ \A a \in ToSet(B.ins) : ~EndsBlock(p[a].kind)

LikelyOK(p, B) == B.likely <=> \E a \in ToSet(B.ins) : p[a].kind = "brl"

(* Recorded regions start with their head and have finished blocks.        *)
TracesOK(done, b, B) ==
  \A t \in B.traces : t[1] # <<>> /\ t[1][1] = b /\ ToSet(t[1]) \subseteq done

(* Compiled code has its head among its blocks, which are finished and of  *)
(* consecutive words, and no instruction that does not compile; its edges  *)
(* stay among them.                                                        *)
CodeOK(p, done, b, c) ==
  /\ b \in c.blocks
  /\ c.blocks \subseteq done
  /\ \A x \in c.blocks :
       /\ c.ins[x] # <<>>
       /\ \A i \in 1 .. Len(c.ins[x]) : c.ins[x][i] = x + i - 1
       /\ \A a \in ToSet(c.ins[x]) : canCompileInstr(p[a].kind)
       /\ c.next[x] \subseteq c.blocks

(* A block among live and finished ones.                                   *)
BlockOK(p, live, done, b, B) ==
  /\ Consecutive(b, B)
  /\ B.ro => Ended(p, B)
  /\ LikelyOK(p, B)
  /\ B.heads \subseteq live
  /\ TracesOK(done, b, B)
  /\ B.has <=> B.code # None
  /\ B.code # None => CodeOK(p, done, b, B.code)

(* insMap and the blocks agree.                                            *)
InsMapOK(h) ==
  /\ \A b \in Live(h) : \A a \in ToSet(h.blk[b].ins) : h.insMap[a] # None
  /\ \A a \in Addr : h.insMap[a] # None =>
       h.insMap[a] \in Live(h) /\ a \in ToSet(h.blk[h.insMap[a]].ins)

(* Successors and predecessors mirror each other.                          *)
Linked(h) ==
  \A a \in Live(h) :
    /\ \A s \in h.blk[a].succs : s \in Live(h) /\ a \in h.blk[s].preds
    /\ \A s \in h.blk[a].preds : s \in Live(h) /\ a \in h.blk[s].succs

(* The trace being collected starts with its head, which has no code.      *)
TraceOK(h) ==
  h.rf.on =>
    /\ h.rf.head \in Live(h) /\ h.blk[h.rf.head].code = None
    /\ ToSet(h.rf.hist) \subseteq Done(h)
    /\ h.rf.hist # <<>> => h.rf.hist[1] = h.rf.head

GraphOK(p, h) ==
  /\ h \in GraphType
  /\ \A b \in Live(h) : BlockOK(p, Live(h), Done(h), b, h.blk[b])
  /\ InsMapOK(h)
  /\ Linked(h)
  /\ TraceOK(h)

-----------------------------------------------------------------------------
(* More blocks, or more finished ones, leave a block as good as it was.    *)
LEMMA BlockOKMonotone ==
  ASSUME NEW p, NEW live, NEW done, NEW live2, NEW done2, NEW b, NEW B,
         live \subseteq live2, done \subseteq done2, BlockOK(p, live, done, b, B)
  PROVE  BlockOK(p, live2, done2, b, B)
<1>1. TracesOK(done2, b, B)
  BY DEF BlockOK, TracesOK
<1>2. B.code # None => CodeOK(p, done2, b, B.code)
  BY DEF BlockOK, CodeOK
<1> QED BY <1>1, <1>2 DEF BlockOK

(* A new block.                                                            *)
LEMMA FreshBlockOK ==
  ASSUME NEW p, NEW live, NEW done, NEW b
  PROVE  /\ FreshBlock \in BlockType
         /\ BlockOK(p, live, done, b, FreshBlock)
         /\ Open(p, FreshBlock)
<1>1. FreshBlock \in BlockType
  BY DEF FreshBlock, BlockType
<1>2. ToSet(FreshBlock.ins) = {} /\ Len(FreshBlock.ins) = 0
  BY DEF FreshBlock, ToSet
<1> QED BY <1>1, <1>2 DEF FreshBlock, BlockOK, Consecutive, LikelyOK, TracesOK, Open

(* Finishing a block.                                                      *)
LEMMA SealedOK ==
  ASSUME NEW p, NEW live, NEW done, NEW b, NEW B \in BlockType,
         BlockOK(p, live, done, b, B), Ended(p, B)
  PROVE  /\ Sealed(B) \in BlockType
         /\ BlockOK(p, live, done, b, Sealed(B))
         /\ Ended(p, Sealed(B))
         /\ Sealed(B).ro /\ Sealed(B).succs = B.succs /\ Sealed(B).preds = B.preds
         /\ Sealed(B).ins = B.ins /\ Sealed(B).term = B.term /\ Sealed(B).code = None
<1>1. /\ Sealed(B) \in BlockType
      /\ Sealed(B).ins = B.ins /\ Sealed(B).term = B.term /\ Sealed(B).likely = B.likely
      /\ Sealed(B).heads = B.heads /\ Sealed(B).traces = {}
      /\ Sealed(B).has = FALSE /\ Sealed(B).code = None /\ Sealed(B).ro = TRUE
      /\ Sealed(B).succs = B.succs /\ Sealed(B).preds = B.preds
  BY DEF Sealed, BlockType
<1> QED BY <1>1 DEF BlockOK, Consecutive, Ended, LikelyOK, TracesOK

(* Throwing away code and recorded regions.                                *)
LEMMA NukedOK ==
  ASSUME NEW p, NEW live, NEW done, NEW b, NEW B \in BlockType,
         BlockOK(p, live, done, b, B)
  PROVE  /\ Nuked(B) \in BlockType
         /\ BlockOK(p, live, done, b, Nuked(B))
         /\ Nuked(B).ro = B.ro /\ Nuked(B).succs = B.succs /\ Nuked(B).preds = B.preds
         /\ Nuked(B).ins = B.ins /\ Nuked(B).term = B.term /\ Nuked(B).code = None
<1>1. /\ Nuked(B) \in BlockType
      /\ Nuked(B).ins = B.ins /\ Nuked(B).term = B.term /\ Nuked(B).likely = B.likely
      /\ Nuked(B).heads = B.heads /\ Nuked(B).traces = {}
      /\ Nuked(B).has = (IF B.code = None THEN B.has ELSE FALSE) /\ Nuked(B).code = None
      /\ Nuked(B).succs = B.succs /\ Nuked(B).preds = B.preds /\ Nuked(B).ro = B.ro
  BY DEF Nuked, BlockType
<1> QED BY <1>1 DEF BlockOK, Consecutive, Ended, LikelyOK, TracesOK

-----------------------------------------------------------------------------
(* A graph in which only the finder changes.                               *)
LEMMA FinderFrame ==
  ASSUME NEW p, NEW h, GraphOK(p, h), NEW r \in FinderType,
         NEW n, n = [h EXCEPT !.rf = r], TraceOK(n)
  PROVE  GraphOK(p, n)
<1>1. n \in GraphType /\ n.blk = h.blk /\ n.insMap = h.insMap
  BY DEF GraphOK, GraphType
<1>2. Live(n) = Live(h) /\ Done(n) = Done(h)
  BY <1>1 DEF Live, Done
<1>3. InsMapOK(n) /\ Linked(n)
  BY <1>1, <1>2 DEF GraphOK, InsMapOK, Linked
<1> QED BY <1>1, <1>2, <1>3 DEF GraphOK

LEMMA DisableType ==
  ASSUME NEW r \in FinderType
  PROVE  /\ disableRegionCollection(r) \in FinderType
         /\ disableRegionCollection(r).on = FALSE
<1> DEFINE q == IF r.head # None THEN ResetSlot(r, r.head) ELSE r
           t == <<>>
<1>1. q \in FinderType
  BY DEF ResetSlot, FinderType
<1>2. disableRegionCollection(r) =
        IF r.on THEN [q EXCEPT !.on = FALSE, !.head = None, !.hist = t] ELSE r
  BY DEF disableRegionCollection
<1>3. t \in Seq(Addr)
  OBVIOUS
<1> HIDE DEF q, t
<1> QED BY <1>1, <1>2, <1>3 DEF FinderType

LEMMA DisableOK ==
  ASSUME NEW p, NEW h, GraphOK(p, h)
  PROVE  LET n == [h EXCEPT !.rf = disableRegionCollection(@)] IN
         /\ GraphOK(p, n) /\ n.rf.on = FALSE /\ n.blk = h.blk /\ n.insMap = h.insMap
<1> DEFINE r == disableRegionCollection(h.rf)
           n == [h EXCEPT !.rf = r]
<1>1. h \in GraphType /\ r \in FinderType /\ r.on = FALSE
  BY DisableType DEF GraphOK, GraphType
<1>2. n.rf = r /\ n.blk = h.blk /\ n.insMap = h.insMap
  BY <1>1 DEF GraphType
<1>3. TraceOK(n)
  BY <1>1, <1>2 DEF TraceOK
<1> HIDE DEF r
<1>4. GraphOK(p, n)
  BY <1>1, <1>3, FinderFrame
<1> HIDE DEF n
<1> QED BY <1>1, <1>2, <1>4 DEF r, n

-----------------------------------------------------------------------------
(* A graph in which blocks change but keep their instructions.             *)
Remap(h, f) == [h EXCEPT !.blk = f]

CanRemap(p, h, f) ==
  /\ GraphOK(p, h)
  /\ f \in [Addr -> BlockType \cup {None}]
  /\ \A a \in Addr \ Live(h) : f[a] = None
  /\ \A a \in Live(h) :
       /\ f[a] \in BlockType /\ BlockOK(p, Live(h), Done(h), a, f[a])
       /\ f[a].ins = h.blk[a].ins /\ f[a].ro = h.blk[a].ro
       /\ \A s \in f[a].succs : s \in Live(h) /\ a \in f[s].preds
       /\ \A s \in f[a].preds : s \in Live(h) /\ a \in f[s].succs
  /\ h.rf.on => f[h.rf.head].code = None

HasRemap(p, h, f) ==
  LET n == Remap(h, f) IN
  /\ GraphOK(p, n)
  /\ Live(n) = Live(h) /\ Done(n) = Done(h)
  /\ n.blk = f /\ n.rf = h.rf /\ n.insMap = h.insMap

LEMMA RemapOK ==
  ASSUME NEW p, NEW h, NEW f, CanRemap(p, h, f)
  PROVE  HasRemap(p, h, f)
<1> DEFINE n == Remap(h, f)
<1>1. /\ GraphOK(p, h) /\ f \in [Addr -> BlockType \cup {None}]
      /\ \A a \in Addr \ Live(h) : f[a] = None
      /\ \A a \in Live(h) :
           /\ f[a] \in BlockType /\ BlockOK(p, Live(h), Done(h), a, f[a])
           /\ f[a].ins = h.blk[a].ins /\ f[a].ro = h.blk[a].ro
           /\ \A s \in f[a].succs : s \in Live(h) /\ a \in f[s].preds
           /\ \A s \in f[a].preds : s \in Live(h) /\ a \in f[s].succs
      /\ h.rf.on => f[h.rf.head].code = None
  BY DEF CanRemap
<1>2. n \in GraphType /\ n.blk = f /\ n.insMap = h.insMap /\ n.rf = h.rf
  BY <1>1 DEF GraphOK, GraphType, Remap
<1> HIDE DEF n
<1>3. Live(n) = Live(h) /\ Done(n) = Done(h)
  <2>1. \A a \in Addr : f[a] # None <=> a \in Live(h)
    BY <1>1, NullAssumption
  <2>2. \A a \in Addr : a \in Live(n) <=> a \in Live(h)
    BY <1>2, <2>1 DEF Live
  <2>3. Live(n) = Live(h)
    BY <2>2 DEF Live
  <2> QED BY <1>1, <1>2, <2>3 DEF Done
<1>4. InsMapOK(n)
  BY <1>1, <1>2, <1>3 DEF GraphOK, InsMapOK
<1>5. Linked(n)
  BY <1>1, <1>2, <1>3 DEF Linked
<1>6. TraceOK(n)
  BY <1>1, <1>2, <1>3 DEF GraphOK, TraceOK
<1>7. GraphOK(p, n)
  BY <1>1, <1>2, <1>3, <1>4, <1>5, <1>6 DEF GraphOK
<1> QED BY <1>2, <1>3, <1>7 DEF HasRemap, n

(* split's first half.                                                     *)
LEMMA DropOK ==
  ASSUME NEW p, NEW h, GraphOK(p, h), NEW b \in Live(h)
  PROVE  LET n == dropCompiledCode(h, b) IN
         /\ GraphOK(p, n)
         /\ Live(n) = Live(h) /\ Done(n) = Done(h)
         /\ n.rf = h.rf /\ n.insMap = h.insMap
         /\ \A a \in Live(h) :
              /\ n.blk[a].ins = h.blk[a].ins /\ n.blk[a].term = h.blk[a].term
              /\ n.blk[a].succs = h.blk[a].succs /\ n.blk[a].preds = h.blk[a].preds
<1> DEFINE S == h.blk[b].heads
           N(a) == [h.blk[a] EXCEPT !.traces = {}]
           f == [a \in Addr |-> CASE a \in S -> Nuked(h.blk[a])
                                  [] a \notin S /\ a = b -> N(a)
                                  [] OTHER -> h.blk[a]]
           n == dropCompiledCode(h, b)
<1>1. h \in GraphType /\ b \in Addr /\ S \subseteq Live(h)
      /\ \A a \in Live(h) : h.blk[a] \in BlockType /\ BlockOK(p, Live(h), Done(h), a, h.blk[a])
  BY DEF GraphOK, GraphType, Live, BlockOK
<1>2. n = [h EXCEPT !.blk = f]
  BY DEF dropCompiledCode
<1>3. \A a \in Live(h) :
        /\ N(a) \in BlockType /\ BlockOK(p, Live(h), Done(h), a, N(a))
        /\ N(a).ins = h.blk[a].ins /\ N(a).term = h.blk[a].term
        /\ N(a).succs = h.blk[a].succs /\ N(a).preds = h.blk[a].preds
        /\ N(a).ro = h.blk[a].ro /\ N(a).code = h.blk[a].code
  <2> SUFFICES ASSUME NEW a \in Live(h)
               PROVE  /\ N(a) \in BlockType /\ BlockOK(p, Live(h), Done(h), a, N(a))
                      /\ N(a).ins = h.blk[a].ins /\ N(a).term = h.blk[a].term
                      /\ N(a).succs = h.blk[a].succs /\ N(a).preds = h.blk[a].preds
                      /\ N(a).ro = h.blk[a].ro /\ N(a).code = h.blk[a].code
    OBVIOUS
  <2> DEFINE B == h.blk[a]
  <2>1. /\ N(a) \in BlockType /\ N(a).traces = {}
        /\ N(a).ins = B.ins /\ N(a).term = B.term /\ N(a).succs = B.succs
        /\ N(a).preds = B.preds /\ N(a).ro = B.ro /\ N(a).code = B.code
        /\ N(a).has = B.has /\ N(a).likely = B.likely /\ N(a).heads = B.heads
    BY <1>1 DEF BlockType
  <2>2. BlockOK(p, Live(h), Done(h), a, B)
    BY <1>1
  <2> HIDE DEF N, B
  <2> QED BY <2>1, <2>2 DEF BlockOK, Consecutive, Ended, LikelyOK, TracesOK, B
<1>4. \A a \in Live(h) :
        /\ f[a] \in BlockType /\ BlockOK(p, Live(h), Done(h), a, f[a])
        /\ f[a].ins = h.blk[a].ins /\ f[a].term = h.blk[a].term
        /\ f[a].succs = h.blk[a].succs /\ f[a].preds = h.blk[a].preds
        /\ f[a].ro = h.blk[a].ro
        /\ h.blk[a].code = None => f[a].code = None
  <2> SUFFICES ASSUME NEW a \in Live(h)
               PROVE  /\ f[a] \in BlockType /\ BlockOK(p, Live(h), Done(h), a, f[a])
                      /\ f[a].ins = h.blk[a].ins /\ f[a].term = h.blk[a].term
                      /\ f[a].succs = h.blk[a].succs /\ f[a].preds = h.blk[a].preds
                      /\ f[a].ro = h.blk[a].ro
                      /\ h.blk[a].code = None => f[a].code = None
    OBVIOUS
  <2> HIDE DEF N
  <2>1. CASE a \in S
    <3>1. f[a] = Nuked(h.blk[a])
      BY <2>1 DEF Live
    <3> HIDE DEF f
    <3> QED BY <1>1, <3>1, NukedOK
  <2>2. CASE a \notin S /\ a = b
    <3>1. f[a] = N(a)
      BY <2>2 DEF Live
    <3> HIDE DEF f
    <3> QED BY <1>3, <3>1
  <2>3. CASE a \notin S /\ a # b
    <3>1. f[a] = h.blk[a]
      BY <2>3 DEF Live
    <3> HIDE DEF f
    <3> QED BY <1>1, <3>1
  <2> QED BY <2>1, <2>2, <2>3
<1>5. \A a \in Addr \ Live(h) : f[a] = None
  BY <1>1 DEF Live
<1>6. f \in [Addr -> BlockType \cup {None}]
  <2> HIDE DEF N
  <2>1. \A a \in Addr : f[a] \in BlockType \cup {None}
    BY <1>4, <1>5
  <2> QED BY <2>1
<1> HIDE DEF f, n
<1>7. \A a \in Live(h) : /\ \A s \in f[a].succs : s \in Live(h) /\ a \in f[s].preds
                         /\ \A s \in f[a].preds : s \in Live(h) /\ a \in f[s].succs
  <2>1. \A a \in Live(h) : /\ \A s \in h.blk[a].succs : s \in Live(h) /\ a \in h.blk[s].preds
                           /\ \A s \in h.blk[a].preds : s \in Live(h) /\ a \in h.blk[s].succs
    BY DEF GraphOK, Linked
  <2>2. \A a \in Live(h) : f[a].succs = h.blk[a].succs /\ f[a].preds = h.blk[a].preds
    BY <1>4
  <2> QED BY <2>1, <2>2
<1>8. h.rf.on => f[h.rf.head].code = None
  BY <1>4 DEF GraphOK, TraceOK
<1>9. CanRemap(p, h, f)
  BY <1>4, <1>5, <1>6, <1>7, <1>8 DEF CanRemap
<1>10. HasRemap(p, h, f) /\ n = Remap(h, f)
  BY <1>2, <1>9, RemapOK DEF Remap
<1> QED BY <1>4, <1>10 DEF HasRemap, n

-----------------------------------------------------------------------------
(* Of an ended block only the instruction at term can end it, and that is  *)
(* the last one or, a branch, the one before.                              *)
LEMMA TermPlace ==
  ASSUME NEW p, NEW b \in Addr, NEW B \in BlockType, Consecutive(b, B), Ended(p, B)
  PROVE  LET m == Len(B.ins) IN
         /\ m \in Nat \ {0}
         /\ \A i \in 1 .. m : B.ins[i] = b + i - 1 /\ B.ins[i] \in ToSet(B.ins)
         /\ \/ m >= 2 /\ isBranchOrJump(p[B.ins[m - 1]].kind) /\ B.term = b + m - 2
            \/ /\ B.term = b + m - 1
               /\ ~(m >= 2 /\ isBranchOrJump(p[B.ins[m - 1]].kind))
<1> DEFINE s == B.ins
           m == Len(s)
<1>1. s \in Seq(Addr) /\ s # <<>> /\ m \in Nat \ {0} /\ DOMAIN s = 1 .. m
  BY DEF BlockType, Ended
<1>2. \A i \in 1 .. m : s[i] = b + i - 1 /\ s[i] \in ToSet(s)
  BY <1>1 DEF Consecutive, ToSet
<1>3. b \in Nat
  BY ProgramsAssumption
<1>4. Last(s) = b + m - 1 /\ (m >= 2 => s[m - 1] = b + m - 2)
  BY <1>1, <1>2, <1>3 DEF Last
<1>5. B.term = BranchOf(p, s)
  BY DEF Ended
<1> HIDE DEF s, m
<1>6. \/ m >= 2 /\ isBranchOrJump(p[s[m - 1]].kind) /\ B.term = b + m - 2
      \/ B.term = b + m - 1 /\ ~(m >= 2 /\ isBranchOrJump(p[s[m - 1]].kind))
  BY <1>4, <1>5 DEF BranchOf, m
<1> QED BY <1>1, <1>2, <1>6 DEF s, m

(* The members of a sequence, by their places.                             *)
LEMMA ToSetIndex ==
  ASSUME NEW s \in Seq(Addr), NEW n \in Nat, n = Len(s)
  PROVE  /\ \A i \in 1 .. n : s[i] \in ToSet(s)
         /\ \A a \in ToSet(s) : \E i \in 1 .. n : a = s[i]
<1>1. DOMAIN s = 1 .. n
  OBVIOUS
<1> QED BY <1>1 DEF ToSet

(* What the halves of a block B at b, split at q after n instructions, are. *)
GoodHead(p, live, done, b, B, n, q) ==
  LET H == HeadOf(B, n, q) IN
  /\ H \in BlockType /\ BlockOK(p, live, done, b, H) /\ Ended(p, H)
  /\ H.ro /\ H.succs = {q} /\ H.preds = B.preds /\ H.code = None
  /\ H.term = q - 1 /\ ~EndsBlock(p[q - 1].kind)
  /\ \A i \in 1 .. n : B.ins[i] \in ToSet(H.ins)
  /\ \A a \in ToSet(H.ins) : \E i \in 1 .. n : a = B.ins[i]

GoodTail(p, live, done, b, B, n, q) ==
  LET T == TailOf(B, n, b) IN
  /\ T \in BlockType /\ BlockOK(p, live, done, q, T) /\ Ended(p, T)
  /\ T.ro /\ T.succs = B.succs /\ T.preds = {b} /\ T.code = None /\ T.term = B.term
  /\ \A i \in n + 1 .. Len(B.ins) : B.ins[i] \in ToSet(T.ins)
  /\ \A a \in ToSet(T.ins) : \E i \in n + 1 .. Len(B.ins) : a = B.ins[i]

(* The first half of a split block ends where the second begins.           *)
LEMMA HeadOK ==
  ASSUME NEW p, NEW live, NEW done, NEW b \in Addr, NEW B \in BlockType,
         BlockOK(p, live, done, b, B), Ended(p, B),
         NEW n \in 1 .. Len(B.ins) - 1,
         ~(n = Len(B.ins) - 1 /\ isBranchOrJump(p[B.ins[n]].kind)),
         NEW q \in Addr, q = b + n
  PROVE  GoodHead(p, live, done, b, B, n, q)
<1> DEFINE m == Len(B.ins)
           s == SubSeq(B.ins, 1, n)
           H == [B EXCEPT !.ins = s, !.succs = {q}, !.term = q - 1, !.likely = FALSE]
<1>1. B.ins \in Seq(Addr) /\ Consecutive(b, B) /\ b \in Nat
  BY ProgramsAssumption DEF BlockType, BlockOK
<1>2. /\ n \in Nat /\ s \in Seq(Addr) /\ Len(s) = n /\ \A i \in 1 .. n : s[i] = B.ins[i]
      /\ \A i \in 1 .. n : B.ins[i] \in ToSet(s)
      /\ \A a \in ToSet(s) : \E i \in 1 .. n : a = B.ins[i]
  <2>1. n \in Nat /\ s \in Seq(Addr) /\ n = Len(s) /\ \A i \in 1 .. n : s[i] = B.ins[i]
    BY <1>1
  <2> HIDE DEF s
  <2>2. /\ \A i \in 1 .. n : s[i] \in ToSet(s)
        /\ \A a \in ToSet(s) : \E i \in 1 .. n : a = s[i]
    BY <2>1, ToSetIndex
  <2> QED BY <2>1, <2>2
<1>3. /\ m \in Nat \ {0}
      /\ \A i \in 1 .. m : B.ins[i] = b + i - 1 /\ B.ins[i] \in ToSet(B.ins)
      /\ \/ m >= 2 /\ isBranchOrJump(p[B.ins[m - 1]].kind) /\ B.term = b + m - 2
         \/ B.term = b + m - 1 /\ ~(m >= 2 /\ isBranchOrJump(p[B.ins[m - 1]].kind))
  BY <1>1, TermPlace
<1> HIDE DEF m, s
<1>4. n \in Nat /\ 1 <= n /\ n < m /\ n \in 1 .. n
      /\ \A i \in 1 .. n : i \in 1 .. m /\ s[i] = b + i - 1
  <2>1. n \in Nat /\ 1 <= n /\ n < m /\ \A i \in 1 .. n : i \in 1 .. m
    BY <1>3 DEF m
  <2>2. n \in 1 .. n
    BY <2>1
  <2>3. \A i \in 1 .. n : s[i] = b + i - 1
    BY <2>1, <1>2, <1>3
  <2> QED BY <2>1, <2>2, <2>3
<1>5. \A i \in 1 .. n : ~EndsBlock(p[B.ins[i]].kind)
  <2> SUFFICES ASSUME NEW i \in 1 .. n, EndsBlock(p[B.ins[i]].kind) PROVE FALSE
    OBVIOUS
  <2>1. i \in 1 .. m /\ B.ins[i] = B.term /\ B.ins[i] = b + i - 1
    BY <1>3, <1>4 DEF Ended
  <2>2. i = m - 1 /\ n = m - 1 /\ isBranchOrJump(p[B.ins[n]].kind)
    BY <2>1, <1>1, <1>3, <1>4
  <2> QED BY <2>2 DEF m
<1>6. q - 1 = s[n] /\ q - 1 \in Addr
  <2>1. s[n] = b + n - 1
    BY <1>4
  <2>2. s[n] \in Addr
    BY <1>2, <1>4
  <2> QED BY <2>1, <2>2, <1>1, <1>4
<1>7. /\ H \in BlockType /\ H.ins = s /\ H.succs = {q} /\ H.term = q - 1
      /\ H.likely = FALSE /\ H.preds = B.preds /\ H.ro = B.ro /\ H.heads = B.heads
      /\ H.traces = B.traces /\ H.has = B.has /\ H.code = B.code
  BY <1>2, <1>6 DEF BlockType
<1> HIDE DEF H
<1>8. \A a \in ToSet(s) : ~EndsBlock(p[a].kind) /\ p[a].kind \notin {"sync", "halt"}
  <2> SUFFICES ASSUME NEW a \in ToSet(s)
               PROVE  ~EndsBlock(p[a].kind) /\ p[a].kind \notin {"sync", "halt"}
    OBVIOUS
  <2>1. PICK i \in 1 .. n : a = B.ins[i]
    BY <1>2
  <2>2. B.ins[i] \in ToSet(B.ins)
    BY <1>3, <1>4
  <2> QED BY <2>1, <2>2, <1>5 DEF Ended
<1>9. BranchOf(p, s) = q - 1
  <2>1. Last(s) = q - 1
    BY <1>2, <1>6 DEF Last
  <2>2. ~(n >= 2 /\ isBranchOrJump(p[s[n - 1]].kind))
    <3>1. n >= 2 => n - 1 \in 1 .. n
      BY <1>4
    <3>2. n >= 2 => s[n - 1] = B.ins[n - 1] /\ ~EndsBlock(p[B.ins[n - 1]].kind)
      BY <3>1, <1>2, <1>5
    <3> QED BY <3>2 DEF EndsBlock
  <2> QED BY <2>1, <2>2, <1>2 DEF BranchOf
<1>10. Ended(p, H)
  <2>1. s # <<>>
    BY <1>2, <1>4
  <2>2. ~isBranchOrJump(p[q - 1].kind)
    BY <1>2, <1>4, <1>6, <1>8 DEF EndsBlock
  <2> QED BY <2>1, <2>2, <1>7, <1>8, <1>9 DEF Ended
<1>11. BlockOK(p, live, done, b, H)
  <2>1. Consecutive(b, H)
    BY <1>2, <1>4, <1>7 DEF Consecutive
  <2>2. LikelyOK(p, H)
    BY <1>7, <1>8 DEF LikelyOK, EndsBlock, isBranchOrJump
  <2> QED BY <2>1, <2>2, <1>7, <1>10 DEF BlockOK, TracesOK
<1>12. HeadOf(B, n, q) = Sealed(H)
  BY DEF HeadOf, H, s
<1>13. /\ Sealed(H) \in BlockType /\ BlockOK(p, live, done, b, Sealed(H))
       /\ Ended(p, Sealed(H)) /\ Sealed(H).ro /\ Sealed(H).succs = H.succs
       /\ Sealed(H).preds = H.preds /\ Sealed(H).ins = H.ins /\ Sealed(H).code = None
       /\ Sealed(H).term = H.term
  <2>1. H \in BlockType
    BY <1>7
  <2> QED BY <2>1, <1>10, <1>11, SealedOK
<1>14. ~EndsBlock(p[q - 1].kind)
  BY <1>2, <1>4, <1>5, <1>6
<1> QED BY <1>2, <1>7, <1>12, <1>13, <1>14 DEF GoodHead

(* The second half of a split block ends as the whole did.                 *)
LEMMA TailOK ==
  ASSUME NEW p, NEW live, NEW done, NEW b \in Addr, NEW B \in BlockType,
         BlockOK(p, live, done, b, B), Ended(p, B), B.succs \subseteq Addr,
         NEW n \in 1 .. Len(B.ins) - 1,
         ~(n = Len(B.ins) - 1 /\ isBranchOrJump(p[B.ins[n]].kind)),
         NEW q \in Addr, q = b + n
  PROVE  GoodTail(p, live, done, b, B, n, q)
<1> DEFINE m == Len(B.ins)
           s == SubSeq(B.ins, n + 1, m)
           T == [FreshBlock EXCEPT !.ins = s, !.term = B.term, !.likely = B.likely,
                                   !.succs = B.succs, !.preds = {b}]
<1>1. B.ins \in Seq(Addr) /\ Consecutive(b, B) /\ b \in Nat
  BY ProgramsAssumption DEF BlockType, BlockOK
<1>2. /\ s \in Seq(Addr) /\ Len(s) = m - n /\ \A i \in 1 .. m - n : s[i] = B.ins[n + i]
      /\ \A i \in n + 1 .. m : B.ins[i] \in ToSet(s)
      /\ \A a \in ToSet(s) : \E i \in n + 1 .. m : a = B.ins[i]
  <2> DEFINE k == m - n
  <2>1. n \in Nat /\ m \in Nat /\ k \in Nat /\ s \in Seq(Addr) /\ k = Len(s)
        /\ \A i \in 1 .. k : s[i] = B.ins[n + i]
    <3> DEFINE u == B.ins
    <3>1. u \in Seq(Addr) /\ m = Len(u) /\ n \in 1 .. m - 1
      BY <1>1
    <3>2. m \in Nat /\ n \in Nat /\ n < m /\ k \in Nat
      BY <3>1
    <3>3. s = SubSeq(u, n + 1, m)
      OBVIOUS
    <3> HIDE DEF u, m, s
    <3>4. \A i \in n + 1 .. m : u[i] \in Addr
      BY <3>1, <3>2
    <3>5. s \in Seq(Addr) /\ Len(s) = m + 1 - (n + 1)
      BY <3>1, <3>2, <3>3
    <3>6. \A i \in 1 .. m - n : s[i] = u[n + i]
      BY <3>1, <3>2, <3>3
    <3>7. k = Len(s)
      BY <3>2, <3>5
    <3> QED BY <3>2, <3>5, <3>6, <3>7 DEF u
  <2>2. \A i \in 1 .. k : n + i \in n + 1 .. m
    BY <2>1
  <2>3. \A i \in n + 1 .. m : i - n \in 1 .. k /\ n + (i - n) = i
    BY <2>1
  <2> HIDE DEF s, m, k
  <2>4. /\ \A i \in 1 .. k : s[i] \in ToSet(s)
        /\ \A a \in ToSet(s) : \E i \in 1 .. k : a = s[i]
    BY <2>1, ToSetIndex
  <2>5. ASSUME NEW i \in n + 1 .. m PROVE B.ins[i] \in ToSet(s)
    <3>1. i - n \in 1 .. k /\ n + (i - n) = i
      BY <2>3
    <3>2. s[i - n] = B.ins[i]
      BY <3>1, <2>1
    <3> QED BY <3>1, <3>2, <2>4
  <2>6. \A a \in ToSet(s) : \E i \in n + 1 .. m : a = B.ins[i]
    BY <2>1, <2>2, <2>4
  <2> QED BY <2>1, <2>5, <2>6 DEF k
<1>3. /\ m \in Nat \ {0}
      /\ \A i \in 1 .. m : B.ins[i] = b + i - 1 /\ B.ins[i] \in ToSet(B.ins)
      /\ \/ m >= 2 /\ isBranchOrJump(p[B.ins[m - 1]].kind) /\ B.term = b + m - 2
         \/ B.term = b + m - 1 /\ ~(m >= 2 /\ isBranchOrJump(p[B.ins[m - 1]].kind))
  BY <1>1, TermPlace
<1> HIDE DEF m, s
<1>4. n \in Nat /\ m \in Nat /\ 1 <= n /\ n < m
  BY <1>3 DEF m
<1>5. n = m - 1 => ~isBranchOrJump(p[B.ins[n]].kind)
  BY DEF m
<1>6. \A i \in 1 .. m - n : n + i \in 1 .. m /\ s[i] = q + i - 1
  <2> SUFFICES ASSUME NEW i \in 1 .. m - n PROVE n + i \in 1 .. m /\ s[i] = q + i - 1
    OBVIOUS
  <2>1. i \in Nat /\ 1 <= i /\ i <= m - n
    BY <1>4
  <2>2. n + i \in 1 .. m
    BY <2>1, <1>4
  <2>3. s[i] = b + (n + i) - 1
    BY <2>2, <1>2, <1>3
  <2>4. b + (n + i) - 1 = q + i - 1
    BY <2>1, <1>1, <1>4
  <2> QED BY <2>2, <2>3, <2>4
<1>7. /\ T \in BlockType /\ T.ins = s /\ T.succs = B.succs /\ T.term = B.term
      /\ T.likely = B.likely /\ T.preds = {b} /\ T.ro = FALSE /\ T.heads = {}
      /\ T.traces = {} /\ T.has = FALSE /\ T.code = None
  BY <1>2 DEF BlockType, FreshBlock
<1> HIDE DEF T
<1>8. B.term \in ToSet(s)
  <2>1. PICK i \in n + 1 .. m : B.term = b + i - 1
    <3>1. CASE m >= 2 /\ isBranchOrJump(p[B.ins[m - 1]].kind) /\ B.term = b + m - 2
      BY <3>1, <1>1, <1>3, <1>4, <1>5
    <3>2. CASE B.term = b + m - 1
      BY <3>2, <1>3, <1>4
    <3> QED BY <3>1, <3>2, <1>3
  <2>2. B.term = B.ins[i]
    <3>1. i \in 1 .. m
      BY <1>4
    <3> QED BY <3>1, <2>1, <1>3
  <2> QED BY <2>1, <2>2, <1>2
<1>9. \A a \in ToSet(s) : a \in ToSet(B.ins)
  <2>1. \A i \in n + 1 .. m : i \in 1 .. m
    BY <1>4
  <2> QED BY <2>1, <1>2, <1>3
<1>10. BranchOf(p, s) = B.term
  <2>1. m - n \in 1 .. m - n /\ Last(s) = b + m - 1
    <3>1. m - n \in 1 .. m - n
      BY <1>4
    <3>2. s[m - n] = q + (m - n) - 1
      BY <3>1, <1>6
    <3>3. q + (m - n) - 1 = b + m - 1
      BY <1>1, <1>4
    <3> QED BY <3>1, <3>2, <3>3, <1>2 DEF Last
  <2>2. CASE Len(s) >= 2
    <3>1. m >= 2 /\ m - n - 1 \in 1 .. m - n
      BY <2>2, <1>2, <1>3, <1>4
    <3>2. s[m - n - 1] = B.ins[m - 1] /\ s[m - n - 1] = b + m - 2
      <4>1. s[m - n - 1] = B.ins[n + (m - n - 1)] /\ s[m - n - 1] = q + (m - n - 1) - 1
        BY <3>1, <1>2, <1>6
      <4>2. n + (m - n - 1) = m - 1 /\ q + (m - n - 1) - 1 = b + m - 2
        BY <1>1, <1>4
      <4> QED BY <4>1, <4>2
    <3>3. s[Len(s) - 1] = B.ins[m - 1] /\ s[Len(s) - 1] = b + m - 2
      BY <3>2, <1>2
    <3> QED BY <2>1, <2>2, <3>1, <3>3, <1>3 DEF BranchOf
  <2>3. CASE Len(s) = 1
    <3>1. m - n = 1 /\ n = m - 1
      <4>1. Len(s) = m - n
        BY <1>2
      <4>2. m - n = 1
        BY <4>1, <2>3
      <4> QED BY <4>2, <1>4
    <3>2. B.term = b + m - 1
      BY <3>1, <1>3, <1>5
    <3> QED BY <2>1, <2>3, <3>2 DEF BranchOf
  <2> QED BY <2>2, <2>3, <1>2, <1>3, <1>4
<1>11. Ended(p, T)
  <2>1. s # <<>>
    BY <1>2, <1>3, <1>4
  <2>2. Last(s) = Last(B.ins)
    <3>1. m - n \in 1 .. m - n /\ m \in 1 .. m
      BY <1>4
    <3>2. Last(s) = q + (m - n) - 1
      BY <3>1, <1>2, <1>6 DEF Last
    <3>3. Last(B.ins) = b + m - 1
      BY <3>1, <1>3 DEF Last, m
    <3>4. q + (m - n) - 1 = b + m - 1
      BY <1>1, <1>4
    <3> QED BY <3>2, <3>3, <3>4
  <2> QED BY <2>1, <2>2, <1>7, <1>9, <1>10 DEF Ended
<1>12. BlockOK(p, live, done, q, T)
  <2>1. Consecutive(q, T)
    BY <1>2, <1>6, <1>7 DEF Consecutive
  <2>2. LikelyOK(p, T)
    <3>1. \A a \in ToSet(B.ins) : p[a].kind = "brl" => a \in ToSet(s)
      BY <1>8 DEF Ended, EndsBlock, isBranchOrJump
    <3> QED BY <3>1, <1>7, <1>9 DEF LikelyOK, BlockOK
  <2> QED BY <2>1, <2>2, <1>7, <1>11 DEF BlockOK, TracesOK
<1>13. TailOf(B, n, b) = Sealed(T)
  BY DEF TailOf, T, s, m
<1>14. /\ Sealed(T) \in BlockType /\ BlockOK(p, live, done, q, Sealed(T))
       /\ Ended(p, Sealed(T)) /\ Sealed(T).ro /\ Sealed(T).succs = T.succs
       /\ Sealed(T).preds = T.preds /\ Sealed(T).ins = T.ins /\ Sealed(T).code = None
       /\ Sealed(T).term = T.term
  <2>1. T \in BlockType
    BY <1>7
  <2> QED BY <2>1, <1>11, <1>12, SealedOK
<1> QED BY <1>2, <1>7, <1>13, <1>14 DEF m, GoodTail

(* A delay slot on its own.                                                *)
LEMMA SlotOK ==
  ASSUME NEW p, NEW live, NEW done, NEW q \in Addr, p[q].kind \in {"alu", "nc"}
  PROVE  LET S == [Sealed(FreshBlock) EXCEPT !.ins = <<q>>, !.term = q] IN
         /\ S \in BlockType /\ BlockOK(p, live, done, q, S) /\ Ended(p, S)
         /\ S.ro /\ S.succs = {} /\ S.preds = {} /\ S.ins = <<q>> /\ S.code = None
         /\ S.term = q
<1> DEFINE s == <<q>>
           S == [Sealed(FreshBlock) EXCEPT !.ins = s, !.term = q]
<1>1. s \in Seq(Addr) /\ Len(s) = 1 /\ s[1] = q /\ s # <<>> /\ DOMAIN s = 1 .. 1
  OBVIOUS
<1>2. ToSet(s) = {q} /\ BranchOf(p, s) = q
  BY <1>1 DEF ToSet, BranchOf, Last
<1>3. q \in Nat
  BY ProgramsAssumption
<1>4. s = <<q>>
  OBVIOUS
<1> HIDE DEF s
<1>5. /\ S \in BlockType /\ S.ins = s /\ S.term = q /\ S.ro = TRUE /\ S.likely = FALSE
      /\ S.succs = {} /\ S.preds = {} /\ S.heads = {} /\ S.traces = {}
      /\ S.has = FALSE /\ S.code = None
  BY <1>1 DEF Sealed, FreshBlock, BlockType
<1> HIDE DEF S
<1>6. ~EndsBlock(p[q].kind) /\ p[q].kind \notin {"sync", "halt", "brl"}
  BY DEF EndsBlock, isBranchOrJump
<1>7. Ended(p, S)
  BY <1>1, <1>2, <1>5, <1>6 DEF Ended, EndsBlock
<1>8. Consecutive(q, S)
  <2>1. \A i \in 1 .. 1 : i = 1
    OBVIOUS
  <2>2. q + 1 - 1 = q
    BY <1>3
  <2> QED BY <2>1, <2>2, <1>1, <1>5 DEF Consecutive
<1>9. BlockOK(p, live, done, q, S)
  BY <1>2, <1>5, <1>6, <1>7, <1>8 DEF BlockOK, LikelyOK, TracesOK
<1> QED BY <1>4, <1>5, <1>7, <1>9 DEF S

(* Other predecessors make no other block.                                 *)
LEMMA PredsOK ==
  ASSUME NEW p, NEW live, NEW done, NEW b, NEW B \in BlockType,
         BlockOK(p, live, done, b, B), NEW S \in SUBSET Addr
  PROVE  LET N == [B EXCEPT !.preds = S] IN
         /\ N \in BlockType /\ BlockOK(p, live, done, b, N)
         /\ N.ins = B.ins /\ N.term = B.term /\ N.ro = B.ro
         /\ N.succs = B.succs /\ N.preds = S /\ N.code = B.code
<1> DEFINE N == [B EXCEPT !.preds = S]
<1>1. /\ N \in BlockType /\ N.ins = B.ins /\ N.term = B.term /\ N.ro = B.ro
      /\ N.succs = B.succs /\ N.preds = S /\ N.code = B.code /\ N.likely = B.likely
      /\ N.heads = B.heads /\ N.traces = B.traces /\ N.has = B.has
  BY DEF BlockType
<1> HIDE DEF N
<1>2. BlockOK(p, live, done, b, N)
  BY <1>1 DEF BlockOK, Consecutive, Ended, LikelyOK, TracesOK
<1> QED BY <1>1, <1>2 DEF N

-----------------------------------------------------------------------------
(* Splitting a block moves its tail, with its edges, to a new one.         *)
CanMoveTail(p, h, b, q, n) ==
  /\ GraphOK(p, h) /\ h.rf.on = FALSE
  /\ b \in Live(h) /\ Ended(p, h.blk[b])
  /\ q \in Addr /\ h.blk[q] = None
  /\ n \in 1 .. Len(h.blk[b].ins) - 1 /\ q = b + n
  /\ ~(n = Len(h.blk[b].ins) - 1 /\ isBranchOrJump(p[h.blk[b].ins[n]].kind))

HasMovedTail(p, h, b, q) ==
  LET m == MoveTail(h, b, q) IN
  /\ GraphOK(p, m) /\ m.rf = h.rf
  /\ Live(m) = Live(h) \cup {q}
  /\ b \in Done(m) /\ q \in Done(m) /\ Done(h) \subseteq Done(m)
  /\ \A a \in Live(h) \ {b} : m.blk[a].ins = h.blk[a].ins /\ m.blk[a].ro = h.blk[a].ro
                              /\ m.blk[a].term = h.blk[a].term
                              /\ m.blk[a].succs = h.blk[a].succs
  /\ m.blk[b].succs = {q} /\ m.blk[b].term = q - 1 /\ ~EndsBlock(p[q - 1].kind)
  /\ m.blk[q].succs = h.blk[b].succs /\ m.blk[q].term = h.blk[b].term

LEMMA MoveTailOK ==
  ASSUME NEW p, NEW h, NEW b, NEW q, NEW n, CanMoveTail(p, h, b, q, n)
  PROVE  HasMovedTail(p, h, b, q)
<1> SUFFICES
      ASSUME GraphOK(p, h), h.rf.on = FALSE, b \in Live(h), Ended(p, h.blk[b]),
             q \in Addr, h.blk[q] = None,
             n \in 1 .. Len(h.blk[b].ins) - 1, q = b + n,
             ~(n = Len(h.blk[b].ins) - 1 /\ isBranchOrJump(p[h.blk[b].ins[n]].kind))
      PROVE  HasMovedTail(p, h, b, q)
  BY DEF CanMoveTail
<1> DEFINE B == h.blk[b]
           H == HeadOf(B, n, q)
           T == TailOf(B, n, b)
           cut == [h.blk EXCEPT ![b] = H, ![q] = T]
           P(a) == [cut[a] EXCEPT !.preds = Relink(@, b, q)]
           f == [a \in Addr |-> IF a \in B.succs THEN P(a) ELSE cut[a]]
           c == Claim(h.insMap, T.ins, q)
           m == MoveTail(h, b, q)
           L == Live(h) \cup {q}
           D == Done(h) \cup {b, q}
<1>1. /\ h \in GraphType /\ b \in Addr /\ b \in Nat /\ B \in BlockType
      /\ Live(h) \subseteq Addr /\ q \notin Live(h) /\ q # b
      /\ BlockOK(p, Live(h), Done(h), b, B)
      /\ \A a \in Live(h) : h.blk[a] \in BlockType /\ BlockOK(p, Live(h), Done(h), a, h.blk[a])
  BY ProgramsAssumption DEF GraphOK, GraphType, Live
<1>2. /\ B.succs \subseteq Live(h)
      /\ \A a \in Live(h) :
           /\ \A s \in h.blk[a].succs : s \in Live(h) /\ a \in h.blk[s].preds
           /\ \A s \in h.blk[a].preds : s \in Live(h) /\ a \in h.blk[s].succs
  BY DEF GraphOK, Linked
<1>3. \A a \in Live(h) : BlockOK(p, L, D, a, h.blk[a])
  <2>1. Live(h) \subseteq L /\ Done(h) \subseteq D
    OBVIOUS
  <2> HIDE DEF L, D
  <2> QED BY <1>1, <2>1, BlockOKMonotone
<1>4. /\ H \in BlockType /\ BlockOK(p, L, D, b, H)
      /\ H.ro /\ H.succs = {q} /\ H.preds = B.preds /\ H.code = None
      /\ H.term = q - 1 /\ ~EndsBlock(p[q - 1].kind)
      /\ \A i \in 1 .. n : B.ins[i] \in ToSet(H.ins)
      /\ \A a \in ToSet(H.ins) : \E i \in 1 .. n : a = B.ins[i]
  <2> HIDE DEF L, D
  <2>1. /\ BlockOK(p, L, D, b, B) /\ Ended(p, B) /\ B \in BlockType
        /\ n \in 1 .. Len(B.ins) - 1
        /\ ~(n = Len(B.ins) - 1 /\ isBranchOrJump(p[B.ins[n]].kind))
    BY <1>1, <1>3
  <2>2. b \in Addr /\ q = b + n
    BY <1>1
  <2> HIDE DEF B
  <2>3. GoodHead(p, L, D, b, B, n, q)
    BY <2>1, <2>2, HeadOK
  <2> QED BY <2>3 DEF GoodHead
<1>5. /\ T \in BlockType /\ BlockOK(p, L, D, q, T)
      /\ T.ro /\ T.succs = B.succs /\ T.preds = {b} /\ T.code = None /\ T.term = B.term
      /\ \A i \in n + 1 .. Len(B.ins) : B.ins[i] \in ToSet(T.ins)
      /\ \A a \in ToSet(T.ins) : \E i \in n + 1 .. Len(B.ins) : a = B.ins[i]
  <2> HIDE DEF L, D
  <2>1. /\ BlockOK(p, L, D, b, B) /\ Ended(p, B) /\ B \in BlockType
        /\ n \in 1 .. Len(B.ins) - 1
        /\ ~(n = Len(B.ins) - 1 /\ isBranchOrJump(p[B.ins[n]].kind))
    BY <1>1, <1>3
  <2>2. b \in Addr /\ q = b + n /\ B.succs \subseteq Addr
    BY <1>1, <1>2
  <2> HIDE DEF B
  <2>3. GoodTail(p, L, D, b, B, n, q)
    BY <2>1, <2>2, TailOK
  <2> QED BY <2>3 DEF GoodTail
<1>6. m = [h EXCEPT !.blk = f, !.insMap = c]
  <2> DEFINE C(k) == [h.blk EXCEPT ![b] = HeadOf(B, k, q), ![q] = TailOf(B, k, b)]
             M(k) == [h EXCEPT
                       !.blk = [a \in Addr |-> IF a \in B.succs
                                 THEN [C(k)[a] EXCEPT !.preds = Relink(@, b, q)]
                                 ELSE C(k)[a]],
                       !.insMap = Claim(@, TailOf(B, k, b).ins, q)]
  <2>1. q - b = n
    BY <1>1
  <2>2. m = M(q - b)
    BY DEF MoveTail
  <2>3. M(n) = [h EXCEPT !.blk = f, !.insMap = c]
    OBVIOUS
  <2> HIDE DEF M, C, m, f, c
  <2> QED BY <2>1, <2>2, <2>3
<1>7. /\ \A a \in Live(h) \ {b} : cut[a] = h.blk[a]
      /\ cut[b] = H /\ cut[q] = T
      /\ \A a \in Addr \ L : cut[a] = None
  BY <1>1 DEF GraphType, Live
<1> HIDE DEF cut, H, T, B, c
<1>8. \A a \in L : /\ cut[a] \in BlockType /\ BlockOK(p, L, D, a, cut[a])
  <2> HIDE DEF D
  <2> QED BY <1>1, <1>3, <1>4, <1>5, <1>7
<1>9. \A a \in L : /\ P(a) \in BlockType /\ BlockOK(p, L, D, a, P(a))
                   /\ P(a).ins = cut[a].ins /\ P(a).term = cut[a].term
                   /\ P(a).ro = cut[a].ro /\ P(a).succs = cut[a].succs
                   /\ P(a).preds = Relink(cut[a].preds, b, q) /\ P(a).code = cut[a].code
  <2> SUFFICES ASSUME NEW a \in L
               PROVE /\ P(a) \in BlockType /\ BlockOK(p, L, D, a, P(a))
                     /\ P(a).ins = cut[a].ins /\ P(a).term = cut[a].term
                     /\ P(a).ro = cut[a].ro /\ P(a).succs = cut[a].succs
                     /\ P(a).preds = Relink(cut[a].preds, b, q) /\ P(a).code = cut[a].code
    OBVIOUS
  <2> DEFINE X == cut[a]
             R == Relink(X.preds, b, q)
  <2>1. X \in BlockType /\ BlockOK(p, L, D, a, X)
    BY <1>8
  <2>2. R \in SUBSET Addr
    BY <1>1, <2>1 DEF Relink, BlockType
  <2>3. P(a) = [X EXCEPT !.preds = R]
    OBVIOUS
  <2> HIDE DEF L, D, P, R, X
  <2>4. LET N == [X EXCEPT !.preds = R] IN
        /\ N \in BlockType /\ BlockOK(p, L, D, a, N)
        /\ N.ins = X.ins /\ N.term = X.term /\ N.ro = X.ro
        /\ N.succs = X.succs /\ N.preds = R /\ N.code = X.code
    BY <2>1, <2>2, PredsOK
  <2> QED BY <2>3, <2>4 DEF R, X
<1> HIDE DEF P
<1>10. /\ \A a \in L : /\ f[a] \in BlockType /\ BlockOK(p, L, D, a, f[a])
                       /\ f[a].ins = cut[a].ins /\ f[a].term = cut[a].term
                       /\ f[a].ro = cut[a].ro /\ f[a].succs = cut[a].succs
                       /\ f[a].preds = IF a \in B.succs THEN Relink(cut[a].preds, b, q)
                                       ELSE cut[a].preds
       /\ \A a \in Addr \ L : f[a] = None
  <2>1. L \subseteq Addr /\ B.succs \subseteq L
    BY <1>1, <1>2
  <2> HIDE DEF L, D
  <2> QED BY <1>7, <1>8, <1>9, <2>1
<1>11. f \in [Addr -> BlockType \cup {None}]
  <2>1. \A a \in Addr : f[a] \in BlockType \cup {None}
    BY <1>10
  <2> QED BY <2>1
<1>12. c \in [Addr -> Addr \cup {None}]
       /\ \A a \in Addr : c[a] = IF a \in ToSet(T.ins) THEN q ELSE h.insMap[a]
  BY <1>1 DEF c, Claim, GraphType
<1> HIDE DEF f
<1>13. m \in GraphType /\ m.blk = f /\ m.insMap = c /\ m.rf = h.rf
  BY <1>1, <1>6, <1>11, <1>12 DEF GraphType
<1> HIDE DEF m
<1>14. Live(m) = L
  <2>1. \A a \in Addr : f[a] # None <=> a \in L
    BY <1>1, <1>10, NullAssumption
  <2>2. \A a \in Addr : a \in Live(m) <=> a \in L
    BY <1>13, <2>1 DEF Live
  <2> QED BY <1>1, <2>2 DEF Live
<1>15. D \subseteq Done(m)
  <2>1. \A a \in D : a \in L /\ cut[a].ro
    BY <1>4, <1>5, <1>7 DEF Done
  <2> QED BY <2>1, <1>10, <1>13, <1>14 DEF Done
<1>16. \A a \in Live(m) : BlockOK(p, Live(m), Done(m), a, m.blk[a])
  <2> HIDE DEF L, D
  <2> QED BY <1>10, <1>13, <1>14, <1>15, BlockOKMonotone
<1>17. InsMapOK(m)
  <2>1. ASSUME NEW x \in L, NEW a \in ToSet(f[x].ins) PROVE c[a] # None
    <3>1. f[x].ins \in Seq(Addr) /\ a \in ToSet(cut[x].ins)
      BY <1>10 DEF BlockType
    <3>2. a \in Addr
      BY <3>1 DEF ToSet
    <3>3. CASE a \in ToSet(T.ins)
      BY <3>2, <3>3, <1>12, RegionFinderAssumption
    <3>4. CASE a \notin ToSet(T.ins)
      <4>1. x # q
        BY <3>1, <3>4, <1>7
      <4>2. x = b => a \in ToSet(h.blk[x].ins)
        <5> SUFFICES ASSUME x = b PROVE a \in ToSet(B.ins)
          BY DEF B
        <5>1. PICK i \in 1 .. n : a = B.ins[i]
          BY <3>1, <1>4, <1>7
        <5>2. i \in DOMAIN B.ins
          <6>1. B.ins \in Seq(Addr) /\ n \in 1 .. Len(B.ins) - 1
            BY <1>1 DEF BlockType, B
          <6> QED BY <6>1
        <5> QED BY <5>1, <5>2 DEF ToSet
      <4>3. x \in Live(h) /\ a \in ToSet(h.blk[x].ins)
        BY <3>1, <4>1, <4>2, <1>7
      <4>4. h.insMap[a] # None
        BY <4>3 DEF GraphOK, InsMapOK
      <4> QED BY <3>2, <3>4, <4>4, <1>12
    <3> QED BY <3>3, <3>4
  <2>2. ASSUME NEW a \in Addr, c[a] # None PROVE c[a] \in L /\ a \in ToSet(f[c[a]].ins)
    <3>1. CASE a \in ToSet(T.ins)
      BY <3>1, <1>7, <1>10, <1>12
    <3>2. CASE a \notin ToSet(T.ins)
      <4> DEFINE x == h.insMap[a]
      <4>1. c[a] = x /\ x \in Live(h) /\ a \in ToSet(h.blk[x].ins)
        BY <3>2, <2>2, <1>12 DEF GraphOK, InsMapOK
      <4> HIDE DEF x
      <4>2. CASE x # b
        BY <4>1, <4>2, <1>7, <1>10
      <4>3. CASE x = b
        <5>1. B.ins \in Seq(Addr) /\ Len(B.ins) \in Nat /\ a \in ToSet(B.ins)
          BY <4>1, <4>3, <1>1 DEF BlockType, B
        <5>2. PICK i \in 1 .. Len(B.ins) : a = B.ins[i]
          BY <5>1, ToSetIndex
        <5>3. i \notin n + 1 .. Len(B.ins)
          BY <5>2, <3>2, <1>5
        <5>4. i \in 1 .. n
          BY <5>1, <5>3
        <5>5. a \in ToSet(H.ins)
          BY <5>2, <5>4, <1>4
        <5> QED BY <4>1, <4>3, <5>5, <1>7, <1>10
      <4> QED BY <4>2, <4>3
    <3> QED BY <3>1, <3>2
  <2> QED BY <1>13, <1>14, <2>1, <2>2 DEF InsMapOK
<1>18. /\ \A a \in L : f[a].succs = IF a = b THEN {q}
                                    ELSE IF a = q THEN B.succs ELSE h.blk[a].succs
       /\ \A a \in L : f[a].preds = IF a = q THEN {b}
                                    ELSE IF a \in B.succs THEN Relink(h.blk[a].preds, b, q)
                                    ELSE h.blk[a].preds
  <2> SUFFICES ASSUME NEW a \in L
               PROVE  /\ f[a].succs = IF a = b THEN {q}
                                      ELSE IF a = q THEN B.succs ELSE h.blk[a].succs
                      /\ f[a].preds = IF a = q THEN {b}
                                      ELSE IF a \in B.succs THEN Relink(h.blk[a].preds, b, q)
                                      ELSE h.blk[a].preds
    OBVIOUS
  <2>1. /\ f[a].succs = cut[a].succs
        /\ f[a].preds = IF a \in B.succs THEN Relink(cut[a].preds, b, q) ELSE cut[a].preds
    BY <1>10
  <2>2. b # q /\ q \notin B.succs
    BY <1>1, <1>2
  <2>3. CASE a = q
    BY <2>1, <2>2, <2>3, <1>5, <1>7
  <2>4. CASE a = b
    <3>1. B.preds = h.blk[b].preds
      BY DEF B
    <3> QED BY <2>1, <2>2, <2>4, <3>1, <1>4, <1>7
  <2>5. CASE a # b /\ a # q
    BY <2>1, <2>5, <1>7
  <2> QED BY <2>3, <2>4, <2>5
<1>19. Linked(m)
  <2>1. ASSUME NEW a \in L, NEW s \in f[a].succs PROVE s \in L /\ a \in f[s].preds
    <3>1. CASE a = b
      BY <3>1, <1>1, <1>18
    <3>2. CASE a = q
      <4>1. s \in B.succs /\ s \in Live(h) /\ b \in h.blk[s].preds /\ s # q
        BY <3>2, <1>1, <1>2, <1>18 DEF B
      <4> QED BY <3>2, <4>1, <1>18 DEF Relink
    <3>3. CASE a # b /\ a # q
      <4>1. s \in Live(h) /\ a \in h.blk[s].preds /\ s # q
        BY <3>3, <1>1, <1>2, <1>18
      <4> QED BY <3>3, <4>1, <1>18 DEF Relink
    <3> QED BY <3>1, <3>2, <3>3
  <2>2. ASSUME NEW a \in L, NEW s \in f[a].preds PROVE s \in L /\ a \in f[s].succs
    <3>1. CASE a = q
      BY <3>1, <1>1, <1>18
    <3>2. CASE a # q /\ a \in B.succs
      <4>1. a \in Live(h) /\ b \in h.blk[a].preds
        BY <3>2, <1>2 DEF B
      <4>2. s = q \/ (s \in h.blk[a].preds /\ s # b)
        BY <3>2, <4>1, <1>18 DEF Relink
      <4>3. s = q \/ (s \in Live(h) /\ a \in h.blk[s].succs /\ s # b /\ s # q)
        BY <4>1, <4>2, <1>1, <1>2
      <4> QED BY <3>2, <4>3, <1>1, <1>18
    <3>3. CASE a # q /\ a \notin B.succs
      <4>1. a \in Live(h) /\ s \in h.blk[a].preds
        BY <3>3, <1>18
      <4>2. s \in Live(h) /\ a \in h.blk[s].succs /\ s # b /\ s # q
        BY <3>3, <4>1, <1>1, <1>2 DEF B
      <4> QED BY <4>2, <1>18
    <3> QED BY <3>1, <3>2, <3>3
  <2> HIDE DEF L
  <2> QED BY <1>13, <1>14, <2>1, <2>2 DEF Linked
<1>20. TraceOK(m)
  BY <1>13 DEF TraceOK
<1>21. GraphOK(p, m)
  BY <1>13, <1>16, <1>17, <1>19, <1>20 DEF GraphOK
<1>22. \A a \in Live(h) \ {b} : m.blk[a].ins = h.blk[a].ins /\ m.blk[a].ro = h.blk[a].ro
                                /\ m.blk[a].term = h.blk[a].term
                                /\ m.blk[a].succs = h.blk[a].succs
  <2> SUFFICES ASSUME NEW a \in Live(h) \ {b}
               PROVE  /\ m.blk[a].ins = h.blk[a].ins /\ m.blk[a].ro = h.blk[a].ro
                      /\ m.blk[a].term = h.blk[a].term
                      /\ m.blk[a].succs = h.blk[a].succs
    OBVIOUS
  <2>1. a \in L /\ cut[a] = h.blk[a]
    BY <1>7
  <2> HIDE DEF L
  <2> QED BY <2>1, <1>10, <1>13
<1>23. /\ m.blk[b].succs = {q} /\ m.blk[b].term = q - 1 /\ ~EndsBlock(p[q - 1].kind)
       /\ m.blk[q].succs = B.succs /\ m.blk[q].term = B.term
  BY <1>4, <1>5, <1>7, <1>10, <1>13
<1> QED BY <1>13, <1>14, <1>15, <1>21, <1>22, <1>23 DEF m, B, HasMovedTail

-----------------------------------------------------------------------------
(* A graph in which one block is new or is finished, grown or compiled.    *)
Put(h, b, C, c) == [h EXCEPT !.blk[b] = C, !.insMap = c]

CanPut(p, h, b, C, c) ==
  /\ GraphOK(p, h)
  /\ b \in Addr /\ C \in BlockType /\ c \in [Addr -> Addr \cup {None}]
  /\ b \in Live(h) => /\ h.blk[b].ro => C.ro
                      /\ C.succs = h.blk[b].succs /\ C.preds = h.blk[b].preds
  /\ b \notin Live(h) => C.succs = {} /\ C.preds = {}
  /\ BlockOK(p, Live(h) \cup {b}, Done(h) \cup {x \in {b} : C.ro}, b, C)
  /\ \A a \in ToSet(C.ins) : c[a] # None
  /\ \A a \in Addr : /\ c[a] = b => a \in ToSet(C.ins)
                     /\ c[a] # b => c[a] = h.insMap[a]
                     /\ h.insMap[a] # None => c[a] # None
  /\ h.rf.on /\ h.rf.head = b => C.code = None

(* Afterwards.                                                             *)
HasPut(p, h, b, C, c) ==
  LET n == Put(h, b, C, c) IN
  /\ GraphOK(p, n)
  /\ Live(n) = Live(h) \cup {b} /\ Done(h) \subseteq Done(n) /\ (C.ro => b \in Done(n))
  /\ n.blk[b] = C /\ \A a \in Addr \ {b} : n.blk[a] = h.blk[a]
  /\ n.rf = h.rf /\ n.insMap = c

LEMMA PutOK ==
  ASSUME NEW p, NEW h, NEW b, NEW C, NEW c, CanPut(p, h, b, C, c)
  PROVE  HasPut(p, h, b, C, c)
<1> DEFINE n == Put(h, b, C, c)
<1>0. /\ GraphOK(p, h)
      /\ b \in Addr /\ C \in BlockType /\ c \in [Addr -> Addr \cup {None}]
      /\ b \in Live(h) => /\ h.blk[b].ro => C.ro
                          /\ C.succs = h.blk[b].succs /\ C.preds = h.blk[b].preds
      /\ b \notin Live(h) => C.succs = {} /\ C.preds = {}
      /\ BlockOK(p, Live(h) \cup {b}, Done(h) \cup {x \in {b} : C.ro}, b, C)
      /\ \A a \in ToSet(C.ins) : c[a] # None
      /\ \A a \in Addr : /\ c[a] = b => a \in ToSet(C.ins)
                         /\ c[a] # b => c[a] = h.insMap[a]
                         /\ h.insMap[a] # None => c[a] # None
      /\ h.rf.on /\ h.rf.head = b => C.code = None
  BY DEF CanPut
<1>1. /\ h \in GraphType /\ Live(h) \subseteq Addr
      /\ \A a \in Live(h) : h.blk[a] \in BlockType /\ BlockOK(p, Live(h), Done(h), a, h.blk[a])
  BY <1>0 DEF GraphOK, GraphType, Live
<1>2. /\ n \in GraphType /\ n.blk = [h.blk EXCEPT ![b] = C] /\ n.rf = h.rf /\ n.insMap = c
  BY <1>0, <1>1 DEF GraphType, Put
<1> HIDE DEF n
<1>3. n.blk[b] = C /\ \A a \in Addr \ {b} : n.blk[a] = h.blk[a]
  BY <1>0, <1>1, <1>2 DEF GraphType
<1>4. Live(n) = Live(h) \cup {b}
  <2>1. \A a \in Addr : n.blk[a] # None <=> a \in Live(h) \cup {b}
    BY <1>0, <1>3, NullAssumption DEF Live
  <2>2. \A a \in Addr : a \in Live(n) <=> a \in Live(h) \cup {b}
    BY <1>0, <2>1 DEF Live
  <2> QED BY <1>0, <1>1, <2>2 DEF Live
<1>5. Done(h) \subseteq Done(n) /\ (C.ro => b \in Done(n))
  <2>1. C.ro => b \in Done(n)
    BY <1>3, <1>4 DEF Done
  <2>2. ASSUME NEW a \in Done(h) PROVE a \in Done(n)
    <3>1. a \in Live(h) /\ a \in Addr /\ h.blk[a].ro /\ a \in Live(n)
      BY <1>1, <1>4 DEF Done
    <3> QED BY <3>1, <2>1, <1>0, <1>3 DEF Done
  <2> QED BY <2>1, <2>2
<1>6. \A a \in Live(n) : BlockOK(p, Live(n), Done(n), a, n.blk[a])
  <2> SUFFICES ASSUME NEW a \in Live(n) PROVE BlockOK(p, Live(n), Done(n), a, n.blk[a])
    OBVIOUS
  <2>1. CASE a = b
    <3>1. Done(h) \cup {x \in {b} : C.ro} \subseteq Done(n) /\ Live(h) \cup {b} \subseteq Live(n)
      BY <1>4, <1>5
    <3> QED BY <2>1, <3>1, <1>0, <1>3, BlockOKMonotone
  <2>2. CASE a # b
    <3>1. a \in Live(h) /\ n.blk[a] = h.blk[a] /\ Live(h) \subseteq Live(n)
      BY <1>0, <2>2, <1>1, <1>3, <1>4
    <3> QED BY <3>1, <1>1, <1>5, BlockOKMonotone
  <2> QED BY <2>1, <2>2
<1>7. InsMapOK(n)
  <2>1. ASSUME NEW x \in Live(n), NEW a \in ToSet(n.blk[x].ins) PROVE n.insMap[a] # None
    <3>1. CASE x = b
      BY <1>0, <3>1, <1>2, <1>3
    <3>2. CASE x # b
      <4>1. x \in Live(h) /\ a \in ToSet(h.blk[x].ins) /\ h.blk[x] \in BlockType
        BY <1>0, <3>2, <1>1, <1>3, <1>4
      <4>2. a \in Addr
        BY <4>1 DEF BlockType, ToSet
      <4>3. h.insMap[a] # None
        BY <1>0, <4>1 DEF GraphOK, InsMapOK
      <4> QED BY <1>0, <4>2, <4>3, <1>2
    <3> QED BY <3>1, <3>2
  <2>2. ASSUME NEW a \in Addr, n.insMap[a] # None
        PROVE  n.insMap[a] \in Live(n) /\ a \in ToSet(n.blk[n.insMap[a]].ins)
    <3>1. CASE c[a] = b
      BY <1>0, <3>1, <1>2, <1>3, <1>4
    <3>2. CASE c[a] # b
      <4>1. c[a] = h.insMap[a] /\ n.insMap[a] = c[a]
        BY <1>0, <3>2, <1>2
      <4>2. c[a] \in Live(h) /\ a \in ToSet(h.blk[c[a]].ins)
        BY <1>0, <2>2, <4>1 DEF GraphOK, InsMapOK
      <4> QED BY <3>2, <4>1, <4>2, <1>1, <1>3, <1>4
    <3> QED BY <3>1, <3>2
  <2> QED BY <2>1, <2>2 DEF InsMapOK
<1>8. Linked(n)
  <2>1. \A a \in Live(h) : /\ \A s \in h.blk[a].succs : s \in Live(h) /\ a \in h.blk[s].preds
                           /\ \A s \in h.blk[a].preds : s \in Live(h) /\ a \in h.blk[s].succs
    BY <1>0 DEF GraphOK, Linked
  <2>2. \A a \in Live(h) : n.blk[a].succs = h.blk[a].succs /\ n.blk[a].preds = h.blk[a].preds
    BY <1>0, <1>1, <1>3
  <2>3. \A a \in Live(n) \ Live(h) : n.blk[a].succs = {} /\ n.blk[a].preds = {}
    BY <1>0, <1>3, <1>4
  <2>4. Live(h) \subseteq Live(n)
    BY <1>4
  <2>5. ASSUME NEW a \in Live(n)
        PROVE  /\ \A s \in n.blk[a].succs : s \in Live(n) /\ a \in n.blk[s].preds
               /\ \A s \in n.blk[a].preds : s \in Live(n) /\ a \in n.blk[s].succs
    <3>1. CASE a \in Live(h)
      BY <3>1, <2>1, <2>2, <2>4
    <3>2. CASE a \notin Live(h)
      BY <3>2, <2>3
    <3> QED BY <3>1, <3>2
  <2> QED BY <2>5 DEF Linked
<1>9. TraceOK(n)
  <2> SUFFICES ASSUME h.rf.on
               PROVE  /\ h.rf.head \in Live(n) /\ n.blk[h.rf.head].code = None
                      /\ ToSet(h.rf.hist) \subseteq Done(n)
                      /\ h.rf.hist # <<>> => h.rf.hist[1] = h.rf.head
    BY <1>2 DEF TraceOK
  <2>1. /\ h.rf.head \in Live(h) /\ h.blk[h.rf.head].code = None
        /\ ToSet(h.rf.hist) \subseteq Done(h)
        /\ h.rf.hist # <<>> => h.rf.hist[1] = h.rf.head
    BY <1>0 DEF GraphOK, TraceOK
  <2> QED BY <1>0, <2>1, <1>1, <1>3, <1>4, <1>5
<1>10. GraphOK(p, n)
  BY <1>0, <1>2, <1>6, <1>7, <1>8, <1>9 DEF GraphOK
<1> QED BY <1>2, <1>3, <1>4, <1>5, <1>10 DEF HasPut, n

(* newBlock where there is no block.                                       *)
LEMMA NewBlockOK ==
  ASSUME NEW p, NEW h, GraphOK(p, h), NEW q \in Addr, h.blk[q] = None
  PROVE  LET n == newBlock(h, q) IN
         /\ GraphOK(p, n) /\ Live(n) = Live(h) \cup {q} /\ Done(h) \subseteq Done(n)
         /\ n.blk[q] = FreshBlock /\ \A a \in Addr \ {q} : n.blk[a] = h.blk[a]
         /\ n.rf = h.rf /\ n.insMap = h.insMap
<1> DEFINE n == newBlock(h, q)
           c == h.insMap
           C == FreshBlock
<1>1. /\ h \in GraphType /\ c \in [Addr -> Addr \cup {None}] /\ q \notin Live(h)
      /\ h.blk \in [Addr -> BlockType \cup {None}]
  BY DEF GraphOK, GraphType, Live
<1>2. n = Put(h, q, C, c)
  BY <1>1 DEF newBlock, GraphType, Put
<1>3. C \in BlockType /\ BlockOK(p, Live(h) \cup {q}, Done(h) \cup {x \in {q} : C.ro}, q, C)
  BY FreshBlockOK
<1>4. C.succs = {} /\ C.preds = {} /\ C.ins = <<>> /\ C.code = None
  BY DEF FreshBlock
<1>5. ToSet(C.ins) = {}
  BY <1>4 DEF ToSet
<1>6. \A a \in Addr : c[a] # q
  BY <1>1, RegionFinderAssumption DEF GraphOK, InsMapOK, Live
<1> HIDE DEF n, C
<1>7. CanPut(p, h, q, C, c)
  BY <1>1, <1>3, <1>4, <1>5, <1>6 DEF CanPut
<1> HIDE DEF c
<1>8. HasPut(p, h, q, C, c)
  BY <1>7, PutOK
<1> QED BY <1>2, <1>8 DEF HasPut, n, c, C

(* Finishing a block that may be finished.                                 *)
LEMMA SetReadOnlyOK ==
  ASSUME NEW p, NEW h, GraphOK(p, h), NEW b \in Live(h), Ended(p, h.blk[b])
  PROVE  LET n == setReadOnly(h, b) IN
         /\ GraphOK(p, n) /\ Live(n) = Live(h) /\ Done(h) \cup {b} \subseteq Done(n)
         /\ n.rf = h.rf /\ n.insMap = h.insMap
         /\ \A a \in Addr \ {b} : n.blk[a] = h.blk[a]
         /\ n.blk[b].succs = h.blk[b].succs /\ n.blk[b].term = h.blk[b].term
<1> DEFINE n == setReadOnly(h, b)
           c == h.insMap
           B == h.blk[b]
           C == Sealed(B)
<1>1. /\ h \in GraphType /\ c \in [Addr -> Addr \cup {None}] /\ b \in Addr
      /\ h.blk \in [Addr -> BlockType \cup {None}] /\ B \in BlockType
      /\ BlockOK(p, Live(h), Done(h), b, B) /\ Live(h) \cup {b} = Live(h)
  BY DEF GraphOK, GraphType, Live
<1>2. CASE B.ro
  <2>1. n = h /\ b \in Done(h)
    BY <1>2 DEF setReadOnly, Done
  <2> HIDE DEF n
  <2> QED BY <2>1 DEF n
<1>3. CASE ~B.ro
  <2>1. n = Put(h, b, C, c)
    BY <1>1, <1>3 DEF setReadOnly, GraphType, Put
  <2>2. /\ C \in BlockType /\ C.ins = B.ins /\ C.succs = B.succs /\ C.preds = B.preds
        /\ C.ro /\ C.code = None /\ BlockOK(p, Live(h), Done(h), b, C) /\ C.term = B.term
    <3> HIDE DEF B
    <3>1. Ended(p, B)
      BY DEF B
    <3> QED BY <3>1, <1>1, SealedOK
  <2>3. \A a \in ToSet(C.ins) : c[a] # None
    BY <2>2 DEF GraphOK, InsMapOK
  <2>4. \A a \in Addr : c[a] = b => a \in ToSet(C.ins)
    BY <2>2, <1>1, RegionFinderAssumption DEF GraphOK, InsMapOK
  <2> HIDE DEF n, C
  <2>5. BlockOK(p, Live(h) \cup {b}, Done(h) \cup {x \in {b} : C.ro}, b, C)
    BY <2>2, <1>1, BlockOKMonotone
  <2>6. CanPut(p, h, b, C, c)
    BY <1>1, <2>2, <2>3, <2>4, <2>5 DEF CanPut
  <2> HIDE DEF c
  <2>7. HasPut(p, h, b, C, c)
    BY <2>6, PutOK
  <2> QED BY <1>1, <2>1, <2>2, <2>7 DEF HasPut, n, c
<1> QED BY <1>2, <1>3

(* Nor do other successors.                                                *)
LEMMA SuccsOK ==
  ASSUME NEW p, NEW live, NEW done, NEW b, NEW B \in BlockType,
         BlockOK(p, live, done, b, B), NEW S \in SUBSET Addr
  PROVE  LET N == [B EXCEPT !.succs = S] IN
         /\ N \in BlockType /\ BlockOK(p, live, done, b, N)
         /\ N.ins = B.ins /\ N.term = B.term /\ N.ro = B.ro
         /\ N.succs = S /\ N.preds = B.preds /\ N.code = B.code
<1> DEFINE N == [B EXCEPT !.succs = S]
<1>1. /\ N \in BlockType /\ N.ins = B.ins /\ N.term = B.term /\ N.ro = B.ro
      /\ N.succs = S /\ N.preds = B.preds /\ N.code = B.code /\ N.likely = B.likely
      /\ N.heads = B.heads /\ N.traces = B.traces /\ N.has = B.has
  BY DEF BlockType
<1> HIDE DEF N
<1>2. BlockOK(p, live, done, b, N)
  BY <1>1 DEF BlockOK, Consecutive, Ended, LikelyOK, TracesOK
<1> QED BY <1>1, <1>2 DEF N

(* addSuccessor between blocks.                                            *)
HasEdge(p, h, b, s) ==
  LET n == addSuccessor(h, b, s) IN
  /\ GraphOK(p, n) /\ Live(n) = Live(h) /\ Done(n) = Done(h)
  /\ n.rf = h.rf /\ n.insMap = h.insMap
  /\ \A a \in Live(h) :
       /\ n.blk[a].ins = h.blk[a].ins /\ n.blk[a].term = h.blk[a].term
       /\ n.blk[a].succs = IF a = b THEN h.blk[b].succs \cup {s} ELSE h.blk[a].succs

LEMMA AddSuccessorOK ==
  ASSUME NEW p, NEW h, GraphOK(p, h), NEW b \in Live(h), NEW s \in Live(h)
  PROVE  HasEdge(p, h, b, s)
<1> DEFINE S == h.blk[b].succs \cup {s}
           B == [h.blk[b] EXCEPT !.succs = S]
           k == [h.blk EXCEPT ![b] = B]
           P == k[s].preds \cup {b}
           f == [k EXCEPT ![s] = [k[s] EXCEPT !.preds = P]]
           n == addSuccessor(h, b, s)
<1>1. /\ h \in GraphType /\ Live(h) \subseteq Addr
      /\ \A a \in Live(h) : h.blk[a] \in BlockType /\ BlockOK(p, Live(h), Done(h), a, h.blk[a])
  BY DEF GraphOK, GraphType, Live
<1>2. n = Remap(h, f)
  <2> DEFINE X == [h EXCEPT !.blk[b].succs = @ \cup {s}]
  <2>1. X = [h EXCEPT !.blk = k] /\ X.blk = k
    BY <1>1 DEF GraphType
  <2>2. n = [X EXCEPT !.blk = [X.blk EXCEPT ![s] = [X.blk[s] EXCEPT !.preds = @ \cup {b}]]]
    BY DEF addSuccessor
  <2> HIDE DEF X, k, n
  <2>3. n = [X EXCEPT !.blk = f]
    BY <2>1, <2>2
  <2> HIDE DEF f
  <2> QED BY <1>1, <2>1, <2>3 DEF Remap, GraphType
<1>3. /\ S \in SUBSET Addr /\ B \in BlockType /\ BlockOK(p, Live(h), Done(h), b, B)
      /\ B.ins = h.blk[b].ins /\ B.term = h.blk[b].term /\ B.ro = h.blk[b].ro
      /\ B.succs = S /\ B.preds = h.blk[b].preds /\ B.code = h.blk[b].code
  <2>1. S \in SUBSET Addr
    BY <1>1 DEF BlockType
  <2>2. h.blk[b] \in BlockType /\ BlockOK(p, Live(h), Done(h), b, h.blk[b])
    BY <1>1
  <2> HIDE DEF S
  <2> QED BY <2>1, <2>2, SuccsOK
<1>4. k[b] = B /\ (\A a \in Addr \ {b} : k[a] = h.blk[a]) /\ k \in [Addr -> BlockType \cup {None}]
  BY <1>1, <1>3 DEF GraphType
<1> HIDE DEF B
<1>5. \A a \in Live(h) :
        /\ k[a] \in BlockType /\ BlockOK(p, Live(h), Done(h), a, k[a])
        /\ k[a].ins = h.blk[a].ins /\ k[a].term = h.blk[a].term /\ k[a].ro = h.blk[a].ro
        /\ k[a].preds = h.blk[a].preds /\ k[a].code = h.blk[a].code
        /\ k[a].succs = IF a = b THEN S ELSE h.blk[a].succs
  BY <1>1, <1>3, <1>4
<1> HIDE DEF k
<1>6. LET Q == [k[s] EXCEPT !.preds = P] IN
      /\ Q \in BlockType /\ BlockOK(p, Live(h), Done(h), s, Q)
      /\ Q.ins = k[s].ins /\ Q.term = k[s].term /\ Q.ro = k[s].ro
      /\ Q.succs = k[s].succs /\ Q.preds = P /\ Q.code = k[s].code
  <2>1. P \in SUBSET Addr
    BY <1>1, <1>5 DEF BlockType
  <2>2. k[s] \in BlockType /\ BlockOK(p, Live(h), Done(h), s, k[s])
    BY <1>5
  <2> HIDE DEF P
  <2> QED BY <2>1, <2>2, PredsOK
<1>7. f[s] = [k[s] EXCEPT !.preds = P] /\ \A a \in Addr \ {s} : f[a] = k[a]
  BY <1>1, <1>4
<1>8. /\ \A a \in Live(h) :
           /\ f[a] \in BlockType /\ BlockOK(p, Live(h), Done(h), a, f[a])
           /\ f[a].ins = h.blk[a].ins /\ f[a].term = h.blk[a].term /\ f[a].ro = h.blk[a].ro
           /\ f[a].code = h.blk[a].code
           /\ f[a].succs = IF a = b THEN S ELSE h.blk[a].succs
           /\ f[a].preds = IF a = s THEN P ELSE h.blk[a].preds
      /\ f \in [Addr -> BlockType \cup {None}]
      /\ \A a \in Addr \ Live(h) : f[a] = None
  <2>1. ASSUME NEW a \in Live(h)
        PROVE  /\ f[a] \in BlockType /\ BlockOK(p, Live(h), Done(h), a, f[a])
               /\ f[a].ins = h.blk[a].ins /\ f[a].term = h.blk[a].term /\ f[a].ro = h.blk[a].ro
               /\ f[a].code = h.blk[a].code
               /\ f[a].succs = IF a = b THEN S ELSE h.blk[a].succs
               /\ f[a].preds = IF a = s THEN P ELSE h.blk[a].preds
    <3> HIDE DEF f, P, S
    <3>1. CASE a = s
      BY <3>1, <1>5, <1>6, <1>7
    <3>2. CASE a # s
      BY <3>2, <1>1, <1>5, <1>7
    <3> QED BY <3>1, <3>2
  <2>2. \A a \in Addr \ Live(h) : f[a] = None
    <3> HIDE DEF f
    <3> QED BY <1>4, <1>7 DEF Live
  <2>3. f \in [Addr -> BlockType \cup {None}]
    BY <1>4, <1>6
  <2> QED BY <2>1, <2>2, <2>3
<1> HIDE DEF f, n
<1>9. \A a \in Live(h) : /\ \A x \in f[a].succs : x \in Live(h) /\ a \in f[x].preds
                         /\ \A x \in f[a].preds : x \in Live(h) /\ a \in f[x].succs
  <2>1. \A a \in Live(h) : /\ \A x \in h.blk[a].succs : x \in Live(h) /\ a \in h.blk[x].preds
                           /\ \A x \in h.blk[a].preds : x \in Live(h) /\ a \in h.blk[x].succs
    BY DEF GraphOK, Linked
  <2>2. P = h.blk[s].preds \cup {b}
    BY <1>5
  <2> HIDE DEF P
  <2>3. ASSUME NEW a \in Live(h), NEW x \in f[a].succs PROVE x \in Live(h) /\ a \in f[x].preds
    <3>1. CASE a = b /\ x = s
      BY <3>1, <2>2, <1>8
    <3>2. CASE x \in h.blk[a].succs
      BY <3>2, <2>1, <2>2, <1>8
    <3> QED BY <3>1, <3>2, <1>8
  <2>4. ASSUME NEW a \in Live(h), NEW x \in f[a].preds PROVE x \in Live(h) /\ a \in f[x].succs
    <3>1. CASE x = b /\ a = s
      BY <3>1, <1>8
    <3>2. CASE x \in h.blk[a].preds
      BY <3>2, <2>1, <1>8
    <3> QED BY <3>1, <3>2, <2>2, <1>8
  <2> QED BY <2>3, <2>4
<1>10. h.rf.on => f[h.rf.head].code = None
  BY <1>8 DEF GraphOK, TraceOK
<1>11. CanRemap(p, h, f)
  BY <1>8, <1>9, <1>10 DEF CanRemap
<1>12. HasRemap(p, h, f)
  BY <1>11, RemapOK
<1>13. /\ GraphOK(p, n) /\ Live(n) = Live(h) /\ Done(n) = Done(h)
       /\ n.blk = f /\ n.rf = h.rf /\ n.insMap = h.insMap
  BY <1>2, <1>12 DEF HasRemap
<1>14. \A a \in Live(h) :
         /\ f[a].ins = h.blk[a].ins /\ f[a].term = h.blk[a].term
         /\ f[a].succs = IF a = b THEN h.blk[b].succs \cup {s} ELSE h.blk[a].succs
  BY <1>8
<1> HIDE DEF S, P
<1> QED BY <1>13, <1>14 DEF HasEdge, n

(* A delay slot gets a block of its own.                                   *)
LEMMA DelaySlotOK ==
  ASSUME NEW p, NEW h, GraphOK(p, h), NEW q \in Addr, h.blk[q] = None,
         p[q].kind \in {"alu", "nc"}
  PROVE  LET n == DelaySlotBlock(h, q) IN
         /\ GraphOK(p, n) /\ Live(n) = Live(h) \cup {q}
         /\ Done(h) \cup {q} \subseteq Done(n) /\ n.rf = h.rf
         /\ \A a \in Addr \ {q} : n.blk[a] = h.blk[a]
         /\ n.blk[q].succs = {} /\ n.blk[q].term = q
<1> DEFINE n == DelaySlotBlock(h, q)
           C == [Sealed(FreshBlock) EXCEPT !.ins = <<q>>, !.term = q]
           c == [h.insMap EXCEPT ![q] = q]
<1>1. /\ h \in GraphType /\ c \in [Addr -> Addr \cup {None}] /\ q \notin Live(h)
      /\ c[q] = q /\ \A a \in Addr \ {q} : c[a] = h.insMap[a]
  BY DEF GraphOK, GraphType, Live
<1>2. n = Put(h, q, C, c)
  BY <1>1 DEF DelaySlotBlock, GraphType, Put
<1>3. /\ C \in BlockType
      /\ BlockOK(p, Live(h) \cup {q}, Done(h) \cup {x \in {q} : C.ro}, q, C)
      /\ C.ro /\ C.succs = {} /\ C.preds = {} /\ C.ins = <<q>> /\ C.code = None
      /\ C.term = q
  BY SlotOK
<1>4. \A a \in ToSet(C.ins) : a = q
  BY <1>3 DEF ToSet
<1>5. q \in ToSet(C.ins)
  <2>1. <<q>>[1] = q /\ 1 \in DOMAIN <<q>>
    OBVIOUS
  <2> QED BY <2>1, <1>3 DEF ToSet
<1>6. \A a \in Addr : h.insMap[a] # q
  BY <1>1, RegionFinderAssumption DEF GraphOK, InsMapOK, Live
<1> HIDE DEF n, C, c
<1>7. q # None
  BY RegionFinderAssumption
<1>8. \A a \in Addr : /\ c[a] = q => a \in ToSet(C.ins)
                      /\ c[a] # q => c[a] = h.insMap[a]
                      /\ h.insMap[a] # None => c[a] # None
  <2> SUFFICES ASSUME NEW a \in Addr
               PROVE  /\ c[a] = q => a \in ToSet(C.ins)
                      /\ c[a] # q => c[a] = h.insMap[a]
                      /\ h.insMap[a] # None => c[a] # None
    OBVIOUS
  <2>1. CASE a = q
    <3>1. c[a] = q /\ a \in ToSet(C.ins)
      BY <2>1, <1>1, <1>5
    <3> QED BY <3>1, <1>7
  <2>2. CASE a # q
    BY <2>2, <1>1, <1>6
  <2> QED BY <2>1, <2>2
<1>9. CanPut(p, h, q, C, c)
  BY <1>1, <1>3, <1>4, <1>7, <1>8 DEF CanPut
<1>10. HasPut(p, h, q, C, c)
  BY <1>9, PutOK
<1> QED BY <1>2, <1>3, <1>10 DEF HasPut, n

-----------------------------------------------------------------------------
(* What survives the operations that look blocks up: blocks stay, finished *)
(* ones stay finished, and the others keep their instructions until they   *)
(* are finished.  The collection goes on undisturbed or ends.              *)
Evolves(h, n) ==
  /\ Live(h) \subseteq Live(n) /\ Done(h) \subseteq Done(n)
  /\ \A a \in Live(h) : \/ a \in Done(n)
                        \/ n.blk[a].ins = h.blk[a].ins /\ n.blk[a].term = h.blk[a].term
  /\ n.rf = h.rf \/ (n.rf = disableRegionCollection(h.rf) /\ ~n.rf.on)

LEMMA EvolvesTrans ==
  ASSUME NEW h, NEW m, NEW n, Evolves(h, m), Evolves(m, n)
  PROVE  Evolves(h, n)
BY DEF Evolves, disableRegionCollection

(* Splitting the block x that contains the word q, which has no block.     *)
CanSplit(p, h, x, q) ==
  /\ p \in Programs /\ GraphOK(p, h)
  /\ x \in Live(h) /\ Ended(p, h.blk[x])
  /\ q \in Addr /\ h.blk[q] = None /\ q \in ToSet(h.blk[x].ins)

HasSplit(p, h, x, q) ==
  LET n == split(p, h, x, q) IN
  GraphOK(p, n) /\ Evolves(h, n) /\ Live(n) = Live(h) \cup {q} /\ q \in Done(n)

(* It ends the collection, discards x's code, and then gives q a block:    *)
(* a delay slot's own, or x's tail.                                        *)
Quiet(h) == [h EXCEPT !.rf = disableRegionCollection(@)]

Dropped(h, x) == dropCompiledCode(Quiet(h), x)

SplitInSteps(p, h, x, q) ==
  LET o == Quiet(h)
      d == Dropped(h, x)
      n == split(p, h, x, q)
  IN /\ GraphOK(p, o) /\ o.blk = h.blk
     /\ o.rf = disableRegionCollection(h.rf) /\ ~o.rf.on
     /\ Live(o) = Live(h) /\ Done(o) = Done(h)
     /\ GraphOK(p, d) /\ d.rf = o.rf /\ Live(d) = Live(h) /\ Done(d) = Done(h)
     /\ \A a \in Live(h) :
          /\ d.blk[a].ins = h.blk[a].ins /\ d.blk[a].term = h.blk[a].term
          /\ d.blk[a].succs = h.blk[a].succs
     /\ d.blk[q] = None
     /\ \/ n = DelaySlotBlock(d, q) /\ p[q].kind \in {"alu", "nc"}
        \/ n = MoveTail(d, x, q) /\ CanMoveTail(p, d, x, q, q - x)

LEMMA SplitSteps ==
  ASSUME NEW p, NEW h, NEW x, NEW q, CanSplit(p, h, x, q)
  PROVE  SplitInSteps(p, h, x, q)
<1> DEFINE B == h.blk[x]
           o == Quiet(h)
           d == Dropped(h, x)
           len == Len(B.ins)
           k == q - x
           slot == k = len - 1 /\ isBranchOrJump(p[B.ins[k]].kind)
           n == split(p, h, x, q)
<1>1. /\ p \in Programs /\ GraphOK(p, h) /\ x \in Live(h) /\ Ended(p, B)
      /\ q \in Addr /\ h.blk[q] = None /\ q \in ToSet(B.ins)
  BY DEF CanSplit
<1>2. /\ x \in Addr /\ x \in Nat /\ B \in BlockType /\ B.ins \in Seq(Addr) /\ len \in Nat
      /\ Consecutive(x, B) /\ q # x /\ x # None /\ DOMAIN B.ins = 1 .. len
  <2>1. x \in Addr /\ B \in BlockType /\ BlockOK(p, Live(h), Done(h), x, B) /\ q # x
    <3>1. x \in Addr /\ B # None
      BY <1>1 DEF Live
    <3>2. B \in BlockType /\ BlockOK(p, Live(h), Done(h), x, B)
      BY <1>1, <3>1 DEF GraphOK, GraphType
    <3> QED BY <1>1, <3>1, <3>2
  <2>2. x \in Nat /\ x # None /\ B.ins \in Seq(Addr)
    BY <2>1, ProgramsAssumption, RegionFinderAssumption DEF BlockType
  <2> QED BY <2>1, <2>2 DEF BlockOK
<1>3. k \in 1 .. len - 1 /\ q = x + k
  <2>1. PICK i \in 1 .. len : q = B.ins[i]
    BY <1>1, <1>2, ToSetIndex
  <2>2. q = x + i - 1
    BY <2>1, <1>2 DEF Consecutive
  <2>3. i \in 1 .. len /\ i # 1
    BY <2>2, <1>2
  <2> QED BY <2>2, <2>3, <1>2
<1>4. /\ GraphOK(p, o) /\ o.rf.on = FALSE /\ o.blk = h.blk /\ o.insMap = h.insMap
      /\ o.rf = disableRegionCollection(h.rf)
  <2>1. o.rf = disableRegionCollection(h.rf)
    BY <1>1 DEF GraphOK, GraphType, Quiet
  <2> QED BY <1>1, <2>1, DisableOK DEF Quiet
<1> HIDE DEF o
<1>5. Live(o) = Live(h) /\ Done(o) = Done(h)
  BY <1>4 DEF Live, Done
<1>6. /\ GraphOK(p, d) /\ Live(d) = Live(h) /\ Done(d) = Done(h) /\ d.rf = o.rf
      /\ \A a \in Live(h) : /\ d.blk[a].ins = h.blk[a].ins /\ d.blk[a].term = h.blk[a].term
                             /\ d.blk[a].succs = h.blk[a].succs
  <2>1. GraphOK(p, o) /\ x \in Live(o)
    BY <1>1, <1>4, <1>5
  <2>2. d = dropCompiledCode(o, x)
    BY DEF Dropped, o
  <2> HIDE DEF d
  <2> QED BY <2>1, <2>2, <1>4, <1>5, DropOK
<1> HIDE DEF d
<1>7. /\ d.blk[x].ins = B.ins /\ Ended(p, d.blk[x]) /\ d.blk[q] = None
      /\ d.rf.on = FALSE /\ x \in Live(d)
  <2>1. d.blk[x].ins = B.ins /\ d.blk[x].term = B.term
    BY <1>1, <1>6
  <2>2. q \notin Live(d)
    BY <1>1, <1>6 DEF Live
  <2> QED BY <2>1, <2>2, <1>1, <1>4, <1>6 DEF Ended, Live
<1>8. n = IF slot THEN DelaySlotBlock(d, q) ELSE MoveTail(d, x, q)
  BY DEF split, d, o, Dropped, Quiet
<1> HIDE DEF n
<1>9. CASE slot
  <2>1. p[q].kind \in {"alu", "nc"}
    <3>1. k \in 1 .. len /\ B.ins[k] \in Addr /\ B.ins[k] = x + k - 1
      BY <1>2, <1>3 DEF Consecutive
    <3>2. q = B.ins[k] + 1
      BY <3>1, <1>2, <1>3
    <3>3. WellFormed(p)
      BY <1>1, ProgramsAssumption
    <3> QED BY <3>1, <3>2, <3>3, <1>9 DEF WellFormed
  <2>2. n = DelaySlotBlock(d, q)
    BY <1>8, <1>9
  <2> QED BY <2>1, <2>2, <1>4, <1>5, <1>6, <1>7 DEF SplitInSteps, n, d, o
<1>10. CASE ~slot
  <2>1. CanMoveTail(p, d, x, q, k)
    BY <1>1, <1>3, <1>6, <1>7, <1>10 DEF CanMoveTail
  <2>2. n = MoveTail(d, x, q)
    BY <1>8, <1>10
  <2> QED BY <2>1, <2>2, <1>4, <1>5, <1>6, <1>7 DEF SplitInSteps, n, d, o
<1> QED BY <1>9, <1>10

LEMMA SplitOK ==
  ASSUME NEW p, NEW h, NEW x, NEW q, CanSplit(p, h, x, q)
  PROVE  HasSplit(p, h, x, q)
<1> DEFINE o == Quiet(h)
           d == Dropped(h, x)
           n == split(p, h, x, q)
<1>1. /\ o.rf = disableRegionCollection(h.rf) /\ ~o.rf.on
      /\ GraphOK(p, d) /\ d.rf = o.rf /\ Live(d) = Live(h) /\ Done(d) = Done(h)
      /\ \A a \in Live(h) : d.blk[a].ins = h.blk[a].ins /\ d.blk[a].term = h.blk[a].term
      /\ d.blk[q] = None /\ q \in Addr
      /\ \/ n = DelaySlotBlock(d, q) /\ p[q].kind \in {"alu", "nc"}
         \/ n = MoveTail(d, x, q) /\ CanMoveTail(p, d, x, q, q - x)
  BY SplitSteps DEF SplitInSteps, CanSplit
<1> HIDE DEF o, d, n
<1>2. CASE n = DelaySlotBlock(d, q) /\ p[q].kind \in {"alu", "nc"}
  <2>1. /\ GraphOK(p, n) /\ Live(n) = Live(d) \cup {q}
        /\ Done(d) \cup {q} \subseteq Done(n) /\ n.rf = d.rf
        /\ \A a \in Addr \ {q} : n.blk[a] = d.blk[a]
    BY <1>1, <1>2, DelaySlotOK
  <2>2. \A a \in Live(h) : a \in Addr \ {q}
    BY <1>1 DEF Live
  <2> QED BY <2>1, <2>2, <1>1 DEF HasSplit, Evolves, n
<1>3. CASE n = MoveTail(d, x, q) /\ CanMoveTail(p, d, x, q, q - x)
  <2>1. HasMovedTail(p, d, x, q)
    BY <1>3, MoveTailOK
  <2> QED BY <2>1, <1>1, <1>3 DEF HasMovedTail, HasSplit, Evolves, n
<1> QED BY <1>1, <1>2, <1>3

(* An edge changes nothing but the graph's edges.                          *)
LEMMA EdgeEvolves ==
  ASSUME NEW p, NEW h, GraphOK(p, h), NEW b \in Live(h), NEW s \in Live(h)
  PROVE  LET n == addSuccessor(h, b, s) IN
         GraphOK(p, n) /\ Evolves(h, n) /\ Live(n) = Live(h) /\ Done(n) = Done(h)
<1> DEFINE n == addSuccessor(h, b, s)
<1>1. /\ GraphOK(p, n) /\ Live(n) = Live(h) /\ Done(n) = Done(h)
      /\ n.rf = h.rf /\ n.insMap = h.insMap
      /\ \A a \in Live(h) :
           /\ n.blk[a].ins = h.blk[a].ins /\ n.blk[a].term = h.blk[a].term
           /\ n.blk[a].succs = IF a = b THEN h.blk[b].succs \cup {s} ELSE h.blk[a].succs
  BY AddSuccessorOK DEF HasEdge
<1> HIDE DEF n
<1> QED BY <1>1 DEF Evolves, n

(* Looking a block up from b, when every block has ended or is empty.      *)
CanFind(p, h, b, q) ==
  /\ p \in Programs /\ GraphOK(p, h)
  /\ b \in Live(h) /\ q \in Addr
  /\ \A x \in Live(h) : Ended(p, h.blk[x]) \/ h.blk[x].ins = <<>>

HasFound(p, h, b, q) ==
  LET n == findBlock(p, h, b, q) IN
  /\ GraphOK(p, n) /\ Evolves(h, n)
  /\ Live(n) \subseteq Live(h) \cup {q} /\ Live(n) \subseteq Live(h) \cup Done(n)

LEMMA FindBlockOK ==
  ASSUME NEW p, NEW h, NEW b, NEW q, CanFind(p, h, b, q)
  PROVE  HasFound(p, h, b, q)
<1> DEFINE n == findBlock(p, h, b, q)
           x == h.insMap[q]
<1>1. /\ p \in Programs /\ GraphOK(p, h) /\ b \in Live(h) /\ q \in Addr
      /\ \A y \in Live(h) : Ended(p, h.blk[y]) \/ h.blk[y].ins = <<>>
  BY DEF CanFind
<1>2. Evolves(h, h)
  BY DEF Evolves
<1>3. CASE n = h
  BY <1>1, <1>2, <1>3 DEF HasFound
<1>4. CASE n = addSuccessor(h, b, q) /\ h.blk[q] # None
  <2>1. q \in Live(h)
    BY <1>1, <1>4 DEF Live
  <2> HIDE DEF n
  <2>2. GraphOK(p, n) /\ Evolves(h, n) /\ Live(n) = Live(h)
    BY <1>1, <1>4, <2>1, EdgeEvolves
  <2> QED BY <2>2 DEF HasFound, n
<1>5. CASE n = addSuccessor(split(p, h, x, q), b, q) /\ h.blk[q] = None /\ x # None
  <2> DEFINE s == split(p, h, x, q)
  <2>1. CanSplit(p, h, x, q)
    <3>1. x \in Live(h) /\ q \in ToSet(h.blk[x].ins)
      BY <1>1, <1>5 DEF GraphOK, InsMapOK
    <3>2. h.blk[x].ins # <<>>
      BY <3>1 DEF ToSet
    <3> QED BY <3>1, <3>2, <1>1, <1>5 DEF CanSplit
  <2>2. GraphOK(p, s) /\ Evolves(h, s) /\ Live(s) = Live(h) \cup {q} /\ q \in Done(s)
    BY <2>1, SplitOK DEF HasSplit
  <2>3. n = addSuccessor(s, b, q)
    BY <1>5
  <2> HIDE DEF s, n
  <2>4. b \in Live(s) /\ q \in Live(s)
    BY <1>1, <2>2
  <2>5. GraphOK(p, n) /\ Evolves(s, n) /\ Live(n) = Live(s) /\ Done(n) = Done(s)
    BY <2>2, <2>3, <2>4, EdgeEvolves
  <2>6. Evolves(h, n)
    BY <2>2, <2>5, EvolvesTrans
  <2> QED BY <2>2, <2>5, <2>6 DEF HasFound, n
<1>6. \/ n = h
      \/ n = addSuccessor(h, b, q) /\ h.blk[q] # None
      \/ n = addSuccessor(split(p, h, x, q), b, q) /\ h.blk[q] = None /\ x # None
  BY DEF findBlock
<1> QED BY <1>3, <1>4, <1>5, <1>6

(* A new block after b.                                                    *)
HasNewAfter(p, h, b, q) ==
  LET n == newBlockAfter(h, q, b) IN
  /\ GraphOK(p, n) /\ Evolves(h, n) /\ Live(n) = Live(h) \cup {q}
  /\ n.blk[q].ins = <<>> /\ n.blk[q].term = None /\ n.rf = h.rf
  /\ n.blk[q].succs = {}
  /\ \A a \in Live(h) :
       /\ n.blk[a].term = h.blk[a].term
       /\ n.blk[a].succs = IF a = b THEN h.blk[b].succs \cup {q} ELSE h.blk[a].succs

LEMMA NewBlockAfterOK ==
  ASSUME NEW p, NEW h, GraphOK(p, h), NEW b \in Live(h), NEW q \in Addr, h.blk[q] = None
  PROVE  HasNewAfter(p, h, b, q)
<1> DEFINE m == newBlock(h, q)
           n == newBlockAfter(h, q, b)
<1>1. /\ GraphOK(p, m) /\ Live(m) = Live(h) \cup {q} /\ Done(h) \subseteq Done(m)
      /\ m.blk[q] = FreshBlock /\ \A a \in Addr \ {q} : m.blk[a] = h.blk[a]
      /\ m.rf = h.rf /\ m.insMap = h.insMap
  BY NewBlockOK
<1>2. n = addSuccessor(m, b, q)
  BY DEF newBlockAfter
<1> HIDE DEF m, n
<1>3. b \in Live(m) /\ q \in Live(m)
  BY <1>1
<1>4. /\ GraphOK(p, n) /\ Live(n) = Live(m) /\ Done(n) = Done(m)
      /\ n.rf = m.rf /\ n.insMap = m.insMap
      /\ \A a \in Live(m) :
           /\ n.blk[a].ins = m.blk[a].ins /\ n.blk[a].term = m.blk[a].term
           /\ n.blk[a].succs = IF a = b THEN m.blk[b].succs \cup {q} ELSE m.blk[a].succs
  <2>1. HasEdge(p, m, b, q)
    BY <1>1, <1>3, AddSuccessorOK
  <2> QED BY <2>1, <1>2 DEF HasEdge
<1>5. \A a \in Live(h) : a \in Addr \ {q}
  BY DEF Live
<1>6. Evolves(h, n)
  BY <1>1, <1>4, <1>5 DEF Evolves
<1>7. n.blk[q].ins = <<>> /\ n.blk[q].term = None /\ n.blk[q].succs = {}
  <2>1. FreshBlock.ins = <<>> /\ FreshBlock.term = None /\ FreshBlock.succs = {}
    BY DEF FreshBlock
  <2>2. q # b
    BY <1>5
  <2> QED BY <2>1, <2>2, <1>1, <1>3, <1>4
<1>8. \A a \in Live(h) :
        /\ n.blk[a].term = h.blk[a].term
        /\ n.blk[a].succs = IF a = b THEN h.blk[b].succs \cup {q} ELSE h.blk[a].succs
  <2>1. \A a \in Live(h) : a \in Live(m) /\ m.blk[a] = h.blk[a]
    BY <1>1, <1>5
  <2> QED BY <2>1, <1>4
<1> QED BY <1>1, <1>4, <1>6, <1>7, <1>8 DEF n, HasNewAfter

(* getNextBlock from a block that has ended.                               *)
HasNext(p, h, b, q) ==
  LET n == getNextBlock(p, h, b, q) IN
  /\ GraphOK(p, n) /\ Evolves(h, n)
  /\ b \in Done(n) /\ q \in Live(n) /\ Live(n) \subseteq Live(h) \cup {q}
  /\ \A a \in Live(n) \ Live(h) : \/ a \in Done(n)
                                  \/ n.blk[a].ins = <<>> /\ n.blk[a].term = None

LEMMA GetNextBlockOK ==
  ASSUME NEW p, NEW h, NEW b, NEW q, CanFind(p, h, b, q), Ended(p, h.blk[b])
  PROVE  HasNext(p, h, b, q)
<1> DEFINE f == findBlock(p, h, b, q)
           m == IF f.blk[q] = None THEN newBlockAfter(f, q, b) ELSE f
           n == getNextBlock(p, h, b, q)
<1>1. b \in Live(h) /\ q \in Addr
  BY DEF CanFind
<1>2. /\ GraphOK(p, f) /\ Evolves(h, f)
      /\ Live(f) \subseteq Live(h) \cup {q} /\ Live(f) \subseteq Live(h) \cup Done(f)
  BY FindBlockOK DEF HasFound
<1> HIDE DEF f
<1>3. /\ GraphOK(p, m) /\ Evolves(f, m) /\ q \in Live(m)
      /\ Live(m) \subseteq Live(f) \cup {q}
      /\ q \in Live(f) \/ (m.blk[q].ins = <<>> /\ m.blk[q].term = None)
  <2>1. CASE f.blk[q] = None
    <3>1. m = newBlockAfter(f, q, b) /\ b \in Live(f)
      BY <1>1, <1>2, <2>1 DEF Evolves
    <3> HIDE DEF m
    <3>2. HasNewAfter(p, f, b, q)
      BY <1>1, <1>2, <2>1, <3>1, NewBlockAfterOK
    <3> QED BY <3>1, <3>2 DEF HasNewAfter
  <2>2. CASE f.blk[q] # None
    <3>1. m = f /\ q \in Live(f)
      BY <1>1, <2>2 DEF Live
    <3> HIDE DEF m
    <3> QED BY <3>1, <1>2 DEF Evolves
  <2> QED BY <2>1, <2>2
<1>4. n = setReadOnly(m, b)
  BY DEF getNextBlock, f
<1> HIDE DEF m, n
<1>5. Evolves(h, m)
  BY <1>2, <1>3, EvolvesTrans
<1>6. b \in Live(m) /\ Ended(p, m.blk[b])
  <2>1. b \in Live(m)
    BY <1>1, <1>5 DEF Evolves
  <2>2. CASE b \in Done(m)
    BY <2>1, <2>2, <1>3 DEF GraphOK, BlockOK, Done
  <2>3. CASE m.blk[b].ins = h.blk[b].ins /\ m.blk[b].term = h.blk[b].term
    BY <2>1, <2>3 DEF Ended
  <2> QED BY <2>1, <2>2, <2>3, <1>1, <1>5 DEF Evolves
<1>7. /\ GraphOK(p, n) /\ Live(n) = Live(m) /\ Done(m) \cup {b} \subseteq Done(n)
      /\ n.rf = m.rf /\ n.insMap = m.insMap
      /\ \A a \in Addr \ {b} : n.blk[a] = m.blk[a]
  BY <1>3, <1>4, <1>6, SetReadOnlyOK
<1>8. \A a \in Live(m) : a \in Done(n) \/ n.blk[a] = m.blk[a]
  BY <1>7 DEF Live
<1>9. Evolves(m, n)
  BY <1>7, <1>8 DEF Evolves
<1>10. Evolves(h, n)
  BY <1>5, <1>9, EvolvesTrans
<1>11. \A a \in Live(n) \ Live(h) : \/ a \in Done(n)
                                    \/ n.blk[a].ins = <<>> /\ n.blk[a].term = None
  <2> SUFFICES ASSUME NEW a \in Live(n) \ Live(h), a \notin Done(n)
               PROVE  n.blk[a].ins = <<>> /\ n.blk[a].term = None
    OBVIOUS
  <2>1. a \in Live(m) /\ n.blk[a] = m.blk[a] /\ a \notin Done(m)
    BY <1>7, <1>8
  <2>2. a \notin Live(f)
    BY <2>1, <1>2, <1>3 DEF Evolves
  <2> QED BY <2>1, <2>2, <1>3
<1> QED BY <1>2, <1>3, <1>7, <1>10, <1>11 DEF HasNext, n

-----------------------------------------------------------------------------
(* A sequence with one more member.                                        *)
LEMMA AppendMembers ==
  ASSUME NEW s \in Seq(Addr), NEW a \in Addr
  PROVE  \A x : x \in ToSet(Append(s, a)) <=> x \in ToSet(s) \/ x = a
<1> DEFINE t == Append(s, a)
           n == Len(s)
<1>1. /\ t \in Seq(Addr) /\ n \in Nat /\ DOMAIN t = 1 .. n + 1 /\ DOMAIN s = 1 .. n
      /\ (\A i \in 1 .. n : t[i] = s[i]) /\ t[n + 1] = a
  OBVIOUS
<1> HIDE DEF t, n
<1>2. \A i \in 1 .. n + 1 : i \in 1 .. n \/ i = n + 1
  BY <1>1
<1>3. n + 1 \in 1 .. n + 1 /\ \A i \in 1 .. n : i \in 1 .. n + 1
  BY <1>1
<1>4. \A x : x \in ToSet(t) <=> x \in ToSet(s) \/ x = a
  BY <1>1, <1>2, <1>3 DEF ToSet
<1> QED BY <1>4 DEF t

(* A block that is being built grows, and insMap with it.                  *)
CanGrow(p, h, b, C, c) ==
  LET B == h.blk[b] IN
  /\ GraphOK(p, h) /\ b \in Live(h) /\ ~B.ro
  /\ C \in BlockType /\ c \in [Addr -> Addr \cup {None}]
  /\ Consecutive(b, C) /\ LikelyOK(p, C)
  /\ C.ro = B.ro /\ C.succs = B.succs /\ C.preds = B.preds /\ C.heads = B.heads
  /\ C.traces = B.traces /\ C.has = B.has /\ C.code = B.code
  /\ \A x \in ToSet(B.ins) : x \in ToSet(C.ins)
  /\ \A x \in ToSet(C.ins) : x \in ToSet(B.ins) \/ c[x] = b
  /\ \A x \in Addr : c[x] = h.insMap[x] \/ (c[x] = b /\ x \in ToSet(C.ins))

LEMMA GrowOK ==
  ASSUME NEW p, NEW h, NEW b, NEW C, NEW c, CanGrow(p, h, b, C, c)
  PROVE  HasPut(p, h, b, C, c)
<1> DEFINE B == h.blk[b]
<1>1. /\ GraphOK(p, h) /\ b \in Live(h) /\ ~B.ro
      /\ C \in BlockType /\ c \in [Addr -> Addr \cup {None}]
      /\ Consecutive(b, C) /\ LikelyOK(p, C)
      /\ C.ro = B.ro /\ C.succs = B.succs /\ C.preds = B.preds /\ C.heads = B.heads
      /\ C.traces = B.traces /\ C.has = B.has /\ C.code = B.code
      /\ \A x \in ToSet(B.ins) : x \in ToSet(C.ins)
      /\ \A x \in ToSet(C.ins) : x \in ToSet(B.ins) \/ c[x] = b
      /\ \A x \in Addr : c[x] = h.insMap[x] \/ (c[x] = b /\ x \in ToSet(C.ins))
  BY DEF CanGrow
<1>2. b \in Addr /\ b # None /\ BlockOK(p, Live(h), Done(h), b, B) /\ B \in BlockType
  <2>1. b \in Addr /\ B # None
    BY <1>1 DEF Live
  <2>2. BlockOK(p, Live(h), Done(h), b, B) /\ B \in BlockType
    BY <1>1, <2>1 DEF GraphOK, GraphType
  <2> QED BY <2>1, <2>2, RegionFinderAssumption
<1>3. /\ \A x \in ToSet(B.ins) : h.insMap[x] # None
      /\ \A x \in Addr : h.insMap[x] = b => x \in ToSet(B.ins)
  BY <1>1, <1>2 DEF GraphOK, InsMapOK
<1>4. \A x \in ToSet(C.ins) : x \in Addr
  <2>1. C.ins \in Seq(Addr)
    BY <1>1 DEF BlockType
  <2> QED BY <2>1 DEF ToSet
<1>5. \A x \in ToSet(C.ins) : c[x] # None
  BY <1>1, <1>2, <1>3, <1>4
<1>6. \A x \in Addr : /\ c[x] = b => x \in ToSet(C.ins)
                      /\ c[x] # b => c[x] = h.insMap[x]
                      /\ h.insMap[x] # None => c[x] # None
  <2> SUFFICES ASSUME NEW x \in Addr
               PROVE  /\ c[x] = b => x \in ToSet(C.ins)
                      /\ c[x] # b => c[x] = h.insMap[x]
                      /\ h.insMap[x] # None => c[x] # None
    OBVIOUS
  <2>1. CASE c[x] = h.insMap[x]
    BY <2>1, <1>1, <1>3
  <2>2. CASE c[x] = b /\ x \in ToSet(C.ins)
    BY <2>2, <1>2
  <2> QED BY <2>1, <2>2, <1>1
<1> HIDE DEF B
<1>7. BlockOK(p, Live(h), Done(h), b, C)
  BY <1>1, <1>2 DEF BlockOK, TracesOK
<1>8. BlockOK(p, Live(h) \cup {b}, Done(h) \cup {x \in {b} : C.ro}, b, C)
  BY <1>7, <1>1, BlockOKMonotone
<1>9. h.rf.on /\ h.rf.head = b => C.code = None
  BY <1>1 DEF GraphOK, TraceOK, B
<1>10. CanPut(p, h, b, C, c)
  BY <1>1, <1>2, <1>5, <1>6, <1>8, <1>9 DEF CanPut, B
<1> QED BY <1>10, PutOK

(* The block at b is being built and its next word is a.                   *)
Growing(p, h, b, a) ==
  /\ p \in Programs /\ GraphOK(p, h)
  /\ b \in Live(h) /\ ~h.blk[b].ro /\ Open(p, h.blk[b])
  /\ \A x \in ToSet(h.blk[b].ins) : p[x].kind \notin {"sync", "halt"}
  /\ a \in Addr /\ a = b + Len(h.blk[b].ins)

HasGrown(p, h, b, a) ==
  LET n == addIns(h, b, a) IN
  /\ GraphOK(p, n) /\ Live(n) = Live(h) /\ Done(n) = Done(h) /\ n.rf = h.rf
  /\ ~n.blk[b].ro /\ n.blk[b].ins = Append(h.blk[b].ins, a)
  /\ n.blk[b].term = h.blk[b].term /\ n.blk[b].succs = h.blk[b].succs
  /\ \A x \in Addr \ {b} : n.blk[x] = h.blk[x]

LEMMA AddInsOK ==
  ASSUME NEW p, NEW h, NEW b, NEW a, Growing(p, h, b, a), p[a].kind # "brl"
  PROVE  HasGrown(p, h, b, a)
<1> DEFINE B == h.blk[b]
           s == B.ins
           t == Append(s, a)
           C == [B EXCEPT !.ins = t]
           c == [h.insMap EXCEPT ![a] = b]
           len == Len(s)
           n == addIns(h, b, a)
<1>1. /\ p \in Programs /\ GraphOK(p, h) /\ b \in Live(h) /\ ~B.ro /\ Open(p, B)
      /\ a \in Addr /\ a = b + len
  BY DEF Growing
<1>2. b \in Addr /\ BlockOK(p, Live(h), Done(h), b, B) /\ B \in BlockType
  <2>1. b \in Addr /\ B # None
    BY <1>1 DEF Live
  <2>2. BlockOK(p, Live(h), Done(h), b, B) /\ B \in BlockType
    BY <1>1, <2>1 DEF GraphOK, GraphType
  <2> QED BY <2>1, <2>2
<1>3. n = Put(h, b, C, c)
  <2>1. h \in GraphType
    BY <1>1 DEF GraphOK
  <2> QED BY <2>1, <1>1, <1>2 DEF addIns, Put, GraphType
<1>4. s \in Seq(Addr) /\ len \in Nat
  BY <1>2 DEF BlockType
<1>5. t \in Seq(Addr)
  BY <1>1, <1>4
<1>6. /\ C \in BlockType /\ C.ins = t /\ C.likely = B.likely /\ C.term = B.term
      /\ C.ro = B.ro /\ C.succs = B.succs /\ C.preds = B.preds /\ C.heads = B.heads
      /\ C.traces = B.traces /\ C.has = B.has /\ C.code = B.code
  <2> HIDE DEF t
  <2> QED BY <1>2, <1>5 DEF BlockType
<1>7. /\ Len(t) = len + 1 /\ (\A i \in 1 .. len : t[i] = s[i]) /\ t[len + 1] = a
      /\ \A x \in ToSet(t) : x \in ToSet(s) \/ x = a
      /\ \A x \in ToSet(s) : x \in ToSet(t)
      /\ a \in ToSet(t)
  <2>1. Len(t) = len + 1 /\ (\A i \in 1 .. len : t[i] = s[i]) /\ t[len + 1] = a
    BY <1>1, <1>4
  <2> HIDE DEF s, len
  <2>2. \A x : x \in ToSet(t) <=> x \in ToSet(s) \/ x = a
    BY <1>1, <1>4, AppendMembers
  <2> QED BY <2>1, <2>2
<1>8. Consecutive(b, C)
  <2>1. b \in Nat
    BY <1>2, ProgramsAssumption
  <2>2. \A i \in 1 .. len : s[i] = b + i - 1
    BY <1>2 DEF BlockOK, Consecutive
  <2>3. \A i \in 1 .. len + 1 : i \in 1 .. len \/ i = len + 1
    BY <1>4
  <2>4. a = b + (len + 1) - 1
    BY <2>1, <1>1, <1>4
  <2> HIDE DEF t, len, C
  <2> QED BY <2>2, <2>3, <2>4, <1>6, <1>7 DEF Consecutive
<1> HIDE DEF t
<1>9. LikelyOK(p, C)
  <2>1. LikelyOK(p, B)
    BY <1>2 DEF BlockOK
  <2> HIDE DEF C
  <2> QED BY <2>1, <1>6, <1>7 DEF LikelyOK
<1>10. c \in [Addr -> Addr \cup {None}] /\ c[a] = b /\ \A x \in Addr \ {a} : c[x] = h.insMap[x]
  <2>1. h \in GraphType
    BY <1>1 DEF GraphOK
  <2> QED BY <2>1, <1>1, <1>2 DEF GraphType
<1> HIDE DEF C, c, n
<1>11. /\ \A x \in ToSet(C.ins) : x \in ToSet(B.ins) \/ c[x] = b
       /\ \A x \in Addr : c[x] = h.insMap[x] \/ (c[x] = b /\ x \in ToSet(C.ins))
  BY <1>6, <1>7, <1>10
<1>12. CanGrow(p, h, b, C, c)
  BY <1>1, <1>6, <1>7, <1>8, <1>9, <1>10, <1>11 DEF CanGrow
<1>13. HasPut(p, h, b, C, c)
  BY <1>12, GrowOK
<1>14. /\ Live(n) = Live(h) /\ Done(n) = Done(h) /\ GraphOK(p, n) /\ n.rf = h.rf
       /\ n.blk[b] = C /\ \A x \in Addr \ {b} : n.blk[x] = h.blk[x]
  <2>1. Live(n) = Live(h) /\ Done(h) \subseteq Done(n) /\ n.blk[b] = C
        /\ (\A x \in Addr \ {b} : n.blk[x] = h.blk[x]) /\ GraphOK(p, n) /\ n.rf = h.rf
    BY <1>1, <1>3, <1>13 DEF HasPut
  <2>2. Done(n) \subseteq Done(h)
    BY <2>1, <1>1, <1>6 DEF Done, Live
  <2> QED BY <2>1, <2>2
<1> QED BY <1>1, <1>6, <1>14 DEF HasGrown, n, t

(* Changing the same block twice.                                          *)
LEMMA PutType ==
  ASSUME NEW h \in GraphType, NEW b \in Addr, NEW C \in BlockType,
         NEW c \in [Addr -> Addr \cup {None}]
  PROVE  /\ Put(h, b, C, c) \in GraphType
         /\ Put(h, b, C, c).blk[b] = C /\ Put(h, b, C, c).insMap = c
BY DEF Put, GraphType

LEMMA PutPut ==
  ASSUME NEW h \in GraphType, NEW b \in Addr, NEW C \in BlockType, NEW D \in BlockType,
         NEW c \in [Addr -> Addr \cup {None}], NEW d \in [Addr -> Addr \cup {None}]
  PROVE  Put(Put(h, b, C, c), b, D, d) = Put(h, b, D, d)
BY DEF Put, GraphType

(* The last steps of building a block: the branch, jump or monitor call at *)
(* a, termAddr, the likely flag and the delay slot.                        *)
Ending(p, h, b, a) ==
  LET t == setTermAddr(addIns(h, b, a), b, a)
      l == IF p[a].kind = "brl" THEN setBranchLikely(t, b) ELSE t
  IN IF isBranchOrJump(p[a].kind) THEN addIns(l, b, a + 1) ELSE l

EndIns(p, s, a) ==
  IF isBranchOrJump(p[a].kind) THEN Append(Append(s, a), a + 1) ELSE Append(s, a)

EndBlock(p, B, a) ==
  [B EXCEPT !.ins = EndIns(p, @, a), !.term = a,
            !.likely = IF p[a].kind = "brl" THEN TRUE ELSE @]

EndMap(p, c, b, a) ==
  IF isBranchOrJump(p[a].kind) THEN [[c EXCEPT ![a] = b] EXCEPT ![a + 1] = b]
  ELSE [c EXCEPT ![a] = b]

LEMMA EndingIsPut ==
  ASSUME NEW p, NEW h, NEW b, NEW a, Growing(p, h, b, a),
         isBranchOrJump(p[a].kind) => a + 1 \in Addr
  PROVE  Ending(p, h, b, a) = Put(h, b, EndBlock(p, h.blk[b], a), EndMap(p, h.insMap, b, a))
<1> DEFINE B == h.blk[b]
           t == Append(B.ins, a)
           u == Append(t, a + 1)
           c == [h.insMap EXCEPT ![a] = b]
           d == [c EXCEPT ![a + 1] = b]
           B1 == [B EXCEPT !.ins = t]
           B2 == [B1 EXCEPT !.term = a]
           B3 == IF p[a].kind = "brl" THEN [B2 EXCEPT !.likely = TRUE] ELSE B2
           B4 == [B3 EXCEPT !.ins = u]
           h1 == addIns(h, b, a)
           h2 == setTermAddr(h1, b, a)
           h3 == IF p[a].kind = "brl" THEN setBranchLikely(h2, b) ELSE h2
           h4 == addIns(h3, b, a + 1)
<1>1. /\ GraphOK(p, h) /\ b \in Live(h) /\ ~B.ro /\ Open(p, B) /\ a \in Addr
      /\ h \in GraphType
  BY DEF Growing, GraphOK
<1>2. /\ b \in Addr /\ B \in BlockType /\ B.ins \in Seq(Addr) /\ t \in Seq(Addr)
      /\ B.term = None /\ B.ro = FALSE
  BY <1>1 DEF Live, GraphType, BlockType, Open
<1>3. c \in [Addr -> Addr \cup {None}]
  BY <1>1, <1>2 DEF GraphType
<1> HIDE DEF t, B, c
<1>4. /\ B1 \in BlockType /\ B1.ro = FALSE /\ B1.term = None /\ B1.ins = t
      /\ B2 \in BlockType /\ B2.ro = FALSE /\ B2.ins = t
      /\ B3 \in BlockType /\ B3.ro = FALSE /\ B3.ins = t
  BY <1>1, <1>2 DEF BlockType
<1> HIDE DEF B1, B2, B3
<1>5. h1 = Put(h, b, B1, c)
  BY <1>1, <1>2 DEF addIns, Put, GraphType, B, B1, t, c
<1>6. h2 = Put(h, b, B2, c)
  <2> DEFINE X == Put(h, b, B1, c)
  <2>1. X \in GraphType /\ X.blk[b] = B1 /\ X.insMap = c
    BY <1>1, <1>2, <1>3, <1>4, PutType
  <2> HIDE DEF X
  <2>2. setTermAddr(X, b, a) = Put(X, b, B2, c)
    BY <2>1, <1>2, <1>4 DEF setTermAddr, Put, GraphType, B2
  <2>3. Put(X, b, B2, c) = Put(h, b, B2, c)
    BY <1>1, <1>2, <1>3, <1>4, PutPut DEF X
  <2> QED BY <2>2, <2>3, <1>5 DEF X
<1>7. h3 = Put(h, b, B3, c)
  <2>1. CASE p[a].kind = "brl"
    <3> DEFINE X == Put(h, b, B2, c)
    <3>1. X \in GraphType /\ X.blk[b] = B2 /\ X.insMap = c
      BY <1>1, <1>2, <1>3, <1>4, PutType
    <3> HIDE DEF X
    <3>2. setBranchLikely(X, b) = Put(X, b, B3, c)
      BY <2>1, <3>1, <1>2, <1>4 DEF setBranchLikely, Put, GraphType, B3
    <3>3. Put(X, b, B3, c) = Put(h, b, B3, c)
      BY <1>1, <1>2, <1>3, <1>4, PutPut DEF X
    <3> QED BY <2>1, <3>2, <3>3, <1>6 DEF X
  <2>2. CASE p[a].kind # "brl"
    BY <2>2, <1>6 DEF B3
  <2> QED BY <2>1, <2>2
<1>8. CASE isBranchOrJump(p[a].kind)
  <2> DEFINE X == Put(h, b, B3, c)
  <2>1. X \in GraphType /\ X.blk[b] = B3 /\ X.insMap = c
    BY <1>1, <1>2, <1>3, <1>4, PutType
  <2>2. u \in Seq(Addr) /\ d \in [Addr -> Addr \cup {None}]
    BY <1>2, <1>3, <1>8
  <2> HIDE DEF X
  <2>3. B4 \in BlockType
    <3> HIDE DEF u
    <3> QED BY <1>4, <2>2 DEF BlockType
  <2>4. addIns(X, b, a + 1) = Put(X, b, B4, d)
    BY <2>1, <1>2, <1>4 DEF addIns, Put, GraphType
  <2> HIDE DEF B4, d
  <2>5. Put(X, b, B4, d) = Put(h, b, B4, d)
    BY <1>1, <1>2, <1>3, <1>4, <2>2, <2>3, PutPut DEF X
  <2>6. EndMap(p, h.insMap, b, a) = d
    BY <1>8 DEF EndMap, c, d
  <2>7. EndBlock(p, B, a) = B4
    BY <1>2, <1>8 DEF EndBlock, EndIns, BlockType, B4, B3, B2, B1, t
  <2>8. Ending(p, h, b, a) = h4
    BY <1>8 DEF Ending
  <2> QED BY <2>4, <2>5, <2>6, <2>7, <2>8, <1>7 DEF X, B
<1>9. CASE ~isBranchOrJump(p[a].kind)
  <2>1. EndMap(p, h.insMap, b, a) = c
    BY <1>9 DEF EndMap, c
  <2>2. EndBlock(p, B, a) = B3
    BY <1>2, <1>9 DEF EndBlock, EndIns, BlockType, B3, B2, B1, t
  <2>3. Ending(p, h, b, a) = h3
    BY <1>9 DEF Ending
  <2> QED BY <2>1, <2>2, <2>3, <1>7 DEF B
<1> QED BY <1>8, <1>9

(* The instructions of a block that has just ended.                        *)
LEMMA EndInsMembers ==
  ASSUME NEW p, NEW s \in Seq(Addr), NEW b \in Nat, NEW a \in Addr, a = b + Len(s),
         isBranchOrJump(p[a].kind) => a + 1 \in Addr,
         \A i \in 1 .. Len(s) : s[i] = b + i - 1
  PROVE  LET u == EndIns(p, s, a) IN
         /\ u \in Seq(Addr) /\ u # <<>>
         /\ \A i \in 1 .. Len(u) : u[i] = b + i - 1
         /\ \A x : x \in ToSet(u) <=> \/ x \in ToSet(s)
                                      \/ x = a
                                      \/ isBranchOrJump(p[a].kind) /\ x = a + 1
         /\ IF isBranchOrJump(p[a].kind) THEN Len(u) >= 2 /\ u[Len(u) - 1] = a
            ELSE Last(u) = a /\ (Len(u) >= 2 => u[Len(u) - 1] \in ToSet(s))
<1> DEFINE t == Append(s, a)
           v == Append(t, a + 1)
           n == Len(s)
           br == isBranchOrJump(p[a].kind)
           u == EndIns(p, s, a)
<1>1. n \in Nat /\ a \in Nat /\ a = b + n
  BY ProgramsAssumption
<1>2. /\ t \in Seq(Addr) /\ Len(t) = n + 1 /\ (\A i \in 1 .. n : t[i] = s[i])
      /\ t[n + 1] = a
  BY <1>1
<1>3. \A x : x \in ToSet(t) <=> x \in ToSet(s) \/ x = a
  BY AppendMembers
<1> HIDE DEF t
<1>4. \A i \in 1 .. n + 1 : t[i] = b + i - 1
  <2>1. \A i \in 1 .. n + 1 : i \in 1 .. n \/ i = n + 1
    BY <1>1
  <2>2. a = b + (n + 1) - 1
    BY <1>1
  <2> HIDE DEF n
  <2> QED BY <2>1, <2>2, <1>2 DEF n
<1>5. t # <<>> /\ (n >= 1 => t[n] \in ToSet(s)) /\ Last(t) = a
  <2>1. n >= 1 => n \in 1 .. n
    BY <1>1
  <2>2. DOMAIN s = 1 .. n
    OBVIOUS
  <2>3. n >= 1 => t[n] \in ToSet(s)
    BY <2>1, <2>2, <1>2 DEF ToSet
  <2>4. Last(t) = a /\ t # <<>>
    BY <1>1, <1>2 DEF Last
  <2> QED BY <2>3, <2>4
<1>6. CASE br
  <2>1. u = v
    BY <1>6 DEF EndIns, t
  <2>2. /\ v \in Seq(Addr) /\ Len(v) = n + 2 /\ (\A i \in 1 .. n + 1 : v[i] = t[i])
        /\ v[n + 2] = a + 1
    BY <1>1, <1>2, <1>6
  <2>3. \A x : x \in ToSet(v) <=> x \in ToSet(t) \/ x = a + 1
    BY <1>2, <1>6, AppendMembers
  <2> HIDE DEF v, u
  <2>4. \A i \in 1 .. n + 2 : v[i] = b + i - 1
    <3>1. \A i \in 1 .. n + 2 : i \in 1 .. n + 1 \/ i = n + 2
      BY <1>1
    <3>2. a + 1 = b + (n + 2) - 1
      BY <1>1
    <3> HIDE DEF n
    <3> QED BY <3>1, <3>2, <2>2, <1>4
  <2>5. v # <<>> /\ Len(v) >= 2 /\ v[Len(v) - 1] = a
    <3>1. Len(v) - 1 = n + 1 /\ n + 1 \in 1 .. n + 1
      BY <1>1, <2>2
    <3> QED BY <3>1, <1>1, <1>2, <2>2
  <2> QED BY <2>1, <2>2, <2>3, <2>4, <2>5, <1>3, <1>6 DEF u
<1>7. CASE ~br
  <2>1. u = t
    BY <1>7 DEF EndIns, t
  <2>2. Len(u) >= 2 => n >= 1 /\ Len(u) - 1 = n
    BY <2>1, <1>1, <1>2
  <2> HIDE DEF u
  <2> QED BY <2>1, <2>2, <1>2, <1>3, <1>4, <1>5, <1>7 DEF u
<1> QED BY <1>6, <1>7

HasEnded(p, h, b, a) ==
  LET n == Ending(p, h, b, a) IN
  /\ GraphOK(p, n) /\ Live(n) = Live(h) /\ Ended(p, n.blk[b]) /\ n.rf = h.rf
  /\ n.blk[b].term = a /\ n.blk[b].succs = h.blk[b].succs
  /\ \A x \in Addr \ {b} : n.blk[x] = h.blk[x]

LEMMA EndingOK ==
  ASSUME NEW p, NEW h, NEW b, NEW a, Growing(p, h, b, a), EndsBlock(p[a].kind)
  PROVE  HasEnded(p, h, b, a)
<1> DEFINE B == h.blk[b]
           s == B.ins
           u == EndIns(p, s, a)
           C == EndBlock(p, B, a)
           c == EndMap(p, h.insMap, b, a)
           n == Ending(p, h, b, a)
           br == isBranchOrJump(p[a].kind)
<1>1. /\ p \in Programs /\ GraphOK(p, h) /\ b \in Live(h) /\ ~B.ro /\ Open(p, B)
      /\ a \in Addr /\ a = b + Len(s)
      /\ \A x \in ToSet(s) : p[x].kind \notin {"sync", "halt"}
  BY DEF Growing
<1>2. b \in Addr /\ b \in Nat /\ BlockOK(p, Live(h), Done(h), b, B) /\ B \in BlockType
  <2>1. b \in Addr /\ B # None
    BY <1>1 DEF Live
  <2>2. BlockOK(p, Live(h), Done(h), b, B) /\ B \in BlockType
    BY <1>1, <2>1 DEF GraphOK, GraphType
  <2> QED BY <2>1, <2>2, ProgramsAssumption
<1>3. br => a + 1 \in Addr /\ p[a + 1].kind \in {"alu", "nc"}
  <2>1. WellFormed(p)
    BY <1>1, ProgramsAssumption
  <2>2. br => p[a].kind \notin {"halt", "mon"}
    BY DEF isBranchOrJump
  <2> QED BY <2>1, <2>2, <1>1 DEF WellFormed
<1>4. n = Put(h, b, C, c)
  BY <1>3, EndingIsPut
<1>5. /\ u \in Seq(Addr) /\ u # <<>>
      /\ \A i \in 1 .. Len(u) : u[i] = b + i - 1
      /\ \A x : x \in ToSet(u) <=> x \in ToSet(s) \/ x = a \/ (br /\ x = a + 1)
      /\ IF br THEN Len(u) >= 2 /\ u[Len(u) - 1] = a
         ELSE Last(u) = a /\ (Len(u) >= 2 => u[Len(u) - 1] \in ToSet(s))
  <2>1. s \in Seq(Addr) /\ \A i \in 1 .. Len(s) : s[i] = b + i - 1
    BY <1>2 DEF BlockType, BlockOK, Consecutive
  <2>2. b \in Nat /\ a \in Addr /\ a = b + Len(s)
    BY <1>1, <1>2
  <2>3. isBranchOrJump(p[a].kind) => a + 1 \in Addr
    BY <1>3
  <2> HIDE DEF s
  <2> QED BY <2>1, <2>2, <2>3, EndInsMembers
<1> HIDE DEF u
<1>6. /\ C \in BlockType /\ C.ins = u /\ C.term = a
      /\ C.likely = (IF p[a].kind = "brl" THEN TRUE ELSE B.likely)
      /\ C.ro = B.ro /\ C.succs = B.succs /\ C.preds = B.preds /\ C.heads = B.heads
      /\ C.traces = B.traces /\ C.has = B.has /\ C.code = B.code
  <2>1. C = [B EXCEPT !.ins = u, !.term = a,
                      !.likely = IF p[a].kind = "brl" THEN TRUE ELSE B.likely]
    BY DEF EndBlock, u
  <2>2. B \in BlockType /\ u \in Seq(Addr) /\ a \in Addr
    BY <1>1, <1>2, <1>5
  <2> HIDE DEF B, C
  <2> QED BY <2>1, <2>2 DEF BlockType
<1> HIDE DEF C
<1>7. \A x \in ToSet(s) : ~EndsBlock(p[x].kind) /\ p[x].kind # "brl"
  BY <1>1 DEF Open, EndsBlock, isBranchOrJump
<1>8. Ended(p, C)
  <2>1. BranchOf(p, u) = a
    <3>1. CASE br
      BY <3>1, <1>5 DEF BranchOf
    <3>2. CASE ~br
      <4>1. ~(Len(u) >= 2 /\ isBranchOrJump(p[u[Len(u) - 1]].kind))
        BY <3>2, <1>5, <1>7 DEF EndsBlock
      <4> QED BY <3>2, <4>1, <1>5 DEF BranchOf
    <3> QED BY <3>1, <3>2
  <2>2. \A x \in ToSet(u) : EndsBlock(p[x].kind) => x = a
    <3>1. br => ~EndsBlock(p[a + 1].kind)
      BY <1>3 DEF EndsBlock, isBranchOrJump
    <3> QED BY <3>1, <1>5, <1>7
  <2>3. \A x \in ToSet(u) : p[x].kind \notin {"sync", "halt"}
    <3>1. p[a].kind \notin {"sync", "halt"}
      BY DEF EndsBlock, isBranchOrJump
    <3> QED BY <3>1, <1>1, <1>3, <1>5
  <2>4. br => a # Last(u)
    <3>1. Len(u) \in Nat
      BY <1>5
    <3>2. br => Len(u) - 1 \in 1 .. Len(u) /\ Len(u) \in 1 .. Len(u)
      BY <3>1, <1>5
    <3>3. br => a = b + (Len(u) - 1) - 1 /\ Last(u) = b + Len(u) - 1
      BY <3>2, <1>5 DEF Last
    <3> QED BY <3>1, <3>3, <1>2
  <2> QED BY <2>1, <2>2, <2>3, <2>4, <1>5, <1>6 DEF Ended
<1>9. LikelyOK(p, C)
  <2>1. LikelyOK(p, B) /\ a \in ToSet(u)
    BY <1>2, <1>5 DEF BlockOK
  <2>2. ~B.likely
    BY <2>1, <1>7 DEF LikelyOK
  <2>3. CASE p[a].kind = "brl"
    BY <2>1, <2>3, <1>6 DEF LikelyOK
  <2>4. CASE p[a].kind # "brl"
    <3>1. \A x \in ToSet(u) : p[x].kind # "brl"
      BY <2>4, <1>3, <1>5, <1>7
    <3> QED BY <3>1, <2>2, <2>4, <1>6 DEF LikelyOK
  <2> QED BY <2>3, <2>4
<1>10. Consecutive(b, C)
  BY <1>5, <1>6 DEF Consecutive
<1>11. /\ c \in [Addr -> Addr \cup {None}]
       /\ \A x \in Addr : c[x] = IF x = a \/ (br /\ x = a + 1) THEN b ELSE h.insMap[x]
  <2>1. h.insMap \in [Addr -> Addr \cup {None}]
    BY <1>1 DEF GraphOK, GraphType
  <2>2. CASE br
    <3>1. c = [[h.insMap EXCEPT ![a] = b] EXCEPT ![a + 1] = b]
      BY <2>2 DEF EndMap
    <3> QED BY <2>1, <2>2, <3>1, <1>1, <1>2, <1>3
  <2>3. CASE ~br
    <3>1. c = [h.insMap EXCEPT ![a] = b]
      BY <2>3 DEF EndMap
    <3> QED BY <2>1, <2>3, <3>1, <1>1, <1>2
  <2> QED BY <2>2, <2>3
<1> HIDE DEF c, n
<1>12. /\ \A x \in ToSet(s) : x \in ToSet(C.ins)
       /\ \A x \in ToSet(C.ins) : x \in ToSet(s) \/ c[x] = b
       /\ \A x \in Addr : c[x] = h.insMap[x] \/ (c[x] = b /\ x \in ToSet(C.ins))
  <2>1. \A x \in ToSet(C.ins) : x \in ToSet(s) \/ c[x] = b
    BY <1>1, <1>3, <1>5, <1>6, <1>11
  <2>2. \A x \in Addr : c[x] = h.insMap[x] \/ (c[x] = b /\ x \in ToSet(C.ins))
    BY <1>5, <1>6, <1>11
  <2> QED BY <2>1, <2>2, <1>5, <1>6
<1>13. CanGrow(p, h, b, C, c)
  BY <1>1, <1>6, <1>9, <1>10, <1>11, <1>12 DEF CanGrow
<1>14. HasPut(p, h, b, C, c)
  BY <1>13, GrowOK
<1> QED BY <1>1, <1>4, <1>6, <1>8, <1>14 DEF HasPut, HasEnded, n

-----------------------------------------------------------------------------
(* The finder's operations.                                                *)
LEMMA UpdateType ==
  ASSUME NEW r \in FinderType, NEW bb \in Addr
  PROVE  LET n == update(r, bb) IN
         /\ n \in FinderType
         /\ n.on => r.on /\ n.head = r.head /\ n.hist = Append(r.hist, bb)
         /\ RegionComplete(r, bb) => ~n.on /\ n.hist = r.hist /\ n.head = r.head
<1> DEFINE t == Append(r.hist, bb)
           n == update(r, bb)
<1>1. r.hist \in Seq(Addr) /\ r.on \in BOOLEAN
  BY DEF FinderType
<1>2. t \in Seq(Addr)
  BY <1>1
<1>3. \/ n = r /\ ~r.on
      \/ n = [r EXCEPT !.on = FALSE]
      \/ n = [r EXCEPT !.hist = t] /\ r.on /\ ~RegionComplete(r, bb)
  BY <1>1 DEF update
<1>4. RegionComplete(r, bb) => r.on
  BY DEF RegionComplete
<1> HIDE DEF t, n
<1> QED BY <1>1, <1>2, <1>3, <1>4 DEF FinderType, n, t

LEMMA GetRegionType ==
  ASSUME NEW r \in FinderType
  PROVE  getRegion(r) \in FinderType /\ getRegion(r).on = r.on
<1> DEFINE q == ResetSlot(r, r.head)
           t == <<>>
<1>1. q \in FinderType /\ q.on = r.on
  BY DEF ResetSlot, FinderType
<1>2. getRegion(r) = [q EXCEPT !.hist = t, !.head = None]
  BY DEF getRegion
<1>3. t \in Seq(Addr)
  OBVIOUS
<1> HIDE DEF q, t
<1> QED BY <1>1, <1>2, <1>3 DEF FinderType

LEMMA UpdateHeadsType ==
  ASSUME NEW r \in FinderType, NEW bb \in Addr, NEW lbb, NEW reused
  PROVE  LET n == updateRegionHeads(r, bb, lbb, reused) IN
         /\ n \in FinderType
         /\ n = r \/ ~n.on \/ (n.head = bb /\ n.hist = <<>>)
<1> DEFINE idx == computeIndex(bb)
           s == StartCollection(r, bb)
           a == [r EXCEPT !.heads[idx] = bb, !.counts[idx] = @ + 1]
           c == [r EXCEPT !.heads[idx] = bb, !.counts[idx] = 1]
           t == <<>>
           n == updateRegionHeads(r, bb, lbb, reused)
<1>1. r.heads \in [Idx -> Addr \cup {None, Stale}] /\ r.counts \in [Idx -> Nat]
  BY DEF FinderType
<1>2. t \in Seq(Addr) /\ t = <<>> /\ idx \in Idx
  BY RegionFinderAssumption DEF computeIndex, Idx
<1>3. s = [r EXCEPT !.on = TRUE, !.head = bb, !.hist = t,
                    !.heads[idx] = None, !.counts[idx] = @ + 1]
  BY DEF StartCollection
<1> HIDE DEF t, idx
<1>4. s \in FinderType /\ s.head = bb /\ s.hist = t
  <2>1. [r.counts EXCEPT ![idx] = @ + 1] \in [Idx -> Nat]
    BY <1>1, <1>2
  <2>2. [r.heads EXCEPT ![idx] = None] \in [Idx -> Addr \cup {None, Stale}]
    BY <1>1
  <2> QED BY <2>1, <2>2, <1>2, <1>3 DEF FinderType
<1>5. a \in FinderType /\ a.on = r.on /\ c \in FinderType /\ c.on = r.on
  <2> DEFINE x == [r.heads EXCEPT ![idx] = bb]
             y == [r.counts EXCEPT ![idx] = @ + 1]
             z == [r.counts EXCEPT ![idx] = 1]
  <2>1. x \in [Idx -> Addr \cup {None, Stale}] /\ y \in [Idx -> Nat] /\ z \in [Idx -> Nat]
    BY <1>1, <1>2
  <2>2. a = [r EXCEPT !.heads = x, !.counts = y] /\ c = [r EXCEPT !.heads = x, !.counts = z]
    OBVIOUS
  <2> HIDE DEF x, y, z, a, c
  <2> QED BY <2>1, <2>2 DEF FinderType
<1>6. n = r \/ n = s \/ (~r.on /\ (n = a \/ n = c))
  BY DEF updateRegionHeads, idx
<1> HIDE DEF s, a, c, n
<1> QED BY <1>2, <1>4, <1>5, <1>6 DEF n

LEMMA StaleType ==
  ASSUME NEW r \in FinderType
  PROVE  HeadsGoStale(r) \in FinderType /\ HeadsGoStale(r).on = r.on
BY DEF HeadsGoStale, FinderType

-----------------------------------------------------------------------------
(* Blocks keep their instructions and their place.                         *)
Alike(h, n) ==
  /\ Live(n) = Live(h) /\ Done(n) = Done(h) /\ n.rf = h.rf
  /\ \A a \in Live(h) : /\ n.blk[a].ins = h.blk[a].ins /\ n.blk[a].term = h.blk[a].term
                         /\ n.blk[a].succs = h.blk[a].succs

(* The blocks of a region learn of its head.                               *)
LEMMA JoinOK ==
  ASSUME NEW p, NEW h, GraphOK(p, h), NEW u \in Live(h), NEW region,
         ToSet(region) \subseteq Live(h)
  PROVE  LET n == joinRegions(h, u, region) IN
         /\ GraphOK(p, n) /\ Alike(h, n)
         /\ n.blk[u].code = h.blk[u].code
<1> DEFINE S == ToSet(region)
           N(a) == [h.blk[a] EXCEPT !.heads = h.blk[a].heads \cup {u}]
           f == [a \in Addr |-> IF a \in S THEN N(a) ELSE h.blk[a]]
           n == joinRegions(h, u, region)
<1>1. /\ h \in GraphType /\ Live(h) \subseteq Addr
      /\ \A a \in Live(h) : h.blk[a] \in BlockType /\ BlockOK(p, Live(h), Done(h), a, h.blk[a])
      /\ \A a \in Addr \ Live(h) : h.blk[a] = None
  BY DEF GraphOK, GraphType, Live
<1>2. n = Remap(h, f)
  BY DEF joinRegions, Remap
<1> HIDE DEF S
<1>3. \A a \in Live(h) :
        /\ N(a) \in BlockType /\ BlockOK(p, Live(h), Done(h), a, N(a))
        /\ N(a).ins = h.blk[a].ins /\ N(a).term = h.blk[a].term
        /\ N(a).succs = h.blk[a].succs /\ N(a).preds = h.blk[a].preds
        /\ N(a).ro = h.blk[a].ro /\ N(a).code = h.blk[a].code
  <2> SUFFICES ASSUME NEW a \in Live(h)
               PROVE  /\ N(a) \in BlockType /\ BlockOK(p, Live(h), Done(h), a, N(a))
                      /\ N(a).ins = h.blk[a].ins /\ N(a).term = h.blk[a].term
                      /\ N(a).succs = h.blk[a].succs /\ N(a).preds = h.blk[a].preds
                      /\ N(a).ro = h.blk[a].ro /\ N(a).code = h.blk[a].code
    OBVIOUS
  <2> DEFINE B == h.blk[a]
  <2>1. B \in BlockType /\ BlockOK(p, Live(h), Done(h), a, B) /\ u \in Addr /\ u \in Live(h)
    BY <1>1
  <2>2. /\ N(a) \in BlockType /\ N(a).heads = B.heads \cup {u}
        /\ N(a).ins = B.ins /\ N(a).term = B.term /\ N(a).succs = B.succs
        /\ N(a).preds = B.preds /\ N(a).ro = B.ro /\ N(a).code = B.code
        /\ N(a).has = B.has /\ N(a).likely = B.likely /\ N(a).traces = B.traces
    BY <2>1 DEF BlockType
  <2> HIDE DEF N, B
  <2> QED BY <2>1, <2>2 DEF BlockOK, Consecutive, Ended, LikelyOK, TracesOK, B
<1> HIDE DEF N
<1>4. \A a \in Live(h) :
        /\ f[a] \in BlockType /\ BlockOK(p, Live(h), Done(h), a, f[a])
        /\ f[a].ins = h.blk[a].ins /\ f[a].term = h.blk[a].term
        /\ f[a].succs = h.blk[a].succs /\ f[a].preds = h.blk[a].preds
        /\ f[a].ro = h.blk[a].ro /\ f[a].code = h.blk[a].code
  BY <1>1, <1>3
<1>5. \A a \in Addr \ Live(h) : f[a] = None
  BY <1>1 DEF S
<1>6. f \in [Addr -> BlockType \cup {None}]
  <2>1. \A a \in Addr : f[a] \in BlockType \cup {None}
    BY <1>4, <1>5
  <2> QED BY <2>1
<1> HIDE DEF f, n
<1>7. \A a \in Live(h) : /\ \A s \in f[a].succs : s \in Live(h) /\ a \in f[s].preds
                         /\ \A s \in f[a].preds : s \in Live(h) /\ a \in f[s].succs
  <2>1. \A a \in Live(h) : /\ \A s \in h.blk[a].succs : s \in Live(h) /\ a \in h.blk[s].preds
                           /\ \A s \in h.blk[a].preds : s \in Live(h) /\ a \in h.blk[s].succs
    BY DEF GraphOK, Linked
  <2>2. \A a \in Live(h) : f[a].succs = h.blk[a].succs /\ f[a].preds = h.blk[a].preds
    BY <1>4
  <2> QED BY <2>1, <2>2
<1>8. h.rf.on => f[h.rf.head].code = None
  BY <1>4 DEF GraphOK, TraceOK
<1>9. CanRemap(p, h, f)
  BY <1>4, <1>5, <1>6, <1>7, <1>8 DEF CanRemap
<1>10. HasRemap(p, h, f)
  BY <1>9, RemapOK
<1> QED BY <1>2, <1>4, <1>10 DEF HasRemap, Alike, n

(* A block gets other recorded regions or other code.                      *)
Record(h, u, C) == [h EXCEPT !.blk[u] = C]

CanRecord(p, h, u, C) ==
  LET B == h.blk[u] IN
  /\ GraphOK(p, h) /\ u \in Live(h) /\ C \in BlockType
  /\ C.ins = B.ins /\ C.term = B.term /\ C.ro = B.ro /\ C.likely = B.likely
  /\ C.succs = B.succs /\ C.preds = B.preds /\ C.heads = B.heads
  /\ TracesOK(Done(h), u, C)
  /\ C.has <=> C.code # None
  /\ C.code # None => CodeOK(p, Done(h), u, C.code)
  /\ h.rf.on /\ h.rf.head = u => C.code = None

HasRecord(p, h, u, C) ==
  LET n == Record(h, u, C) IN GraphOK(p, n) /\ Alike(h, n) /\ n.blk[u] = C

LEMMA RecordOK ==
  ASSUME NEW p, NEW h, NEW u, NEW C, CanRecord(p, h, u, C)
  PROVE  HasRecord(p, h, u, C)
<1> DEFINE B == h.blk[u]
           c == h.insMap
           n == Record(h, u, C)
<1>1. /\ GraphOK(p, h) /\ u \in Live(h) /\ C \in BlockType
      /\ C.ins = B.ins /\ C.term = B.term /\ C.ro = B.ro /\ C.likely = B.likely
      /\ C.succs = B.succs /\ C.preds = B.preds /\ C.heads = B.heads
      /\ TracesOK(Done(h), u, C)
      /\ C.has <=> C.code # None
      /\ C.code # None => CodeOK(p, Done(h), u, C.code)
      /\ h.rf.on /\ h.rf.head = u => C.code = None
  BY DEF CanRecord
<1>2. /\ u \in Addr /\ u # None /\ h \in GraphType /\ c \in [Addr -> Addr \cup {None}]
      /\ B \in BlockType /\ BlockOK(p, Live(h), Done(h), u, B)
  <2>1. u \in Addr /\ B # None
    BY <1>1 DEF Live
  <2>2. /\ BlockOK(p, Live(h), Done(h), u, B) /\ B \in BlockType
        /\ h \in GraphType /\ c \in [Addr -> Addr \cup {None}]
    BY <1>1, <2>1 DEF GraphOK, GraphType
  <2> QED BY <2>1, <2>2, RegionFinderAssumption
<1>3. n = Put(h, u, C, c)
  BY <1>2 DEF Record, Put, GraphType
<1>4. /\ \A x \in ToSet(B.ins) : c[x] # None
      /\ \A x \in Addr : c[x] = u => x \in ToSet(B.ins)
  BY <1>1, <1>2 DEF GraphOK, InsMapOK
<1> HIDE DEF B, n, c
<1>5. BlockOK(p, Live(h), Done(h), u, C)
  BY <1>1, <1>2 DEF BlockOK, Consecutive, Ended, LikelyOK
<1>6. BlockOK(p, Live(h) \cup {u}, Done(h) \cup {x \in {u} : C.ro}, u, C)
  BY <1>5, <1>1, BlockOKMonotone
<1>7. CanPut(p, h, u, C, c)
  BY <1>1, <1>2, <1>4, <1>6 DEF CanPut, B, c
<1>8. HasPut(p, h, u, C, c)
  BY <1>7, PutOK
<1>9. /\ GraphOK(p, n) /\ Live(n) = Live(h) /\ Done(h) \subseteq Done(n)
      /\ n.blk[u] = C /\ (\A x \in Addr \ {u} : n.blk[x] = h.blk[x]) /\ n.rf = h.rf
  BY <1>1, <1>3, <1>8 DEF HasPut
<1>10. Done(n) \subseteq Done(h)
  BY <1>1, <1>2, <1>9 DEF Done, Live, B
<1>11. Alike(h, n)
  BY <1>1, <1>2, <1>9, <1>10 DEF Alike, Live, B
<1> QED BY <1>9, <1>11 DEF HasRecord, n

(* A region that starts with u is recorded.                                *)
Adds(p, h, u, region, C) ==
  /\ CanRecord(p, h, u, C) /\ C.code = h.blk[u].code
  /\ \A t \in C.traces : t \in h.blk[u].traces \/ t[1] = region

AddsTo(p, h, u, region, n) == \E C : Adds(p, h, u, region, C) /\ n = Record(h, u, C)

LEMMA AddRegionIs ==
  ASSUME NEW p, NEW h, GraphOK(p, h), NEW u \in Live(h), NEW region \in Seq(Addr),
         region # <<>>, region[1] = u, ToSet(region) \subseteq Done(h)
  PROVE  AddsTo(p, h, u, region, addRegion(h, u, region))
<1> DEFINE B == h.blk[u]
           seen == {k \in 1 .. EnoughRegions - 1 : <<region, k>> \in B.traces}
           T == B.traces \cup {<<region, 1>>} \cup {<<region, k + 1>> : k \in seen}
           C == [B EXCEPT !.traces = T]
           n == addRegion(h, u, region)
<1>1. B \in BlockType /\ BlockOK(p, Live(h), Done(h), u, B) /\ u \in Addr /\ h \in GraphType
  BY DEF GraphOK, GraphType, Live
<1>2. n = Record(h, u, C)
  BY DEF addRegion, Record
<1>3. /\ \A t \in T : t \in B.traces \/ t[1] = region
      /\ T \in SUBSET (Seq(Addr) \X (1 .. EnoughRegions))
  <2>1. B.traces \in SUBSET (Seq(Addr) \X (1 .. EnoughRegions))
    BY <1>1 DEF BlockType
  <2>2. \A k \in seen : k + 1 \in 1 .. EnoughRegions
    BY EnoughRegionsAssumption
  <2>3. 1 \in 1 .. EnoughRegions
    BY EnoughRegionsAssumption
  <2> HIDE DEF seen, B
  <2> QED BY <2>1, <2>2, <2>3
<1> HIDE DEF T
<1>4. /\ C \in BlockType /\ C.traces = T
      /\ C.ins = B.ins /\ C.term = B.term /\ C.ro = B.ro /\ C.likely = B.likely
      /\ C.succs = B.succs /\ C.preds = B.preds /\ C.heads = B.heads
      /\ C.has = B.has /\ C.code = B.code
  <2> HIDE DEF B
  <2> QED BY <1>1, <1>3 DEF BlockType
<1>5. TracesOK(Done(h), u, C)
  <2>1. TracesOK(Done(h), u, B)
    BY <1>1 DEF BlockOK
  <2> HIDE DEF B, C
  <2> QED BY <2>1, <1>3, <1>4 DEF TracesOK
<1>6. CanRecord(p, h, u, C)
  <2>1. h.rf.on /\ h.rf.head = u => B.code = None
    BY DEF GraphOK, TraceOK
  <2> HIDE DEF C
  <2> QED BY <2>1, <1>1, <1>4, <1>5 DEF CanRecord, BlockOK
<1>7. Adds(p, h, u, region, C)
  BY <1>3, <1>4, <1>6 DEF Adds
<1> HIDE DEF n, C
<1> QED BY <1>2, <1>7 DEF AddsTo, n

LEMMA AddRegionOK ==
  ASSUME NEW p, NEW h, GraphOK(p, h), NEW u \in Live(h), NEW region \in Seq(Addr),
         region # <<>>, region[1] = u, ToSet(region) \subseteq Done(h)
  PROVE  LET n == addRegion(h, u, region) IN
         /\ GraphOK(p, n) /\ Alike(h, n)
         /\ n.blk[u].code = h.blk[u].code
<1>1. PICK C : Adds(p, h, u, region, C) /\ addRegion(h, u, region) = Record(h, u, C)
  BY AddRegionIs DEF AddsTo
<1>2. HasRecord(p, h, u, C)
  BY <1>1, RecordOK DEF Adds
<1> QED BY <1>1, <1>2 DEF HasRecord, Adds

(* buildCFG: code for a region of finished blocks that compile.            *)
LEMMA BuildCFGOK ==
  ASSUME NEW p, NEW h, GraphOK(p, h), NEW u, NEW blocks,
         u \in blocks, blocks \subseteq Done(h),
         \A x \in blocks : \A a \in ToSet(h.blk[x].ins) : canCompileInstr(p[a].kind)
  PROVE  LET c == buildCFG(p, h, u, blocks) IN c \in CodeType /\ CodeOK(p, Done(h), u, c)
<1> DEFINE c == buildCFG(p, h, u, blocks)
           I == [x \in Addr |-> IF x \in blocks THEN h.blk[x].ins ELSE <<>>]
           N == [x \in Addr |-> IF x \in blocks THEN RegionEdges(p, h, u, blocks, x) ELSE {}]
<1>1. /\ blocks \subseteq Addr
      /\ \A x \in blocks : /\ h.blk[x] \in BlockType /\ Ended(p, h.blk[x])
                           /\ Consecutive(x, h.blk[x])
  <2>1. blocks \subseteq Addr /\ \A x \in blocks : x \in Live(h) /\ h.blk[x].ro
    BY DEF Done, Live
  <2>2. \A x \in blocks : h.blk[x] \in BlockType /\ BlockOK(p, Live(h), Done(h), x, h.blk[x])
    BY <2>1 DEF GraphOK, GraphType, Live
  <2> QED BY <2>1, <2>2 DEF BlockOK
<1>2. c = [blocks |-> blocks, ins |-> I, next |-> N]
  BY DEF buildCFG
<1>3. \A x \in blocks : RegionEdges(p, h, u, blocks, x) \subseteq blocks
  BY DEF RegionEdges
<1>4. N \in [Addr -> SUBSET Addr] /\ \A x \in blocks : N[x] \subseteq blocks
  <2>1. \A x \in Addr : N[x] \subseteq blocks
    BY <1>3
  <2> QED BY <2>1, <1>1
<1>5. I \in [Addr -> Seq(Addr)] /\ \A x \in blocks : I[x] = h.blk[x].ins
  <2>1. \A x \in blocks : h.blk[x].ins \in Seq(Addr)
    BY <1>1 DEF BlockType
  <2>2. <<>> \in Seq(Addr)
    OBVIOUS
  <2>3. \A x \in Addr : I[x] \in Seq(Addr)
    BY <2>1, <2>2
  <2>4. \A x \in blocks : I[x] = h.blk[x].ins
    BY <1>1
  <2> QED BY <2>3, <2>4
<1> HIDE DEF I, N, c
<1>6. c \in CodeType /\ c.blocks = blocks /\ c.ins = I /\ c.next = N
  BY <1>1, <1>2, <1>4, <1>5 DEF CodeType
<1>7. CodeOK(p, Done(h), u, c)
  <2> SUFFICES ASSUME NEW x \in blocks
               PROVE  /\ I[x] # <<>>
                      /\ \A i \in 1 .. Len(I[x]) : I[x][i] = x + i - 1
                      /\ \A a \in ToSet(I[x]) : canCompileInstr(p[a].kind)
                      /\ N[x] \subseteq blocks
    BY <1>6 DEF CodeOK
  <2>1. I[x] = h.blk[x].ins /\ Ended(p, h.blk[x]) /\ Consecutive(x, h.blk[x])
    BY <1>1, <1>5
  <2> QED BY <2>1, <1>4 DEF Ended, Consecutive
<1> QED BY <1>6, <1>7 DEF c

(* dropAllBBs: no block is left.                                           *)
LEMMA DropAllOK ==
  ASSUME NEW p, NEW h, h.rf \in FinderType
  PROVE  LET n == dropAllBBs(h) IN
         /\ GraphOK(p, n) /\ Live(n) = {} /\ ~n.rf.on
         /\ n.blk = [a \in Addr |-> None]
<1> DEFINE r == HeadsGoStale(disableRegionCollection(h.rf))
           n == dropAllBBs(h)
<1>1. r \in FinderType /\ r.on = FALSE
  BY DisableType, StaleType
<1> HIDE DEF r
<1>2. /\ n.blk = [a \in Addr |-> None] /\ n.insMap = [a \in Addr |-> None] /\ n.rf = r
      /\ n \in GraphType
  BY <1>1 DEF dropAllBBs, EmptyGraph, r, GraphType
<1> HIDE DEF n
<1>3. Live(n) = {}
  BY <1>2 DEF Live
<1>4. InsMapOK(n) /\ Linked(n) /\ TraceOK(n)
  BY <1>1, <1>2, <1>3 DEF InsMapOK, Linked, TraceOK
<1> QED BY <1>1, <1>2, <1>3, <1>4 DEF GraphOK, n
=============================================================================
