----------------------------- MODULE PathProofs -----------------------------
(***************************************************************************)
(* What the blocks, the regions and their compiled code are to each other  *)
(* while blocks are split, joined and looked up, for every program.        *)
(***************************************************************************)
EXTENDS DispatchProofs

-----------------------------------------------------------------------------
(***************************************************************************)
(* Compiled code is never stale: the blocks of a region know its head, and *)
(* a block is not split without the code that copied it being discarded.   *)
(* With --aug=0 (otherwise the blocks aug_dfs adds do not learn of the     *)
(* head).                                                                  *)
(***************************************************************************)
(* The invariants RegionHeadsRecorded and CodeIsCurrent, of any graph.     *)
HeadsOK(h) ==
  \A b \in Live(h) :
    /\ \A t \in h.blk[b].traces : \A x \in ToSet(t[1]) : b \in h.blk[x].heads
    /\ h.blk[b].code # None => \A x \in h.blk[b].code.blocks : b \in h.blk[x].heads

CurrentOK(h) ==
  \A b \in Live(h) : h.blk[b].code # None =>
    \A x \in h.blk[b].code.blocks : h.blk[b].code.ins[x] = h.blk[x].ins

FreshOK(h) == HeadsOK(h) /\ CurrentOK(h)

-----------------------------------------------------------------------------
(* Nothing recorded, nothing compiled.                                     *)
Clean(C) == C.traces = {} /\ C.code = None

(* C has what B has recorded and compiled, or less.                        *)
Lesser(C, B) ==
  C.traces \subseteq B.traces /\ (C.code = None \/ C.code = B.code)

(* What keeps code from going stale between h and n: nothing is recorded   *)
(* or compiled; finished blocks forget no head; and a finished block keeps *)
(* its instructions unless none of its heads has code any more.            *)
Follows(h, n) ==
  /\ \A b \in Live(n) :
       Clean(n.blk[b]) \/ (b \in Live(h) /\ Lesser(n.blk[b], h.blk[b]))
  /\ \A x \in Done(h) :
       /\ x \in Done(n) /\ h.blk[x].heads \subseteq n.blk[x].heads
       /\ \/ n.blk[x].ins = h.blk[x].ins
          \/ \A b \in h.blk[x].heads : b \in Live(n) => n.blk[b].code = None

LEMMA FollowsOK ==
  ASSUME NEW p, NEW h, NEW n, GraphOK(p, h), FreshOK(h), Follows(h, n)
  PROVE  FreshOK(n)
<1>1. \A b \in Live(h) : TracesOK(Done(h), b, h.blk[b])
                         /\ (h.blk[b].code # None => CodeOK(p, Done(h), b, h.blk[b].code))
  BY DEF GraphOK, BlockOK
<1>2. HeadsOK(n)
  <2> SUFFICES ASSUME NEW b \in Live(n), ~Clean(n.blk[b])
               PROVE  /\ \A t \in n.blk[b].traces : \A x \in ToSet(t[1]) : b \in n.blk[x].heads
                      /\ n.blk[b].code # None =>
                           \A x \in n.blk[b].code.blocks : b \in n.blk[x].heads
    BY DEF HeadsOK, Clean
  <2>1. b \in Live(h) /\ Lesser(n.blk[b], h.blk[b])
    BY DEF Follows
  <2>2. ASSUME NEW t \in n.blk[b].traces, NEW x \in ToSet(t[1]) PROVE b \in n.blk[x].heads
    <3>1. t \in h.blk[b].traces /\ x \in Done(h)
      BY <2>1, <1>1 DEF Lesser, TracesOK
    <3> QED BY <2>1, <3>1 DEF FreshOK, HeadsOK, Follows
  <2>3. ASSUME n.blk[b].code # None, NEW x \in n.blk[b].code.blocks PROVE b \in n.blk[x].heads
    <3>1. n.blk[b].code = h.blk[b].code /\ x \in Done(h)
      BY <2>1, <2>3, <1>1 DEF Lesser, CodeOK
    <3> QED BY <2>1, <2>3, <3>1 DEF FreshOK, HeadsOK, Follows
  <2> QED BY <2>2, <2>3
<1>3. CurrentOK(n)
  <2> SUFFICES ASSUME NEW b \in Live(n), n.blk[b].code # None, NEW x \in n.blk[b].code.blocks
               PROVE  n.blk[b].code.ins[x] = n.blk[x].ins
    BY DEF CurrentOK
  <2>1. b \in Live(h) /\ n.blk[b].code = h.blk[b].code
    BY DEF Follows, Clean, Lesser
  <2>2. x \in Done(h) /\ b \in h.blk[x].heads /\ h.blk[b].code.ins[x] = h.blk[x].ins
    BY <2>1, <1>1 DEF FreshOK, HeadsOK, CurrentOK, CodeOK
  <2>3. n.blk[x].ins = h.blk[x].ins
    BY <2>2 DEF Follows
  <2> QED BY <2>1, <2>2, <2>3
<1> QED BY <1>2, <1>3 DEF FreshOK

LEMMA FollowsTrans ==
  ASSUME NEW h, NEW m, NEW n, Follows(h, m), Follows(m, n)
  PROVE  Follows(h, n)
<1>1. ASSUME NEW b \in Live(n)
      PROVE  Clean(n.blk[b]) \/ (b \in Live(h) /\ Lesser(n.blk[b], h.blk[b]))
  BY DEF Follows, Clean, Lesser
<1>2. ASSUME NEW x \in Done(h)
      PROVE  /\ x \in Done(n) /\ h.blk[x].heads \subseteq n.blk[x].heads
             /\ \/ n.blk[x].ins = h.blk[x].ins
                \/ \A b \in h.blk[x].heads : b \in Live(n) => n.blk[b].code = None
  <2>1. x \in Done(m) /\ h.blk[x].heads \subseteq m.blk[x].heads
    BY DEF Follows
  <2>2. x \in Done(n) /\ m.blk[x].heads \subseteq n.blk[x].heads
    BY <2>1 DEF Follows
  <2>3. CASE n.blk[x].ins # m.blk[x].ins
    BY <2>1, <2>2, <2>3 DEF Follows
  <2>4. CASE m.blk[x].ins # h.blk[x].ins
    <3> SUFFICES ASSUME NEW b \in h.blk[x].heads, b \in Live(n) PROVE n.blk[b].code = None
      BY <2>1, <2>2
    <3>1. b \in Live(m) => m.blk[b].code = None
      BY <2>4 DEF Follows
    <3> QED BY <3>1 DEF Follows, Clean, Lesser
  <2> QED BY <2>1, <2>2, <2>3, <2>4
<1> QED BY <1>1, <1>2 DEF Follows

(* When no instructions change.                                            *)
Near(h, n) ==
  /\ \A b \in Live(n) :
       Clean(n.blk[b]) \/ (b \in Live(h) /\ Lesser(n.blk[b], h.blk[b]))
  /\ \A x \in Done(h) : x \in Done(n) /\ n.blk[x].heads = h.blk[x].heads
                        /\ n.blk[x].ins = h.blk[x].ins

LEMMA NearFollows ==
  ASSUME NEW h, NEW n, Near(h, n)
  PROVE  Follows(h, n)
BY DEF Near, Follows

LEMMA SameBlocks ==
  ASSUME NEW h, NEW n, n.blk = h.blk
  PROVE  Follows(h, n)
BY DEF Follows, Lesser, Live, Done

-----------------------------------------------------------------------------
(* The operations on the graph.                                            *)
LEMMA NewBlockFollows ==
  ASSUME NEW p, NEW h, GraphOK(p, h), NEW q \in Addr, h.blk[q] = None
  PROVE  Follows(h, newBlock(h, q))
<1> DEFINE n == newBlock(h, q)
<1>1. /\ Live(n) = Live(h) \cup {q} /\ Done(h) \subseteq Done(n)
      /\ n.blk[q] = FreshBlock /\ \A a \in Addr \ {q} : n.blk[a] = h.blk[a]
  BY NewBlockOK
<1>2. Clean(FreshBlock)
  BY DEF Clean, FreshBlock
<1>3. \A a \in Live(h) : a \in Addr \ {q}
  BY DEF Live
<1> HIDE DEF n
<1>4. Near(h, n)
  BY <1>1, <1>2, <1>3 DEF Near, Lesser, Done
<1> QED BY <1>4, NearFollows DEF n

LEMMA AddSuccessorFollows ==
  ASSUME NEW p, NEW h, GraphOK(p, h), NEW b \in Live(h), NEW s \in Live(h)
  PROVE  Follows(h, addSuccessor(h, b, s))
<1> DEFINE n == addSuccessor(h, b, s)
           S == h.blk[b].succs \cup {s}
           k == [h.blk EXCEPT ![b] = [h.blk[b] EXCEPT !.succs = S]]
           P == k[s].preds \cup {b}
           f == [k EXCEPT ![s] = [k[s] EXCEPT !.preds = P]]
<1>1. /\ h \in GraphType /\ Live(h) \subseteq Addr
      /\ \A a \in Live(h) : h.blk[a] \in BlockType
  BY DEF GraphOK, GraphType, Live
<1>2. n.blk = f
  <2> DEFINE X == [h EXCEPT !.blk[b].succs = @ \cup {s}]
  <2>1. X.blk = k
    BY <1>1 DEF GraphType
  <2>2. X \in [blk : {X.blk}, insMap : {X.insMap}, rf : {X.rf}]
    BY <1>1 DEF GraphType
  <2>3. n = [X EXCEPT !.blk = [X.blk EXCEPT ![s] = [X.blk[s] EXCEPT !.preds = @ \cup {b}]]]
    BY DEF addSuccessor
  <2> HIDE DEF X, k, n
  <2>4. n = [X EXCEPT !.blk = f]
    BY <2>1, <2>3
  <2> HIDE DEF f
  <2> QED BY <2>2, <2>4
<1> HIDE DEF n
<1>3. \A a \in Live(h) : /\ k[a].ins = h.blk[a].ins /\ k[a].heads = h.blk[a].heads
                         /\ k[a].traces = h.blk[a].traces /\ k[a].code = h.blk[a].code
                         /\ k[a] \in BlockType
  <2>1. S \subseteq Addr
    BY <1>1 DEF BlockType
  <2> HIDE DEF S
  <2>2. \A a \in Live(h) : k[a] = IF a = b THEN [h.blk[b] EXCEPT !.succs = S] ELSE h.blk[a]
    BY <1>1 DEF GraphType
  <2> HIDE DEF k
  <2> QED BY <1>1, <2>1, <2>2 DEF BlockType
<1>4. DOMAIN k = Addr
  BY <1>1 DEF GraphType
<1> HIDE DEF k
<1>5. \A a \in Live(h) : /\ f[a].ins = h.blk[a].ins /\ f[a].heads = h.blk[a].heads
                         /\ f[a].traces = h.blk[a].traces /\ f[a].code = h.blk[a].code
  <2> HIDE DEF P
  <2>2. \A a \in Live(h) : f[a] = IF a = s THEN [k[s] EXCEPT !.preds = P] ELSE k[a]
    BY <1>1, <1>4
  <2> HIDE DEF f
  <2> QED BY <1>3, <2>2 DEF BlockType
<1> HIDE DEF f
<1>6. Live(n) = Live(h) /\ Done(n) = Done(h)
  BY AddSuccessorOK DEF HasEdge, n
<1>7. Near(h, n)
  BY <1>2, <1>5, <1>6 DEF Near, Lesser, Done
<1> QED BY <1>7, NearFollows DEF n

LEMMA NewBlockAfterFollows ==
  ASSUME NEW p, NEW h, GraphOK(p, h), NEW b \in Live(h), NEW q \in Addr, h.blk[q] = None
  PROVE  Follows(h, newBlockAfter(h, q, b))
<1> DEFINE m == newBlock(h, q)
<1>1. GraphOK(p, m) /\ Live(m) = Live(h) \cup {q}
  BY NewBlockOK
<1>2. Follows(h, m)
  BY NewBlockFollows
<1>3. newBlockAfter(h, q, b) = addSuccessor(m, b, q)
  BY DEF newBlockAfter
<1> HIDE DEF m
<1>4. Follows(m, addSuccessor(m, b, q))
  BY <1>1, AddSuccessorFollows
<1> QED BY <1>2, <1>3, <1>4, FollowsTrans

LEMMA SetReadOnlyFollows ==
  ASSUME NEW p, NEW h, GraphOK(p, h), NEW b \in Live(h), Ended(p, h.blk[b])
  PROVE  Follows(h, setReadOnly(h, b))
<1> DEFINE n == setReadOnly(h, b)
           B == h.blk[b]
<1>1. CASE B.ro
  <2>1. n = h
    BY <1>1 DEF setReadOnly
  <2> QED BY <2>1, SameBlocks
<1>2. CASE ~B.ro
  <2>1. /\ Live(n) = Live(h) /\ Done(h) \cup {b} \subseteq Done(n)
        /\ \A a \in Addr \ {b} : n.blk[a] = h.blk[a]
    BY SetReadOnlyOK
  <2>2. n = [h EXCEPT !.blk[b] = Sealed(B)]
    BY <1>2 DEF setReadOnly
  <2>3. h \in GraphType /\ b \in Addr /\ B \in BlockType
    BY DEF GraphOK, GraphType, Live
  <2>4. n.blk[b] = Sealed(B)
    BY <2>2, <2>3 DEF GraphType
  <2>5. Clean(Sealed(B))
    BY <2>3 DEF Clean, Sealed, BlockType
  <2>6. \A a \in Live(h) : a # b => a \in Addr \ {b}
    BY DEF Live
  <2>7. b \notin Done(h)
    BY <1>2 DEF Done
  <2> HIDE DEF n
  <2>8. Near(h, n)
    BY <2>1, <2>4, <2>5, <2>6, <2>7 DEF Near, Lesser, Done
  <2> QED BY <2>8, NearFollows DEF n
<1> QED BY <1>1, <1>2

-----------------------------------------------------------------------------
(* Splitting a block.                                                      *)
LEMMA DropFollows ==
  ASSUME NEW p, NEW h, GraphOK(p, h), NEW b \in Live(h)
  PROVE  LET n == dropCompiledCode(h, b) IN
         /\ Follows(h, n)
         /\ n.blk[b].heads = h.blk[b].heads
         /\ \A a \in h.blk[b].heads : Clean(n.blk[a])
<1> DEFINE S == h.blk[b].heads
           N(a) == [h.blk[a] EXCEPT !.traces = {}]
           f == [a \in Addr |-> CASE a \in S -> Nuked(h.blk[a])
                                  [] a \notin S /\ a = b -> N(a)
                                  [] OTHER -> h.blk[a]]
           n == dropCompiledCode(h, b)
<1>1. h \in GraphType /\ b \in Addr /\ S \subseteq Live(h) /\ Live(h) \subseteq Addr
      /\ \A a \in Live(h) : h.blk[a] \in BlockType
  BY DEF GraphOK, GraphType, Live, BlockOK
<1>2. n.blk = f
  <2>1. n = [h EXCEPT !.blk = f]
    BY DEF dropCompiledCode
  <2> HIDE DEF f, n
  <2> QED BY <1>1, <2>1 DEF GraphType
<1>3. Live(n) = Live(h) /\ Done(n) = Done(h)
  BY DropOK
<1> HIDE DEF n
<1>4. \A a \in Live(h) :
        /\ f[a].ins = h.blk[a].ins /\ f[a].heads = h.blk[a].heads
        /\ Lesser(f[a], h.blk[a])
        /\ a \in S => Clean(f[a])
  <2> SUFFICES ASSUME NEW a \in Live(h)
               PROVE  /\ f[a].ins = h.blk[a].ins /\ f[a].heads = h.blk[a].heads
                      /\ Lesser(f[a], h.blk[a])
                      /\ a \in S => Clean(f[a])
    OBVIOUS
  <2>1. h.blk[a] \in BlockType /\ a \in Addr
    BY <1>1
  <2>2. CASE a \in S
    <3>1. f[a] = Nuked(h.blk[a])
      BY <2>1, <2>2
    <3> HIDE DEF f
    <3> QED BY <2>1, <3>1 DEF Nuked, Lesser, Clean, BlockType
  <2>3. CASE a \notin S /\ a = b
    <3>1. f[a] = N(a)
      BY <2>1, <2>3
    <3> HIDE DEF f
    <3> QED BY <2>1, <2>3, <3>1 DEF Lesser, BlockType
  <2>4. CASE a \notin S /\ a # b
    <3>1. f[a] = h.blk[a]
      BY <2>1, <2>4
    <3> HIDE DEF f
    <3> QED BY <2>4, <3>1 DEF Lesser
  <2> QED BY <2>2, <2>3, <2>4
<1> HIDE DEF f
<1>5. Near(h, n)
  BY <1>2, <1>3, <1>4 DEF Near, Done
<1>6. Follows(h, n)
  BY <1>5, NearFollows
<1> QED BY <1>1, <1>2, <1>4, <1>6 DEF n

LEMMA DelaySlotFollows ==
  ASSUME NEW p, NEW h, GraphOK(p, h), NEW q \in Addr, h.blk[q] = None,
         p[q].kind \in {"alu", "nc"}
  PROVE  Follows(h, DelaySlotBlock(h, q))
<1> DEFINE n == DelaySlotBlock(h, q)
           F == [Sealed(FreshBlock) EXCEPT !.ins = <<q>>, !.term = q]
<1>1. /\ Live(n) = Live(h) \cup {q} /\ Done(h) \subseteq Done(n)
      /\ \A a \in Addr \ {q} : n.blk[a] = h.blk[a]
  BY DelaySlotOK
<1>2. h \in GraphType
  BY DEF GraphOK
<1>3. n.blk[q] = F
  <2> HIDE DEF F
  <2> QED BY <1>2 DEF DelaySlotBlock, GraphType, F
<1>4. Clean(F)
  BY DEF Clean, Sealed, FreshBlock
<1>5. \A a \in Live(h) : a \in Addr \ {q}
  BY DEF Live
<1> HIDE DEF n, F
<1>6. Near(h, n)
  BY <1>1, <1>3, <1>4, <1>5 DEF Near, Lesser, Done
<1> QED BY <1>6, NearFollows DEF n

(* The block that is cut is finished, and no head of its has code.         *)
LEMMA MoveTailFollows ==
  ASSUME NEW p, NEW h, NEW b, NEW q, NEW n, CanMoveTail(p, h, b, q, n),
         \A a \in h.blk[b].heads : h.blk[a].code = None
  PROVE  Follows(h, MoveTail(h, b, q))
<1> DEFINE B == h.blk[b]
           H == HeadOf(B, q - b, q)
           T == TailOf(B, q - b, b)
           cut == [h.blk EXCEPT ![b] = H, ![q] = T]
           P(a) == [cut[a] EXCEPT !.preds = Relink(@, b, q)]
           f == [a \in Addr |-> IF a \in B.succs THEN P(a) ELSE cut[a]]
           m == MoveTail(h, b, q)
<1>1. /\ GraphOK(p, h) /\ b \in Live(h) /\ q \in Addr /\ h.blk[q] = None
      /\ h \in GraphType /\ b \in Addr /\ Live(h) \subseteq Addr /\ q # b
      /\ \A a \in Live(h) : h.blk[a] \in BlockType
      /\ B.heads \subseteq Live(h)
  BY DEF CanMoveTail, GraphOK, GraphType, Live, BlockOK
<1>2. HasMovedTail(p, h, b, q)
  BY MoveTailOK
<1>3. /\ Live(m) = Live(h) \cup {q} /\ b \in Done(m) /\ q \in Done(m)
      /\ Done(h) \subseteq Done(m)
  BY <1>2 DEF HasMovedTail
<1>4. m.blk = f
  BY <1>1 DEF MoveTail, GraphType
<1> HIDE DEF m
<1>5. /\ Clean(H) /\ H.heads = B.heads /\ Clean(T)
      /\ DOMAIN H = DOMAIN B /\ DOMAIN T = DOMAIN FreshBlock
  BY <1>1 DEF HeadOf, TailOf, Sealed, Clean, BlockType, FreshBlock
<1>6. cut[b] = H /\ cut[q] = T /\ \A a \in Live(h) \ {b} : cut[a] = h.blk[a]
  <2> HIDE DEF H, T
  <2> QED BY <1>1 DEF GraphType, Live
<1> HIDE DEF H, T, cut
<1>7. \A a \in Live(m) : f[a].traces = cut[a].traces /\ f[a].code = cut[a].code
                         /\ f[a].heads = cut[a].heads /\ f[a].ins = cut[a].ins
  BY <1>1, <1>3
<1> HIDE DEF f
<1>8. \A a \in Live(m) : Clean(m.blk[a]) \/ (a \in Live(h) /\ a # b /\ Lesser(m.blk[a], h.blk[a]))
  BY <1>3, <1>4, <1>5, <1>6, <1>7 DEF Clean, Lesser
<1>9. ASSUME NEW x \in Done(h)
      PROVE  /\ x \in Done(m) /\ h.blk[x].heads \subseteq m.blk[x].heads
             /\ \/ m.blk[x].ins = h.blk[x].ins
                \/ \A a \in h.blk[x].heads : a \in Live(m) => m.blk[a].code = None
  <2>1. x \in Live(h) /\ x \in Done(m) /\ x \in Live(m)
    BY <1>3 DEF Done
  <2>2. CASE x # b
    BY <1>4, <1>6, <1>7, <2>1, <2>2
  <2>3. CASE x = b
    <3>1. m.blk[x].heads = B.heads
      BY <1>4, <1>5, <1>6, <1>7, <2>1, <2>3
    <3>2. \A a \in B.heads : m.blk[a].code = None
      BY <1>1, <1>3, <1>4, <1>5, <1>6, <1>7 DEF Clean
    <3> QED BY <2>1, <2>3, <3>1, <3>2
  <2> QED BY <2>2, <2>3
<1> QED BY <1>8, <1>9 DEF Follows, m

LEMMA SplitFollows ==
  ASSUME NEW p, NEW h, NEW x, NEW q, CanSplit(p, h, x, q)
  PROVE  Follows(h, split(p, h, x, q))
<1> DEFINE o == Quiet(h)
           d == Dropped(h, x)
           n == split(p, h, x, q)
<1>1. /\ GraphOK(p, o) /\ o.blk = h.blk /\ x \in Live(o)
      /\ GraphOK(p, d) /\ d.blk[q] = None /\ q \in Addr
      /\ \/ n = DelaySlotBlock(d, q) /\ p[q].kind \in {"alu", "nc"}
         \/ n = MoveTail(d, x, q) /\ CanMoveTail(p, d, x, q, q - x)
  BY SplitSteps DEF SplitInSteps, CanSplit
<1>2. /\ Follows(o, d) /\ d.blk[x].heads = o.blk[x].heads
      /\ \A a \in o.blk[x].heads : Clean(d.blk[a])
  <2>1. d = dropCompiledCode(o, x)
    BY DEF Dropped
  <2> HIDE DEF o, d
  <2> QED BY <2>1, <1>1, DropFollows
<1> HIDE DEF o, d, n
<1>3. Follows(h, o)
  BY <1>1, SameBlocks
<1>4. CASE n = DelaySlotBlock(d, q) /\ p[q].kind \in {"alu", "nc"}
  <2>1. Follows(d, n)
    BY <1>1, <1>4, DelaySlotFollows
  <2> QED BY <1>2, <1>3, <2>1, FollowsTrans DEF n
<1>5. CASE n = MoveTail(d, x, q) /\ CanMoveTail(p, d, x, q, q - x)
  <2>1. \A a \in d.blk[x].heads : d.blk[a].code = None
    BY <1>2 DEF Clean
  <2>2. Follows(d, n)
    BY <1>5, <2>1, MoveTailFollows
  <2> QED BY <1>2, <1>3, <2>2, FollowsTrans DEF n
<1> QED BY <1>1, <1>4, <1>5

-----------------------------------------------------------------------------
(* Looking a block up, splitting the one that contains it.                 *)
LEMMA FindFollows ==
  ASSUME NEW p, NEW h, NEW b, NEW q, CanFind(p, h, b, q)
  PROVE  Follows(h, findBlock(p, h, b, q))
<1> DEFINE n == findBlock(p, h, b, q)
           x == h.insMap[q]
<1>1. /\ p \in Programs /\ GraphOK(p, h) /\ b \in Live(h) /\ q \in Addr
      /\ \A y \in Live(h) : Ended(p, h.blk[y]) \/ h.blk[y].ins = <<>>
  BY DEF CanFind
<1>2. CASE n = h
  BY <1>2, SameBlocks
<1>3. CASE n = addSuccessor(h, b, q) /\ h.blk[q] # None
  <2>1. q \in Live(h)
    BY <1>1, <1>3 DEF Live
  <2> HIDE DEF n
  <2> QED BY <1>1, <1>3, <2>1, AddSuccessorFollows DEF n
<1>4. CASE n = addSuccessor(split(p, h, x, q), b, q) /\ h.blk[q] = None /\ x # None
  <2> DEFINE s == split(p, h, x, q)
  <2>1. CanSplit(p, h, x, q)
    <3>1. x \in Live(h) /\ q \in ToSet(h.blk[x].ins)
      BY <1>1, <1>4 DEF GraphOK, InsMapOK
    <3>2. h.blk[x].ins # <<>>
      BY <3>1 DEF ToSet
    <3> QED BY <3>1, <3>2, <1>1, <1>4 DEF CanSplit
  <2>2. GraphOK(p, s) /\ Live(s) = Live(h) \cup {q} /\ Follows(h, s)
    BY <2>1, SplitOK, SplitFollows DEF HasSplit
  <2>3. n = addSuccessor(s, b, q)
    BY <1>4
  <2> HIDE DEF s, n
  <2>4. Follows(s, n)
    BY <1>1, <2>2, <2>3, AddSuccessorFollows
  <2> QED BY <2>2, <2>4, FollowsTrans DEF n
<1>5. \/ n = h
      \/ n = addSuccessor(h, b, q) /\ h.blk[q] # None
      \/ n = addSuccessor(split(p, h, x, q), b, q) /\ h.blk[q] = None /\ x # None
  BY DEF findBlock
<1> QED BY <1>2, <1>3, <1>4, <1>5

LEMMA GetNextFollows ==
  ASSUME NEW p, NEW h, NEW b, NEW q, CanFind(p, h, b, q), Ended(p, h.blk[b])
  PROVE  Follows(h, getNextBlock(p, h, b, q))
<1> DEFINE f == findBlock(p, h, b, q)
           m == IF f.blk[q] = None THEN newBlockAfter(f, q, b) ELSE f
           n == getNextBlock(p, h, b, q)
<1>1. b \in Live(h) /\ q \in Addr
  BY DEF CanFind
<1>2. GraphOK(p, f) /\ Evolves(h, f) /\ Follows(h, f)
  BY FindBlockOK, FindFollows DEF HasFound
<1> HIDE DEF f
<1>3. b \in Live(f)
  BY <1>1, <1>2 DEF Evolves
<1>4. GraphOK(p, m) /\ Evolves(f, m) /\ Follows(f, m)
  <2>1. CASE f.blk[q] = None
    <3>1. m = newBlockAfter(f, q, b)
      BY <2>1
    <3> HIDE DEF m
    <3> QED BY <1>1, <1>2, <1>3, <2>1, <3>1, NewBlockAfterOK, NewBlockAfterFollows DEF HasNewAfter
  <2>2. CASE f.blk[q] # None
    <3>1. m = f
      BY <2>2
    <3> HIDE DEF m
    <3> QED BY <1>2, <3>1, SameBlocks DEF Evolves
  <2> QED BY <2>1, <2>2
<1>5. n = setReadOnly(m, b)
  BY DEF getNextBlock, f
<1> HIDE DEF m, n
<1>6. Evolves(h, m) /\ Follows(h, m)
  BY <1>2, <1>4, EvolvesTrans, FollowsTrans
<1>7. b \in Live(m) /\ Ended(p, m.blk[b])
  <2>1. b \in Live(m)
    BY <1>1, <1>6 DEF Evolves
  <2>2. CASE b \in Done(m)
    BY <2>1, <2>2, <1>4 DEF GraphOK, BlockOK, Done
  <2>3. CASE m.blk[b].ins = h.blk[b].ins /\ m.blk[b].term = h.blk[b].term
    BY <2>1, <2>3 DEF Ended
  <2> QED BY <2>1, <2>2, <2>3, <1>1, <1>6 DEF Evolves
<1>8. Follows(m, n)
  BY <1>4, <1>5, <1>7, SetReadOnlyFollows
<1> QED BY <1>6, <1>8, FollowsTrans DEF n

(* A block that is being built is in no code.                              *)
LEMMA GrowFollows ==
  ASSUME NEW p, NEW h, NEW n, NEW b \in Live(h), GraphOK(p, h), ~h.blk[b].ro,
         Live(n) = Live(h), \A a \in Addr \ {b} : n.blk[a] = h.blk[a],
         Lesser(n.blk[b], h.blk[b])
  PROVE  Follows(h, n)
<1>1. b \notin Done(h)
  BY DEF Done
<1>2. \A a \in Live(h) : a # b => a \in Addr \ {b}
  BY DEF Live
<1>3. Near(h, n)
  BY <1>1, <1>2 DEF Near, Lesser, Done
<1> QED BY <1>3, NearFollows

LEMMA AddInsFollows ==
  ASSUME NEW p, NEW h, NEW b, NEW a, Growing(p, h, b, a), p[a].kind # "brl"
  PROVE  Follows(h, addIns(h, b, a))
<1> DEFINE n == addIns(h, b, a)
           B == h.blk[b]
           t == Append(B.ins, a)
           C == [B EXCEPT !.ins = t]
<1>1. GraphOK(p, h) /\ b \in Live(h) /\ ~B.ro
  BY DEF Growing
<1>2. Live(n) = Live(h)
  BY AddInsOK DEF HasGrown
<1>3. h \in GraphType /\ b \in Addr /\ B \in BlockType
  BY <1>1 DEF GraphOK, GraphType, Live
<1>4. n = [h EXCEPT !.blk[b] = C, !.insMap[a] = b]
  BY <1>1, <1>3 DEF addIns, GraphType
<1>5. Lesser(C, B)
  <2> HIDE DEF t
  <2> QED BY <1>3 DEF Lesser, BlockType
<1> HIDE DEF C, n
<1>6. n.blk[b] = C /\ \A x \in Addr \ {b} : n.blk[x] = h.blk[x]
  BY <1>3, <1>4 DEF GraphType
<1>7. Lesser(n.blk[b], h.blk[b])
  BY <1>5, <1>6
<1> HIDE DEF B
<1>8. ~h.blk[b].ro
  BY <1>1 DEF B
<1> QED BY <1>1, <1>2, <1>6, <1>7, <1>8, GrowFollows DEF n

LEMMA EndingFollows ==
  ASSUME NEW p, NEW h, NEW b, NEW a, Growing(p, h, b, a), EndsBlock(p[a].kind)
  PROVE  Follows(h, Ending(p, h, b, a))
<1> DEFINE n == Ending(p, h, b, a)
           B == h.blk[b]
           E == EndBlock(p, B, a)
           c == EndMap(p, h.insMap, b, a)
<1>1. GraphOK(p, h) /\ b \in Live(h) /\ ~B.ro /\ p \in Programs /\ a \in Addr
  BY DEF Growing
<1>2. Live(n) = Live(h) /\ \A x \in Addr \ {b} : n.blk[x] = h.blk[x]
  BY EndingOK DEF HasEnded
<1>3. h \in GraphType /\ b \in Addr /\ B \in BlockType
  BY <1>1 DEF GraphOK, GraphType, Live
<1>4. isBranchOrJump(p[a].kind) => a + 1 \in Addr
  <2>1. isBranchOrJump(p[a].kind) => p[a].kind \notin {"halt", "mon"}
    BY DEF isBranchOrJump
  <2> QED BY <1>1, <2>1, NextWord
<1>5. n = Put(h, b, E, c)
  BY <1>4, EndingIsPut
<1>6. n.blk[b] = E
  <2> HIDE DEF E, c, n
  <2> QED BY <1>3, <1>5 DEF Put, GraphType
<1>7. Lesser(E, B)
  BY <1>3 DEF EndBlock, Lesser, BlockType
<1>8. Lesser(n.blk[b], h.blk[b])
  BY <1>6, <1>7
<1> HIDE DEF n, B
<1>9. ~h.blk[b].ro
  BY <1>1 DEF B
<1> QED BY <1>1, <1>2, <1>8, <1>9, GrowFollows DEF n

-----------------------------------------------------------------------------
(* A region is recorded and compiled.                                      *)
LEMMA JoinFollows ==
  ASSUME NEW p, NEW h, GraphOK(p, h), NEW u \in Live(h), NEW region,
         ToSet(region) \subseteq Live(h)
  PROVE  LET n == joinRegions(h, u, region) IN
         Follows(h, n) /\ \A x \in ToSet(region) : u \in n.blk[x].heads
<1> DEFINE S == ToSet(region)
           N(a) == [h.blk[a] EXCEPT !.heads = h.blk[a].heads \cup {u}]
           f == [a \in Addr |-> IF a \in S THEN N(a) ELSE h.blk[a]]
           n == joinRegions(h, u, region)
<1>1. /\ h \in GraphType /\ Live(h) \subseteq Addr
      /\ \A a \in Live(h) : h.blk[a] \in BlockType
  BY DEF GraphOK, GraphType, Live
<1>2. n.blk = f
  <2>1. n = [h EXCEPT !.blk = f]
    BY DEF joinRegions
  <2> HIDE DEF f, n
  <2> QED BY <1>1, <2>1 DEF GraphType
<1>3. Live(n) = Live(h) /\ Done(n) = Done(h)
  BY JoinOK DEF Alike
<1> HIDE DEF n
<1>4. \A a \in Live(h) :
        /\ f[a].ins = h.blk[a].ins /\ h.blk[a].heads \subseteq f[a].heads
        /\ Lesser(f[a], h.blk[a])
        /\ a \in S => u \in f[a].heads
  <2> SUFFICES ASSUME NEW a \in Live(h)
               PROVE  /\ f[a].ins = h.blk[a].ins /\ h.blk[a].heads \subseteq f[a].heads
                      /\ Lesser(f[a], h.blk[a])
                      /\ a \in S => u \in f[a].heads
    OBVIOUS
  <2>1. h.blk[a] \in BlockType /\ a \in Addr
    BY <1>1
  <2> HIDE DEF S
  <2>2. f[a] = IF a \in S THEN N(a) ELSE h.blk[a]
    BY <2>1
  <2> HIDE DEF f
  <2> QED BY <2>1, <2>2 DEF Lesser, BlockType
<1> HIDE DEF f
<1>5. Follows(h, n)
  BY <1>2, <1>3, <1>4 DEF Follows, Done
<1>6. \A x \in S : u \in n.blk[x].heads
  BY <1>2, <1>4
<1> QED BY <1>5, <1>6 DEF n

LEMMA RecordFresh ==
  ASSUME NEW p, NEW r, NEW u, NEW C, CanRecord(p, r, u, C), FreshOK(r),
         \A t \in C.traces : \A x \in ToSet(t[1]) : u \in r.blk[x].heads,
         C.code # None =>
           \A x \in C.code.blocks : u \in r.blk[x].heads /\ C.code.ins[x] = r.blk[x].ins
  PROVE  FreshOK(Record(r, u, C))
<1> DEFINE n == Record(r, u, C)
<1>1. /\ GraphOK(p, r) /\ u \in Live(r) /\ TracesOK(Done(r), u, C)
      /\ C.code # None => CodeOK(p, Done(r), u, C.code)
      /\ C.ins = r.blk[u].ins /\ C.heads = r.blk[u].heads
  BY DEF CanRecord
<1>2. Live(n) = Live(r) /\ n.blk[u] = C
  BY RecordOK DEF HasRecord, Alike
<1>3. \A a \in Live(r) \ {u} : n.blk[a] = r.blk[a]
  <2>1. r \in GraphType
    BY <1>1 DEF GraphOK
  <2> QED BY <2>1 DEF Record, GraphType, Live
<1> HIDE DEF n
<1>4. \A a \in Live(r) : n.blk[a].ins = r.blk[a].ins /\ n.blk[a].heads = r.blk[a].heads
  BY <1>1, <1>2, <1>3
<1>5. \A b \in Live(r) : TracesOK(Done(r), b, r.blk[b])
                         /\ (r.blk[b].code # None => CodeOK(p, Done(r), b, r.blk[b].code))
  BY <1>1 DEF GraphOK, BlockOK
<1>6. /\ \A b \in Live(n) : \A t \in n.blk[b].traces : ToSet(t[1]) \subseteq Live(r)
      /\ \A b \in Live(n) : n.blk[b].code # None => n.blk[b].code.blocks \subseteq Live(r)
  <2>1. Done(r) \subseteq Live(r)
    BY DEF Done
  <2> QED BY <1>1, <1>2, <1>3, <1>5, <2>1 DEF TracesOK, CodeOK
<1>7. HeadsOK(n)
  <2> SUFFICES ASSUME NEW b \in Live(n)
               PROVE  /\ \A t \in n.blk[b].traces : \A x \in ToSet(t[1]) : b \in r.blk[x].heads
                      /\ n.blk[b].code # None =>
                           \A x \in n.blk[b].code.blocks : b \in r.blk[x].heads
    BY <1>4, <1>6 DEF HeadsOK
  <2> QED BY <1>2, <1>3 DEF FreshOK, HeadsOK
<1>8. CurrentOK(n)
  <2> SUFFICES ASSUME NEW b \in Live(n), n.blk[b].code # None, NEW x \in n.blk[b].code.blocks
               PROVE  n.blk[b].code.ins[x] = r.blk[x].ins
    BY <1>4, <1>6 DEF CurrentOK
  <2> QED BY <1>2, <1>3 DEF FreshOK, CurrentOK
<1> QED BY <1>7, <1>8 DEF FreshOK, n

(* The region has been recorded.                                           *)
LEMMA RecordedFresh ==
  ASSUME NEW p, NEW h, NEW u, CanClose(p, h, u), FreshOK(h),
         NEW region \in Seq(Addr), region # <<>>, region[1] = u,
         ToSet(region) \subseteq Done(h)
  PROVE  FreshOK(Recorded(h, u, region))
<1> DEFINE j == joinRegions(h, u, region)
           r == Recorded(h, u, region)
<1>1. GraphOK(p, h) /\ u \in Live(h) /\ Live(h) = Done(h)
  BY DEF CanClose, Done
<1>2. /\ GraphOK(p, j) /\ Alike(h, j) /\ Follows(h, j)
      /\ \A x \in ToSet(region) : u \in j.blk[x].heads
  BY <1>1, JoinOK, JoinFollows
<1> HIDE DEF j
<1>3. FreshOK(j) /\ u \in Live(j) /\ ToSet(region) \subseteq Done(j)
  BY <1>1, <1>2, FollowsOK DEF Alike
<1>4. PICK C : Adds(p, j, u, region, C) /\ addRegion(j, u, region) = Record(j, u, C)
  BY <1>2, <1>3, AddRegionIs DEF AddsTo
<1>5. \A t \in C.traces : \A x \in ToSet(t[1]) : u \in j.blk[x].heads
  BY <1>2, <1>3, <1>4 DEF Adds, FreshOK, HeadsOK
<1>6. C.code # None =>
        \A x \in C.code.blocks : u \in j.blk[x].heads /\ C.code.ins[x] = j.blk[x].ins
  BY <1>3, <1>4 DEF Adds, FreshOK, HeadsOK, CurrentOK
<1>7. FreshOK(Record(j, u, C))
  BY <1>3, <1>4, <1>5, <1>6, RecordFresh DEF Adds
<1> QED BY <1>4, <1>7 DEF Recorded, j

(* With --aug=0 the code is made of blocks that know its head.             *)
LEMMA RegionClosedFresh ==
  ASSUME Aug = "none", NEW h, CanClose(prog, h, cBB), FreshOK(h), cBB \in Addr,
         NEW region \in Seq(Addr), region # <<>>, region[1] = cBB,
         ToSet(region) \subseteq Done(h), NEW typed, NEW up
  PROVE  FreshOK(RegionClosed(h, region, typed, up))
<1> DEFINE r == Recorded(h, cBB, region)
           n == RegionClosed(h, region, typed, up)
<1>1. CanClose(prog, r, cBB) /\ FreshOK(r)
  BY RecordedOK, RecordedFresh
<1>2. ClosesTo(prog, r, cBB, RegionOf(r, up), n)
  BY RegionClosedIs
<1>3. RegionOf(r, up) = TraceBlocks(r, cBB)
  BY DEF RegionOf
<1> HIDE DEF r, n
<1>4. PICK C : Closes(prog, r, cBB, TraceBlocks(r, cBB), C) /\ n = Record(r, cBB, C)
  BY <1>2, <1>3 DEF ClosesTo
<1>5. CanRecord(prog, r, cBB, C)
  BY <1>1, <1>4, ClosedOK
<1>6. cBB \in Live(r)
  BY <1>1 DEF CanClose, Done
<1>7. \A t \in r.blk[cBB].traces : \A x \in ToSet(t[1]) : cBB \in r.blk[x].heads
  BY <1>1, <1>6 DEF FreshOK, HeadsOK
<1>8. \A t \in C.traces : \A x \in ToSet(t[1]) : cBB \in r.blk[x].heads
  BY <1>4, <1>7 DEF Closes
<1>9. C.code # None =>
        \A x \in C.code.blocks : cBB \in r.blk[x].heads /\ C.code.ins[x] = r.blk[x].ins
  BY <1>4, <1>7 DEF Closes, TraceBlocks
<1> QED BY <1>1, <1>4, <1>5, <1>8, <1>9, RecordFresh DEF n

-----------------------------------------------------------------------------
(* The steps of the main loop.                                             *)
Fresh == FreshOK(g)

LEMMA SameFresh ==
  ASSUME NEW h, NEW n, n.blk = h.blk, FreshOK(h)
  PROVE  FreshOK(n)
BY DEF FreshOK, HeadsOK, CurrentOK, Live

LEMMA NoBlocksFresh ==
  ASSUME NEW h, Live(h) = {}
  PROVE  FreshOK(h)
BY DEF FreshOK, HeadsOK, CurrentOK

LEMMA OneBlockFresh ==
  ASSUME NEW p, NEW h, GraphOK(p, h), Live(h) = {}, NEW q \in Addr
  PROVE  FreshOK(newBlock(h, q))
<1>1. h.blk[q] = None
  BY DEF Live
<1> QED BY <1>1, NoBlocksFresh, NewBlockFollows, FollowsOK

LEMMA InitFresh == Init => Fresh
<1> SUFFICES ASSUME Init PROVE Fresh
  OBVIOUS
<1>1. GraphOK(prog, g) /\ g = newBlock(EmptyGraph, 0) /\ 0 \in Addr
  BY InitIInv, ProgramsAssumption DEF Init, IInv, BlocksOK
<1> DEFINE f == [a \in Addr |-> IF a = 0 THEN FreshBlock ELSE None]
<1>2. g.blk = f
  <2> DEFINE e == EmptyGraph
             k == [a \in Addr |-> None]
  <2>1. e = [blk |-> k, insMap |-> k, rf |-> NewFinder]
    BY DEF EmptyGraph
  <2> HIDE DEF e
  <2>2. g.blk = [k EXCEPT ![0] = FreshBlock]
    BY <1>1, <2>1 DEF newBlock, e
  <2> QED BY <2>2
<1>3. FreshBlock.traces = {} /\ FreshBlock.code = None
  BY DEF FreshBlock
<1>4. Live(g) \subseteq {0} /\ g.blk[0] = FreshBlock
  BY <1>1, <1>2 DEF Live
<1> HIDE DEF f
<1> QED BY <1>3, <1>4 DEF Fresh, FreshOK, HeadsOK, CurrentOK

LEMMA AppendedFresh ==
  ASSUME IInv, Fresh, NotReady, prog[pc].kind # "brl"
  PROVE  FreshOK(Appended)
<1> DEFINE h == Building(g)
<1>1. Growing(prog, h, cBB, pc) /\ h.blk = g.blk
  BY BuildingOK
<1>2. Appended = addIns(h, cBB, pc)
  BY DEF Appended
<1> HIDE DEF h
<1>3. FreshOK(h) /\ GraphOK(prog, h)
  BY <1>1, SameFresh DEF Fresh, Growing
<1>4. Follows(h, addIns(h, cBB, pc))
  BY <1>1, AddInsFollows
<1> QED BY <1>2, <1>3, <1>4, FollowsOK

LEMMA BuildPlainFresh ==
  ASSUME IInv, Fresh, BuildPlain
  PROVE  Fresh'
<1>1. NotReady /\ prog[pc].kind # "brl" /\ g' = Appended
  BY DEF BuildPlain, Kind
<1> QED BY <1>1, AppendedFresh DEF Fresh

LEMMA BuildStopFresh ==
  ASSUME IInv, Fresh, BuildStop
  PROVE  Fresh'
<1>1. NotReady /\ prog[pc].kind # "brl" /\ g' = Appended
  BY DEF BuildStop, Kind
<1> QED BY <1>1, AppendedFresh DEF Fresh

LEMMA BuildSyncFresh ==
  ASSUME IInv, Fresh, BuildSync
  PROVE  Fresh'
<1> DEFINE h == Appended
           d == dropAllBBs(h)
<1>1. NotReady /\ prog[pc].kind = "sync" /\ g' = newBlock(d, pc + 1)
  BY DEF BuildSync, Kind
<1>2. prog \in Programs /\ pc \in Addr
  BY <1>1 DEF NotReady, IInv, BlocksOK
<1>3. h.rf \in FinderType
  <2>1. GraphOK(prog, h)
    BY <1>1, AppendedOK
  <2> HIDE DEF h
  <2> QED BY <2>1 DEF GraphOK, GraphType
<1>4. pc + 1 \in Addr
  BY <1>1, <1>2, NextWord
<1>5. GraphOK(prog, d) /\ Live(d) = {}
  BY <1>3, DropAllOK
<1> HIDE DEF d
<1>6. FreshOK(newBlock(d, pc + 1))
  BY <1>4, <1>5, OneBlockFresh
<1> QED BY <1>1, <1>6 DEF Fresh

LEMMA BuildEndFresh ==
  ASSUME IInv, Fresh, BuildEnd
  PROVE  Fresh'
<1> DEFINE h == Building(g)
           d == Ending(prog, h, cBB, pc)
<1>1. PICK q \in NextPcs(prog, pc) : g' = getNextBlock(prog, d, cBB, q) /\ CanEnd(h, d, q)
  BY AtEnd
<1>2. EndsBlock(prog[pc].kind)
  BY DEF BuildEnd, Kind
<1> HIDE DEF h, d
<1>3. /\ h.blk = g.blk /\ Growing(prog, h, cBB, pc) /\ d = Ending(prog, h, cBB, pc)
      /\ Ended(prog, d.blk[cBB]) /\ CanFind(prog, d, cBB, q)
  BY <1>1 DEF CanEnd
<1>4. FreshOK(d)
  <2>1. FreshOK(h) /\ GraphOK(prog, h)
    BY <1>3, SameFresh DEF Fresh, Growing
  <2>2. Follows(h, d)
    BY <1>2, <1>3, EndingFollows
  <2> QED BY <2>1, <2>2, FollowsOK
<1>5. GraphOK(prog, d) /\ Follows(d, getNextBlock(prog, d, cBB, q))
  BY <1>3, GetNextFollows DEF CanFind
<1> QED BY <1>1, <1>4, <1>5, FollowsOK DEF Fresh

LEMMA RunEndFresh ==
  ASSUME IInv, Fresh, RunEnd
  PROVE  Fresh'
<1>1. PICK q \in NextPcs(prog, pc) :
        g' = getNextBlock(prog, g, cBB, q) /\ CanFind(prog, g, cBB, q) /\ Ended(prog, g.blk[cBB])
  BY AtRunEnd
<1>2. GraphOK(prog, g) /\ Follows(g, getNextBlock(prog, g, cBB, q))
  BY <1>1, GetNextFollows DEF CanFind
<1> QED BY <1>1, <1>2, FollowsOK DEF Fresh

LEMMA RunReturnFresh ==
  ASSUME IInv, Fresh, RunReturn
  PROVE  Fresh'
<1>1. g' = findBlock(prog, g, unit, pc) /\ CanFind(prog, g, unit, pc)
  BY AtRunReturn
<1>2. GraphOK(prog, g) /\ Follows(g, findBlock(prog, g, unit, pc))
  BY <1>1, FindFollows DEF CanFind
<1> QED BY <1>1, <1>2, FollowsOK DEF Fresh

LEMMA PostFresh ==
  ASSUME IInv, Fresh, Post
  PROVE  Fresh'
<1> DEFINE n == IF g.blk[pc] = None THEN newBlockAfter(g, pc, cBB) ELSE g
<1>1. mode = "post"
  BY DEF Post
<1>2. GraphOK(prog, g) /\ cBB \in Live(g) /\ pc \in Addr
  BY <1>1 DEF IInv, BlocksOK
<1>3. \/ g' = n
      \/ \E reused \in BOOLEAN : g' = [n EXCEPT !.rf = updateRegionHeads(n.rf, pc, cBB, reused)]
  BY DEF Post
<1>4. FreshOK(n) /\ n \in GraphType
  <2>1. CASE g.blk[pc] = None
    <3> DEFINE m == newBlockAfter(g, pc, cBB)
    <3>1. GraphOK(prog, m) /\ Follows(g, m)
      BY <1>2, <2>1, NewBlockAfterOK, NewBlockAfterFollows DEF HasNewAfter
    <3>2. n = m
      BY <2>1
    <3> HIDE DEF m, n
    <3> QED BY <1>2, <3>1, <3>2, FollowsOK DEF Fresh, GraphOK
  <2>2. CASE g.blk[pc] # None
    <3>1. n = g
      BY <2>2
    <3> HIDE DEF n
    <3> QED BY <1>2, <3>1 DEF Fresh, GraphOK
  <2> QED BY <2>1, <2>2
<1> HIDE DEF n
<1>5. g'.blk = n.blk
  BY <1>3, <1>4 DEF GraphType
<1> QED BY <1>4, <1>5, SameFresh DEF Fresh

LEMMA ExecuteJITFresh ==
  ASSUME Aug = "none", IInv, Fresh, ExecuteJIT
  PROVE  Fresh'
<1>1. /\ prog \in Programs /\ GraphOK(prog, g) /\ cBB \in Done(g) /\ cBB \in Addr
      /\ Live(g) = Done(g)
  BY AtDispatch
<1>2. g \in GraphType /\ g.rf \in FinderType /\ TraceOK(g)
  BY <1>1 DEF GraphOK, GraphType
<1>3. CASE RegionComplete(g.rf, cBB)
  <2> DEFINE r == getRegion(update(g.rf, cBB))
             h == [g EXCEPT !.rf = getRegion(update(@, cBB))]
             region == g.rf.hist
  <2>1. PICK typed \in {TRUE, EnableBoth}, up \in (IF Aug = "head" THEN BOOLEAN ELSE {TRUE}) :
          g' = RegionClosed(h, region, typed, up)
    BY <1>3 DEF ExecuteJIT, Dispatched
  <2>2. g.rf.on /\ cBB = g.rf.head /\ region # <<>>
    BY <1>3 DEF RegionComplete
  <2>3. /\ region \in Seq(Addr) /\ region[1] = cBB /\ ToSet(region) \subseteq Done(g)
        /\ g.blk[cBB].code = None
    BY <1>2, <2>2 DEF TraceOK, FinderType
  <2>4. r \in FinderType /\ ~r.on
    <3>1. update(g.rf, cBB) \in FinderType /\ ~update(g.rf, cBB).on
      BY <1>1, <1>2, <1>3, UpdateType
    <3> QED BY <3>1, GetRegionType
  <2> HIDE DEF r
  <2>5. h.rf = r /\ h.blk = g.blk /\ h = [g EXCEPT !.rf = r]
    BY <1>2 DEF r
  <2> HIDE DEF h, region
  <2>6. Live(h) = Live(g) /\ Done(h) = Done(g) /\ FreshOK(h)
    BY <2>5, SameFresh DEF Live, Done, Fresh
  <2>7. GraphOK(prog, h)
    <3>1. TraceOK(h)
      BY <2>4, <2>5 DEF TraceOK
    <3> QED BY <1>1, <2>4, <2>5, <3>1, FinderFrame
  <2>8. CanClose(prog, h, cBB)
    BY <1>1, <2>3, <2>4, <2>5, <2>6, <2>7 DEF CanClose
  <2>9. FreshOK(RegionClosed(h, region, typed, up))
    BY <1>1, <2>2, <2>3, <2>6, <2>8, RegionClosedFresh
  <2> QED BY <2>1, <2>9 DEF Fresh
<1>4. CASE ~RegionComplete(g.rf, cBB)
  <2>1. g' = [g EXCEPT !.rf = update(@, cBB)]
    BY <1>4 DEF ExecuteJIT, Dispatched
  <2>2. g'.blk = g.blk
    BY <1>4, <2>1, SeenOK
  <2> QED BY <2>2, SameFresh DEF Fresh
<1> QED BY <1>3, <1>4

LEMMA ShutdownFresh ==
  ASSUME IInv, Shutdown
  PROVE  Fresh'
<1>1. g' = dropAllBBs(g) /\ g.rf \in FinderType
  BY DEF Shutdown, IInv, BlocksOK, GraphOK, GraphType
<1>2. Live(g') = {}
  BY <1>1, DropAllOK
<1> QED BY <1>2, NoBlocksFresh DEF Fresh

LEMMA NextFresh ==
  ASSUME Aug = "none", IInv, Fresh, [Next]_vars
  PROVE  Fresh'
<1>1. CASE BuildPlain
  BY <1>1, BuildPlainFresh
<1>2. CASE BuildEnd
  BY <1>2, BuildEndFresh
<1>3. CASE BuildSync
  BY <1>3, BuildSyncFresh
<1>4. CASE BuildStop
  BY <1>4, BuildStopFresh
<1>5. CASE ExecuteJIT
  BY <1>5, ExecuteJITFresh
<1>6. CASE RunEnd
  BY <1>6, RunEndFresh
<1>7. CASE RunReturn
  BY <1>7, RunReturnFresh
<1>8. CASE Post
  BY <1>8, PostFresh
<1>9. CASE Shutdown
  BY <1>9, ShutdownFresh
<1>10. CASE UNCHANGED g
  BY <1>10 DEF Fresh
<1>11. RunPlain \/ RunTrap \/ CfgWithin \/ CfgEdge \/ CfgAbort \/ Interrupt \/ Exited
         \/ UNCHANGED vars => UNCHANGED g
  BY DEF RunPlain, RunTrap, CfgWithin, CfgEdge, CfgAbort, Interrupt, Exited, vars
<1> QED BY <1>1, <1>2, <1>3, <1>4, <1>5, <1>6, <1>7, <1>8, <1>9, <1>10, <1>11 DEF Next

(* Fresh is the two properties.                                            *)
LEMMA FreshHeads == Fresh => RegionHeadsRecorded
<1> SUFFICES ASSUME Fresh, NEW b \in Live(g),
                    NEW x \in TraceBlocks(g, b)
                              \cup (IF g.blk[b].code = None THEN {} ELSE g.blk[b].code.blocks)
             PROVE  b \in g.blk[x].heads
  BY DEF RegionHeadsRecorded
<1>1. CASE x \in TraceBlocks(g, b)
  BY <1>1 DEF Fresh, FreshOK, HeadsOK, TraceBlocks
<1>2. CASE g.blk[b].code # None /\ x \in g.blk[b].code.blocks
  BY <1>2 DEF Fresh, FreshOK, HeadsOK
<1> QED BY <1>1, <1>2

LEMMA FreshCode == Fresh => CodeIsCurrent
BY DEF Fresh, FreshOK, CurrentOK, CodeIsCurrent

LEMMA AlwaysFresh == Aug = "none" => (Spec => []Fresh)
<1> SUFFICES ASSUME Aug = "none" PROVE Spec => []Fresh
  OBVIOUS
<1>1. Init => Fresh
  BY InitFresh
<1>2. IInv /\ Fresh /\ [Next]_vars => Fresh'
  BY NextFresh
<1> QED BY <1>1, <1>2, InvariantHolds, PTL DEF Spec

-----------------------------------------------------------------------------
(* cfgInRegions (basicBlock.hh) holds every head whose recorded or         *)
(* compiled regions include the block, so dropCompiledCode, called by      *)
(* split, reaches all the code made from it.                               *)
THEOREM HeadsAlwaysRecorded == Aug = "none" => (Spec => []RegionHeadsRecorded)
<1>1. Fresh => RegionHeadsRecorded
  BY FreshHeads
<1> QED BY <1>1, AlwaysFresh, PTL

(* No split and no new region leaves code behind whose copy of a block's   *)
(* instructions differs from the block's vecIns: regionCFG::run executes   *)
(* the blocks as they are now.                                             *)
THEOREM CodeStaysCurrent == Aug = "none" => (Spec => []CodeIsCurrent)
<1>1. Fresh => CodeIsCurrent
  BY FreshCode
<1> QED BY <1>1, AlwaysFresh, PTL

-----------------------------------------------------------------------------
(***************************************************************************)
(* The traces the finder collects and the regions recorded from them are   *)
(* paths of the graph of blocks, whatever is split or looked up meanwhile, *)
(* and with --aug=0 its edges are transfers the guest can make.            *)
(***************************************************************************)
(* The finder's trace follows edges, and so do the recorded regions, which *)
(* close, and whose blocks know their head.                                *)
IsPathIn(h, t) == \A i \in 1 .. Len(t) - 1 : t[i + 1] \in h.blk[t[i]].succs

LoopIn(h, b, t) ==
  /\ \A x \in ToSet(t) : b \in h.blk[x].heads
  /\ IsPathIn(h, t)
  /\ b \in h.blk[Last(t)].succs

PathsOK(h) ==
  /\ \A b \in Live(h) : \A s \in h.blk[b].traces : LoopIn(h, b, s[1])
  /\ h.rf.on => IsPathIn(h, h.rf.hist)

-----------------------------------------------------------------------------
(* What keeps paths paths between h and n: a finished block loses an edge  *)
(* only when the collection and the regions of its heads are gone.         *)
Steady(h, n) ==
  /\ \A x \in Done(h) :
       \/ h.blk[x].succs \subseteq n.blk[x].succs
       \/ /\ ~n.rf.on
          /\ \A b \in h.blk[x].heads : b \in Live(n) => n.blk[b].traces = {}
  /\ n.rf.on => n.rf = h.rf

Trails(h, n) == Follows(h, n) /\ Steady(h, n)

(* The members of a path among finished blocks.                            *)
LEMMA PathMembers ==
  ASSUME NEW h, NEW t \in Seq(Addr), ToSet(t) \subseteq Done(h)
  PROVE  /\ \A i \in 1 .. Len(t) : t[i] \in ToSet(t) /\ t[i] \in Done(h)
         /\ t # <<>> => Last(t) \in ToSet(t) /\ Last(t) \in Done(h)
<1>1. Len(t) \in Nat /\ \A i \in 1 .. Len(t) : t[i] \in ToSet(t)
  BY ToSetIndex
<1>2. t # <<>> => Last(t) \in ToSet(t)
  <2>1. t # <<>> => Len(t) \in 1 .. Len(t)
    OBVIOUS
  <2> QED BY <2>1, <1>1 DEF Last
<1> QED BY <1>1, <1>2

LEMMA TrailsOK ==
  ASSUME NEW p, NEW h, NEW n, GraphOK(p, h), PathsOK(h), Trails(h, n)
  PROVE  PathsOK(n)
<1>1. \A b \in Live(h) : TracesOK(Done(h), b, h.blk[b]) /\ h.blk[b] \in BlockType
  BY DEF GraphOK, GraphType, BlockOK, Live
<1>2. ASSUME NEW b \in Live(n), NEW s \in n.blk[b].traces
      PROVE  LoopIn(n, b, s[1])
  <2> DEFINE t == s[1]
  <2>1. b \in Live(h) /\ s \in h.blk[b].traces
    BY <1>2 DEF Trails, Follows, Clean, Lesser
  <2>2. t \in Seq(Addr) /\ t # <<>> /\ ToSet(t) \subseteq Done(h)
    BY <2>1, <1>1 DEF TracesOK, BlockType
  <2>3. LoopIn(h, b, t)
    BY <2>1 DEF PathsOK
  <2> HIDE DEF t
  <2>4. \A x \in ToSet(t) : /\ b \in n.blk[x].heads
                            /\ h.blk[x].succs \subseteq n.blk[x].succs
    <3> SUFFICES ASSUME NEW x \in ToSet(t)
                 PROVE  b \in n.blk[x].heads /\ h.blk[x].succs \subseteq n.blk[x].succs
      OBVIOUS
    <3>1. x \in Done(h) /\ b \in h.blk[x].heads
      BY <2>2, <2>3 DEF LoopIn
    <3>2. b \in n.blk[x].heads
      BY <3>1 DEF Trails, Follows
    <3>3. n.blk[b].traces # {}
      BY <1>2
    <3> QED BY <3>1, <3>2, <3>3, <1>2 DEF Trails, Steady
  <2>5. /\ \A i \in 1 .. Len(t) - 1 : t[i] \in ToSet(t)
        /\ Last(t) \in ToSet(t)
    <3>1. \A i \in 1 .. Len(t) - 1 : i \in 1 .. Len(t)
      BY <2>2
    <3> QED BY <2>2, <3>1, PathMembers
  <2>6. LoopIn(n, b, t)
    BY <2>3, <2>4, <2>5 DEF LoopIn, IsPathIn
  <2> QED BY <2>6 DEF t
<1>3. ASSUME n.rf.on PROVE IsPathIn(n, n.rf.hist)
  <2> DEFINE t == h.rf.hist
  <2>1. n.rf = h.rf /\ IsPathIn(h, t) /\ t \in Seq(Addr) /\ ToSet(t) \subseteq Done(h)
    BY <1>3 DEF Trails, Steady, PathsOK, GraphOK, GraphType, FinderType, TraceOK
  <2> HIDE DEF t
  <2>2. \A i \in 1 .. Len(t) - 1 : t[i] \in Done(h)
    <3>1. \A i \in 1 .. Len(t) - 1 : i \in 1 .. Len(t)
      BY <2>1
    <3> QED BY <2>1, <3>1, PathMembers
  <2>3. \A x \in Done(h) : h.blk[x].succs \subseteq n.blk[x].succs
    BY <1>3 DEF Trails, Steady
  <2>4. IsPathIn(n, t)
    BY <2>1, <2>2, <2>3 DEF IsPathIn
  <2> QED BY <2>1, <2>4 DEF t
<1> QED BY <1>2, <1>3 DEF PathsOK

LEMMA TrailsTrans ==
  ASSUME NEW h, NEW m, NEW n, Trails(h, m), Trails(m, n)
  PROVE  Trails(h, n)
<1>1. Follows(h, n)
  BY FollowsTrans DEF Trails
<1>2. n.rf.on => n.rf = h.rf /\ m.rf.on
  BY DEF Trails, Steady
<1>3. ASSUME NEW x \in Done(h)
      PROVE  \/ h.blk[x].succs \subseteq n.blk[x].succs
             \/ /\ ~n.rf.on
                /\ \A b \in h.blk[x].heads : b \in Live(n) => n.blk[b].traces = {}
  <2>1. x \in Done(m) /\ h.blk[x].heads \subseteq m.blk[x].heads
    BY DEF Trails, Follows
  <2>2. CASE h.blk[x].succs \subseteq m.blk[x].succs
    BY <2>1, <2>2 DEF Trails, Steady
  <2>3. CASE ~(h.blk[x].succs \subseteq m.blk[x].succs)
    <3>1. ~m.rf.on /\ \A b \in h.blk[x].heads : b \in Live(m) => m.blk[b].traces = {}
      BY <2>3 DEF Trails, Steady
    <3> SUFFICES ASSUME NEW b \in h.blk[x].heads, b \in Live(n) PROVE n.blk[b].traces = {}
      BY <3>1, <1>2
    <3> QED BY <3>1 DEF Trails, Follows, Clean, Lesser
  <2> QED BY <2>2, <2>3
<1> QED BY <1>1, <1>2, <1>3 DEF Trails, Steady

(* When no finished block loses an edge.                                   *)
LEMMA GrowsTrails ==
  ASSUME NEW h, NEW n, Follows(h, n), n.rf.on => n.rf = h.rf,
         \A x \in Done(h) : h.blk[x].succs \subseteq n.blk[x].succs
  PROVE  Trails(h, n)
BY DEF Trails, Steady

LEMMA SameTrails ==
  ASSUME NEW h, NEW n, n.blk = h.blk, n.rf.on => n.rf = h.rf
  PROVE  Trails(h, n)
BY SameBlocks, GrowsTrails

-----------------------------------------------------------------------------
(* The operations on the graph.                                            *)
LEMMA AddSuccessorTrails ==
  ASSUME NEW p, NEW h, GraphOK(p, h), NEW b \in Live(h), NEW s \in Live(h)
  PROVE  Trails(h, addSuccessor(h, b, s))
<1> DEFINE n == addSuccessor(h, b, s)
<1>1. HasEdge(p, h, b, s)
  BY AddSuccessorOK
<1>2. n.rf = h.rf /\ \A a \in Live(h) : h.blk[a].succs \subseteq n.blk[a].succs
  BY <1>1 DEF HasEdge
<1>3. Follows(h, n)
  BY AddSuccessorFollows
<1> HIDE DEF n
<1>4. Trails(h, n)
  BY <1>2, <1>3, GrowsTrails DEF Done
<1> QED BY <1>4 DEF n

LEMMA NewBlockAfterTrails ==
  ASSUME NEW p, NEW h, GraphOK(p, h), NEW b \in Live(h), NEW q \in Addr, h.blk[q] = None
  PROVE  Trails(h, newBlockAfter(h, q, b))
<1> DEFINE n == newBlockAfter(h, q, b)
<1>1. HasNewAfter(p, h, b, q)
  BY NewBlockAfterOK
<1>2. n.rf = h.rf /\ \A a \in Live(h) : h.blk[a].succs \subseteq n.blk[a].succs
  BY <1>1 DEF HasNewAfter
<1>3. Follows(h, n)
  BY NewBlockAfterFollows
<1> HIDE DEF n
<1>4. Trails(h, n)
  BY <1>2, <1>3, GrowsTrails DEF Done
<1> QED BY <1>4 DEF n

LEMMA SetReadOnlyTrails ==
  ASSUME NEW p, NEW h, GraphOK(p, h), NEW b \in Live(h), Ended(p, h.blk[b])
  PROVE  Trails(h, setReadOnly(h, b))
<1> DEFINE n == setReadOnly(h, b)
<1>1. /\ n.rf = h.rf /\ n.blk[b].succs = h.blk[b].succs
      /\ \A a \in Addr \ {b} : n.blk[a] = h.blk[a]
  BY SetReadOnlyOK
<1>2. Follows(h, n)
  BY SetReadOnlyFollows
<1> HIDE DEF n
<1>3. \A a \in Done(h) : h.blk[a].succs \subseteq n.blk[a].succs
  BY <1>1 DEF Done, Live
<1>4. Trails(h, n)
  BY <1>1, <1>2, <1>3, GrowsTrails
<1> QED BY <1>4 DEF n

(* Only the block that is cut loses edges.                                 *)
LEMMA SplitTrails ==
  ASSUME NEW p, NEW h, NEW x, NEW q, CanSplit(p, h, x, q)
  PROVE  Trails(h, split(p, h, x, q))
<1> DEFINE o == Quiet(h)
           d == Dropped(h, x)
           n == split(p, h, x, q)
<1>1. /\ o.blk = h.blk /\ ~o.rf.on /\ d.rf = o.rf
      /\ GraphOK(p, o) /\ x \in Live(o)
      /\ GraphOK(p, d) /\ d.blk[q] = None /\ q \in Addr
      /\ Live(d) = Live(h) /\ Done(d) = Done(h) /\ Done(o) = Done(h)
      /\ \A a \in Live(h) : d.blk[a].succs = h.blk[a].succs
      /\ \/ n = DelaySlotBlock(d, q) /\ p[q].kind \in {"alu", "nc"}
         \/ n = MoveTail(d, x, q) /\ CanMoveTail(p, d, x, q, q - x)
  BY SplitSteps DEF SplitInSteps, CanSplit
<1>2. /\ Follows(o, d) /\ d.blk[x].heads = o.blk[x].heads
      /\ \A a \in o.blk[x].heads : Clean(d.blk[a])
  <2>1. d = dropCompiledCode(o, x)
    BY DEF Dropped
  <2> HIDE DEF o, d
  <2> QED BY <2>1, <1>1, DropFollows
<1> HIDE DEF o, d, n
<1>3. Trails(h, o)
  BY <1>1, SameTrails
<1>4. Trails(o, d)
  BY <1>1, <1>2, GrowsTrails DEF Done
<1>5. Trails(h, d)
  BY <1>3, <1>4, TrailsTrans
<1>6. CASE n = DelaySlotBlock(d, q) /\ p[q].kind \in {"alu", "nc"}
  <2>1. n.rf = d.rf /\ \A a \in Addr \ {q} : n.blk[a] = d.blk[a]
    BY <1>1, <1>6, DelaySlotOK
  <2>2. Follows(d, n)
    BY <1>1, <1>6, DelaySlotFollows
  <2>3. \A a \in Done(d) : a \in Addr \ {q}
    BY <1>1 DEF Done, Live
  <2>4. Trails(d, n)
    BY <2>1, <2>2, <2>3, GrowsTrails
  <2> QED BY <1>5, <2>4, TrailsTrans DEF n
<1>7. CASE n = MoveTail(d, x, q) /\ CanMoveTail(p, d, x, q, q - x)
  <2>1. \A a \in d.blk[x].heads : d.blk[a].code = None /\ d.blk[a].traces = {}
    BY <1>2 DEF Clean
  <2>2. Follows(d, n)
    BY <1>7, <2>1, MoveTailFollows
  <2>3. n.rf = d.rf /\ \A a \in Live(d) \ {x} : n.blk[a].succs = d.blk[a].succs
    <3>1. HasMovedTail(p, d, x, q)
      BY <1>7, MoveTailOK
    <3> QED BY <3>1, <1>7 DEF HasMovedTail
  <2>4. \A a \in d.blk[x].heads : a \in Live(n) => n.blk[a].traces = {}
    BY <2>1, <2>2 DEF Follows, Clean, Lesser
  <2>5. Trails(d, n)
    BY <1>1, <2>2, <2>3, <2>4 DEF Trails, Steady, Done
  <2> QED BY <1>5, <2>5, TrailsTrans DEF n
<1> QED BY <1>1, <1>6, <1>7

(* Looking a block up leaves an edge to it, if there is one.               *)
LEMMA FindTrails ==
  ASSUME NEW p, NEW h, NEW b, NEW q, CanFind(p, h, b, q)
  PROVE  LET n == findBlock(p, h, b, q) IN
         /\ Trails(h, n)
         /\ q \in n.blk[b].succs \/ (n = h /\ h.blk[q] = None)
<1> DEFINE n == findBlock(p, h, b, q)
           x == h.insMap[q]
<1>1. /\ p \in Programs /\ GraphOK(p, h) /\ b \in Live(h) /\ q \in Addr
      /\ \A y \in Live(h) : Ended(p, h.blk[y]) \/ h.blk[y].ins = <<>>
  BY DEF CanFind
<1>2. CASE n = h /\ (q \in h.blk[b].succs \/ h.blk[q] = None)
  BY <1>2, SameTrails
<1>3. CASE n = addSuccessor(h, b, q) /\ h.blk[q] # None
  <2>1. q \in Live(h)
    BY <1>1, <1>3 DEF Live
  <2> HIDE DEF n
  <2>2. HasEdge(p, h, b, q) /\ Trails(h, n)
    BY <1>1, <1>3, <2>1, AddSuccessorOK, AddSuccessorTrails
  <2>3. q \in n.blk[b].succs
    BY <1>1, <1>3, <2>2 DEF HasEdge
  <2> QED BY <2>2, <2>3 DEF n
<1>4. CASE n = addSuccessor(split(p, h, x, q), b, q) /\ h.blk[q] = None /\ x # None
  <2> DEFINE s == split(p, h, x, q)
  <2>1. CanSplit(p, h, x, q)
    <3>1. x \in Live(h) /\ q \in ToSet(h.blk[x].ins)
      BY <1>1, <1>4 DEF GraphOK, InsMapOK
    <3>2. h.blk[x].ins # <<>>
      BY <3>1 DEF ToSet
    <3> QED BY <3>1, <3>2, <1>1, <1>4 DEF CanSplit
  <2>2. GraphOK(p, s) /\ Live(s) = Live(h) \cup {q} /\ Trails(h, s)
    BY <2>1, SplitOK, SplitTrails DEF HasSplit
  <2>3. n = addSuccessor(s, b, q)
    BY <1>4
  <2> HIDE DEF s, n
  <2>4. HasEdge(p, s, b, q) /\ Trails(s, n) /\ b \in Live(s)
    BY <1>1, <2>2, <2>3, AddSuccessorOK, AddSuccessorTrails
  <2>5. q \in n.blk[b].succs
    BY <2>3, <2>4 DEF HasEdge
  <2> QED BY <2>2, <2>4, <2>5, TrailsTrans DEF n
<1>5. \/ n = h /\ (q \in h.blk[b].succs \/ h.blk[q] = None)
      \/ n = addSuccessor(h, b, q) /\ h.blk[q] # None
      \/ n = addSuccessor(split(p, h, x, q), b, q) /\ h.blk[q] = None /\ x # None
  BY DEF findBlock
<1> QED BY <1>2, <1>3, <1>4, <1>5

LEMMA GetNextTrails ==
  ASSUME NEW p, NEW h, NEW b, NEW q, CanFind(p, h, b, q), Ended(p, h.blk[b])
  PROVE  LET n == getNextBlock(p, h, b, q) IN Trails(h, n) /\ q \in n.blk[b].succs
<1> DEFINE f == findBlock(p, h, b, q)
           m == IF f.blk[q] = None THEN newBlockAfter(f, q, b) ELSE f
           n == getNextBlock(p, h, b, q)
<1>1. b \in Live(h) /\ q \in Addr /\ p \in Programs
  BY DEF CanFind
<1>2. /\ GraphOK(p, f) /\ Evolves(h, f) /\ Trails(h, f)
      /\ q \in f.blk[b].succs \/ f.blk[q] = None
  BY FindBlockOK, FindTrails DEF HasFound
<1> HIDE DEF f
<1>3. b \in Live(f)
  BY <1>1, <1>2 DEF Evolves
<1>4. GraphOK(p, m) /\ Evolves(f, m) /\ Trails(f, m) /\ q \in m.blk[b].succs
  <2>1. CASE f.blk[q] = None
    <3>1. m = newBlockAfter(f, q, b)
      BY <2>1
    <3> HIDE DEF m
    <3>2. HasNewAfter(p, f, b, q) /\ Trails(f, m)
      BY <1>1, <1>2, <1>3, <2>1, <3>1, NewBlockAfterOK, NewBlockAfterTrails
    <3>3. GraphOK(p, m) /\ Evolves(f, m) /\ q \in m.blk[b].succs
      BY <1>3, <3>1, <3>2 DEF HasNewAfter
    <3> QED BY <3>2, <3>3
  <2>2. CASE f.blk[q] # None
    <3>1. m = f
      BY <2>2
    <3> HIDE DEF m
    <3> QED BY <1>2, <2>2, <3>1, SameTrails DEF Evolves
  <2> QED BY <2>1, <2>2
<1>5. n = setReadOnly(m, b)
  BY DEF getNextBlock, f
<1> HIDE DEF m, n
<1>6. Evolves(h, m) /\ Trails(h, m)
  BY <1>2, <1>4, EvolvesTrans, TrailsTrans
<1>7. b \in Live(m) /\ Ended(p, m.blk[b])
  <2>1. b \in Live(m)
    BY <1>1, <1>6 DEF Evolves
  <2>2. CASE b \in Done(m)
    BY <2>1, <2>2, <1>4 DEF GraphOK, BlockOK, Done
  <2>3. CASE m.blk[b].ins = h.blk[b].ins /\ m.blk[b].term = h.blk[b].term
    BY <2>1, <2>3 DEF Ended
  <2> QED BY <2>1, <2>2, <2>3, <1>1, <1>6 DEF Evolves
<1>8. Trails(m, n) /\ n.blk[b].succs = m.blk[b].succs
  BY <1>4, <1>5, <1>7, SetReadOnlyOK, SetReadOnlyTrails
<1> QED BY <1>4, <1>6, <1>8, TrailsTrans DEF n

(* Building a block touches no finished one.                               *)
LEMMA AddInsTrails ==
  ASSUME NEW p, NEW h, NEW b, NEW a, Growing(p, h, b, a), p[a].kind # "brl"
  PROVE  Trails(h, addIns(h, b, a))
<1> DEFINE n == addIns(h, b, a)
<1>1. HasGrown(p, h, b, a) /\ Follows(h, n)
  BY AddInsOK, AddInsFollows
<1>2. \A x \in Done(h) : x \in Addr \ {b}
  BY DEF Growing, Done, Live
<1>3. n.rf = h.rf /\ \A x \in Done(h) : n.blk[x].succs = h.blk[x].succs
  BY <1>1, <1>2 DEF HasGrown
<1> HIDE DEF n
<1>4. Trails(h, n)
  BY <1>1, <1>3, GrowsTrails
<1> QED BY <1>4 DEF n

LEMMA EndingTrails ==
  ASSUME NEW p, NEW h, NEW b, NEW a, Growing(p, h, b, a), EndsBlock(p[a].kind)
  PROVE  Trails(h, Ending(p, h, b, a))
<1> DEFINE n == Ending(p, h, b, a)
<1>1. HasEnded(p, h, b, a) /\ Follows(h, n)
  BY EndingOK, EndingFollows
<1>2. \A x \in Done(h) : x \in Addr \ {b}
  BY DEF Growing, Done, Live
<1>3. n.rf = h.rf /\ \A x \in Done(h) : n.blk[x].succs = h.blk[x].succs
  BY <1>1, <1>2 DEF HasEnded
<1> HIDE DEF n
<1>4. Trails(h, n)
  BY <1>1, <1>3, GrowsTrails
<1> QED BY <1>4 DEF n

-----------------------------------------------------------------------------
(* A region is recorded: the trace that came back to u is a loop.          *)
LEMMA RecordPaths ==
  ASSUME NEW p, NEW r, NEW u, NEW C, CanRecord(p, r, u, C), PathsOK(r),
         \A s \in C.traces : LoopIn(r, u, s[1])
  PROVE  PathsOK(Record(r, u, C))
<1> DEFINE n == Record(r, u, C)
<1>1. /\ GraphOK(p, r) /\ u \in Live(r) /\ TracesOK(Done(r), u, C) /\ C \in BlockType
      /\ C.heads = r.blk[u].heads
  BY DEF CanRecord
<1>2. /\ Live(n) = Live(r) /\ n.blk[u] = C /\ n.rf = r.rf
      /\ \A a \in Live(r) : n.blk[a].succs = r.blk[a].succs
  BY RecordOK DEF HasRecord, Alike
<1>3. \A a \in Live(r) \ {u} : n.blk[a] = r.blk[a]
  <2>1. r \in GraphType
    BY <1>1 DEF GraphOK
  <2> QED BY <2>1 DEF Record, GraphType, Live
<1> HIDE DEF n
<1>4. \A b \in Live(n) : \A s \in n.blk[b].traces :
        LoopIn(r, b, s[1]) /\ s[1] \in Seq(Addr) /\ s[1] # <<>> /\ ToSet(s[1]) \subseteq Done(r)
  <2>1. \A b \in Live(r) : TracesOK(Done(r), b, r.blk[b]) /\ r.blk[b] \in BlockType
    BY <1>1 DEF GraphOK, GraphType, BlockOK, Live
  <2>2. \A b \in Live(n) : TracesOK(Done(r), b, n.blk[b]) /\ n.blk[b] \in BlockType
    BY <2>1, <1>1, <1>2, <1>3
  <2>3. \A b \in Live(n) : \A s \in n.blk[b].traces : LoopIn(r, b, s[1])
    BY <1>2, <1>3 DEF PathsOK
  <2> QED BY <2>2, <2>3 DEF TracesOK, BlockType
<1>5. \A a \in Done(r) : n.blk[a].heads = r.blk[a].heads /\ n.blk[a].succs = r.blk[a].succs
  BY <1>1, <1>2, <1>3 DEF Done
<1>6. ASSUME NEW b \in Live(n), NEW s \in n.blk[b].traces PROVE LoopIn(n, b, s[1])
  <2> DEFINE t == s[1]
  <2>1. LoopIn(r, b, t) /\ t \in Seq(Addr) /\ t # <<>> /\ ToSet(t) \subseteq Done(r)
    BY <1>4
  <2> HIDE DEF t
  <2>2. /\ \A i \in 1 .. Len(t) - 1 : t[i] \in Done(r)
        /\ Last(t) \in Done(r)
    <3>1. \A i \in 1 .. Len(t) - 1 : i \in 1 .. Len(t)
      BY <2>1
    <3> QED BY <2>1, <3>1, PathMembers
  <2>3. LoopIn(n, b, t)
    BY <1>5, <2>1, <2>2 DEF LoopIn, IsPathIn
  <2> QED BY <2>3 DEF t
<1>7. ASSUME n.rf.on PROVE IsPathIn(n, n.rf.hist)
  <2> DEFINE t == r.rf.hist
  <2>1. n.rf.hist = t /\ IsPathIn(r, t) /\ t \in Seq(Addr) /\ ToSet(t) \subseteq Done(r)
    BY <1>1, <1>2, <1>7 DEF PathsOK, GraphOK, GraphType, FinderType, TraceOK
  <2> HIDE DEF t
  <2>2. \A i \in 1 .. Len(t) - 1 : t[i] \in Done(r)
    <3>1. \A i \in 1 .. Len(t) - 1 : i \in 1 .. Len(t)
      BY <2>1
    <3> QED BY <2>1, <3>1, PathMembers
  <2> QED BY <1>5, <2>1, <2>2 DEF IsPathIn
<1> QED BY <1>6, <1>7 DEF PathsOK, n

LEMMA RecordedPaths ==
  ASSUME NEW p, NEW h, NEW u, CanClose(p, h, u), PathsOK(h),
         NEW region \in Seq(Addr), region # <<>>, region[1] = u,
         ToSet(region) \subseteq Done(h),
         IsPathIn(h, region), u \in h.blk[Last(region)].succs
  PROVE  PathsOK(Recorded(h, u, region))
<1> DEFINE j == joinRegions(h, u, region)
<1>1. GraphOK(p, h) /\ u \in Live(h) /\ Live(h) = Done(h)
  BY DEF CanClose, Done
<1>2. /\ GraphOK(p, j) /\ Alike(h, j) /\ Follows(h, j)
      /\ \A x \in ToSet(region) : u \in j.blk[x].heads
  BY <1>1, JoinOK, JoinFollows
<1> HIDE DEF j
<1>3. u \in Live(j) /\ ToSet(region) \subseteq Done(j) /\ Live(j) = Done(j)
  BY <1>1, <1>2 DEF Alike
<1>4. PathsOK(j)
  <2>1. j.rf = h.rf /\ \A x \in Done(h) : h.blk[x].succs \subseteq j.blk[x].succs
    BY <1>1, <1>2 DEF Alike
  <2> QED BY <1>1, <1>2, <2>1, GrowsTrails, TrailsOK
<1>5. LoopIn(j, u, region)
  <2>1. /\ \A i \in 1 .. Len(region) - 1 : region[i] \in Live(h)
        /\ Last(region) \in Live(h)
    <3>1. \A i \in 1 .. Len(region) - 1 : i \in 1 .. Len(region)
      OBVIOUS
    <3> QED BY <1>1, <3>1, PathMembers
  <2> QED BY <1>2, <2>1 DEF LoopIn, IsPathIn, Alike
<1>6. PICK C : Adds(p, j, u, region, C) /\ addRegion(j, u, region) = Record(j, u, C)
  BY <1>2, <1>3, AddRegionIs DEF AddsTo
<1>7. \A s \in C.traces : LoopIn(j, u, s[1])
  BY <1>3, <1>4, <1>5, <1>6 DEF Adds, PathsOK
<1>8. PathsOK(Record(j, u, C))
  BY <1>4, <1>6, <1>7, RecordPaths DEF Adds
<1> QED BY <1>6, <1>8 DEF Recorded, j

LEMMA RegionClosedPaths ==
  ASSUME NEW h, CanClose(prog, h, cBB), PathsOK(h), cBB \in Addr,
         NEW region \in Seq(Addr), region # <<>>, region[1] = cBB,
         ToSet(region) \subseteq Done(h), NEW typed, NEW up,
         IsPathIn(h, region), cBB \in h.blk[Last(region)].succs
  PROVE  PathsOK(RegionClosed(h, region, typed, up))
<1> DEFINE r == Recorded(h, cBB, region)
           n == RegionClosed(h, region, typed, up)
<1>1. CanClose(prog, r, cBB) /\ PathsOK(r)
  BY RecordedOK, RecordedPaths
<1>2. ClosesTo(prog, r, cBB, RegionOf(r, up), n)
  BY RegionClosedIs
<1> HIDE DEF r, n
<1>3. PICK C : Closes(prog, r, cBB, RegionOf(r, up), C) /\ n = Record(r, cBB, C)
  BY <1>2 DEF ClosesTo
<1>4. CanRecord(prog, r, cBB, C)
  BY <1>1, <1>3, ClosedOK
<1>5. cBB \in Live(r)
  BY <1>1 DEF CanClose, Done
<1>6. \A s \in C.traces : LoopIn(r, cBB, s[1])
  BY <1>1, <1>3, <1>5 DEF Closes, PathsOK
<1> QED BY <1>1, <1>3, <1>4, <1>6, RecordPaths DEF n

-----------------------------------------------------------------------------
(* Where the trace ends: at the block whose run is in progress, or with an *)
(* edge to the block that is dispatched next.                              *)
OnTrail ==
  ~brk =>
    /\ mode = "run" /\ todo = 0 => cBB \in {unit, pc}
    /\ g.rf.on /\ g.rf.hist # <<>> =>
         /\ mode = "loop" => cBB \in g.blk[Last(g.rf.hist)].succs
         /\ mode = "run" => unit = Last(g.rf.hist)
         /\ mode = "post" => \/ pc \in g.blk[Last(g.rf.hist)].succs
                             \/ g.blk[pc] = None /\ cBB = Last(g.rf.hist)

Trailing == PathsOK(g) /\ OnTrail

(* A collection that has just begun follows any graph.                     *)
LEMMA SamePaths ==
  ASSUME NEW h, NEW n, n.blk = h.blk, PathsOK(h),
         n.rf.on => n.rf = h.rf \/ n.rf.hist = <<>>
  PROVE  PathsOK(n)
<1>1. Live(n) = Live(h)
  BY DEF Live
<1>2. \A t : (IsPathIn(h, t) => IsPathIn(n, t)) /\ \A b : LoopIn(h, b, t) => LoopIn(n, b, t)
  BY DEF IsPathIn, LoopIn
<1>3. IsPathIn(n, <<>>)
  BY DEF IsPathIn
<1> QED BY <1>1, <1>2, <1>3 DEF PathsOK

LEMMA NoBlocksPaths ==
  ASSUME NEW h, Live(h) = {}, ~h.rf.on
  PROVE  PathsOK(h)
BY DEF PathsOK

LEMMA InitTrailing == Init => Trailing
<1> SUFFICES ASSUME Init PROVE Trailing
  OBVIOUS
<1>1. Fresh /\ g = newBlock(EmptyGraph, 0) /\ 0 \in Addr /\ mode = "loop"
  BY InitFresh, ProgramsAssumption DEF Init
<1> DEFINE e == EmptyGraph
           k == [a \in Addr |-> None]
<1>2. e = [blk |-> k, insMap |-> k, rf |-> NewFinder] /\ ~NewFinder.on
  BY DEF EmptyGraph, NewFinder
<1> HIDE DEF e
<1>3. g.blk = [k EXCEPT ![0] = FreshBlock] /\ g.rf = NewFinder
  BY <1>1, <1>2 DEF newBlock, e
<1>4. \A b \in Live(g) : g.blk[b] = FreshBlock
  BY <1>3 DEF Live
<1>5. FreshBlock.traces = {}
  BY DEF FreshBlock
<1>6. ~g.rf.on
  BY <1>2, <1>3
<1> QED BY <1>1, <1>4, <1>5, <1>6 DEF Trailing, PathsOK, OnTrail

(* Building a block ends the collection.                                   *)
LEMMA QuietTrailing ==
  ASSUME PathsOK(g'), ~g'.rf.on, mode' # "run"
  PROVE  Trailing'
BY DEF Trailing, OnTrail

LEMMA AppendedPaths ==
  ASSUME IInv, Trailing, NotReady, prog[pc].kind # "brl"
  PROVE  PathsOK(Appended)
<1> DEFINE h == Building(g)
<1>1. Growing(prog, h, cBB, pc) /\ h.blk = g.blk /\ ~h.rf.on
  BY BuildingOK
<1>2. Appended = addIns(h, cBB, pc)
  BY DEF Appended
<1> HIDE DEF h
<1>3. PathsOK(h) /\ GraphOK(prog, h)
  BY <1>1, SamePaths DEF Trailing, Growing
<1>4. Trails(h, addIns(h, cBB, pc))
  BY <1>1, AddInsTrails
<1> QED BY <1>2, <1>3, <1>4, TrailsOK

LEMMA BuildPlainTrailing ==
  ASSUME IInv, Trailing, BuildPlain
  PROVE  Trailing'
<1>1. NotReady /\ prog[pc].kind # "brl" /\ g' = Appended /\ mode' = "loop"
  BY DEF BuildPlain, Kind, NotReady
<1> QED BY <1>1, AppendedPaths, AppendedOK, QuietTrailing

LEMMA BuildStopTrailing ==
  ASSUME IInv, Trailing, BuildStop
  PROVE  Trailing'
<1>1. NotReady /\ prog[pc].kind # "brl" /\ g' = Appended /\ mode' = "loop"
  BY DEF BuildStop, Kind, NotReady
<1> QED BY <1>1, AppendedPaths, AppendedOK, QuietTrailing

LEMMA BuildSyncTrailing ==
  ASSUME IInv, Trailing, BuildSync
  PROVE  Trailing'
<1> DEFINE h == Appended
           d == dropAllBBs(h)
<1>1. NotReady /\ prog[pc].kind = "sync" /\ g' = newBlock(d, pc + 1) /\ mode' = "loop"
  BY DEF BuildSync, Kind, NotReady
<1>2. prog \in Programs /\ pc \in Addr
  BY <1>1 DEF NotReady, IInv, BlocksOK
<1>3. h.rf \in FinderType
  <2>1. GraphOK(prog, h)
    BY <1>1, AppendedOK
  <2> HIDE DEF h
  <2> QED BY <2>1 DEF GraphOK, GraphType
<1>4. pc + 1 \in Addr
  BY <1>1, <1>2, NextWord
<1>5. GraphOK(prog, d) /\ Live(d) = {} /\ ~d.rf.on /\ d.blk = [a \in Addr |-> None]
  BY <1>3, DropAllOK
<1> HIDE DEF d
<1>6. d.blk[pc + 1] = None
  BY <1>4, <1>5
<1>7. ~g'.rf.on
  BY <1>1, <1>4, <1>5, <1>6, NewBlockOK
<1>8. PathsOK(g')
  <2>1. Follows(d, g') /\ Done(d) = {}
    BY <1>1, <1>4, <1>5, <1>6, NewBlockFollows DEF Done
  <2>2. Trails(d, g')
    BY <1>7, <2>1, GrowsTrails
  <2> QED BY <1>5, <2>2, NoBlocksPaths, TrailsOK
<1> QED BY <1>1, <1>7, <1>8, QuietTrailing

LEMMA BuildEndTrailing ==
  ASSUME IInv, Trailing, BuildEnd
  PROVE  Trailing'
<1> DEFINE h == Building(g)
           d == Ending(prog, h, cBB, pc)
<1>1. PICK q \in NextPcs(prog, pc) : g' = getNextBlock(prog, d, cBB, q) /\ CanEnd(h, d, q)
  BY AtEnd
<1>2. EndsBlock(prog[pc].kind) /\ mode' = "loop"
  BY DEF BuildEnd, Kind, NotReady
<1> HIDE DEF h, d
<1>3. /\ h.blk = g.blk /\ ~h.rf.on /\ d.rf = h.rf
      /\ Growing(prog, h, cBB, pc) /\ d = Ending(prog, h, cBB, pc)
      /\ Ended(prog, d.blk[cBB]) /\ CanFind(prog, d, cBB, q)
  BY <1>1 DEF CanEnd
<1>4. PathsOK(d)
  <2>1. PathsOK(h) /\ GraphOK(prog, h)
    BY <1>3, SamePaths DEF Trailing, Growing
  <2>2. Trails(h, d)
    BY <1>2, <1>3, EndingTrails
  <2> QED BY <2>1, <2>2, TrailsOK
<1>5. GraphOK(prog, d) /\ Trails(d, g')
  BY <1>1, <1>3, GetNextTrails DEF CanFind
<1>6. ~g'.rf.on
  BY <1>3, <1>5 DEF Trails, Steady
<1> QED BY <1>2, <1>4, <1>5, <1>6, TrailsOK, QuietTrailing

(* The trace grows by the block dispatched, or is recorded as a region.    *)
LEMMA ExecuteJITTrailing ==
  ASSUME IInv, Trailing, ExecuteJIT
  PROVE  Trailing'
<1>1. /\ prog \in Programs /\ GraphOK(prog, g) /\ cBB \in Done(g) /\ cBB \in Addr
      /\ Live(g) = Done(g) /\ mode = "loop" /\ ~brk /\ BlocksOK
  BY AtDispatch
<1>2. g \in GraphType /\ g.rf \in FinderType /\ TraceOK(g)
  BY <1>1 DEF GraphOK, GraphType
<1> DEFINE t == g.rf.hist
<1>3. /\ g.rf.on => IsPathIn(g, t) /\ (t # <<>> => cBB \in g.blk[Last(t)].succs)
      /\ t \in Seq(Addr)
  BY <1>1, <1>2 DEF Trailing, PathsOK, OnTrail, FinderType
<1>4. /\ unit' = cBB
      /\ \/ mode' = "cfg"
         \/ mode' = "run" /\ todo' = g.blk[cBB].term - cBB + 1
  BY DEF ExecuteJIT
<1>5. mode' = "run" => todo' # 0
  <2>1. g.blk[cBB].term \in Nat /\ cBB \in Nat /\ g.blk[cBB].term >= cBB
    BY <1>1, DoneBlock
  <2> QED BY <1>4, <2>1
<1>6. CASE RegionComplete(g.rf, cBB)
  <2> DEFINE r == getRegion(update(g.rf, cBB))
             h == [g EXCEPT !.rf = getRegion(update(@, cBB))]
  <2>1. PICK typed \in {TRUE, EnableBoth}, up \in (IF Aug = "head" THEN BOOLEAN ELSE {TRUE}) :
          g' = RegionClosed(h, t, typed, up)
    BY <1>6 DEF ExecuteJIT, Dispatched
  <2>2. g.rf.on /\ cBB = g.rf.head /\ t # <<>>
    BY <1>6 DEF RegionComplete
  <2>3. t[1] = cBB /\ ToSet(t) \subseteq Done(g) /\ g.blk[cBB].code = None
    BY <1>2, <2>2 DEF TraceOK
  <2>4. ~g'.rf.on
    BY <1>6, <2>1, ClosingOK
  <2>5. r \in FinderType /\ ~r.on
    <3>1. update(g.rf, cBB) \in FinderType /\ ~update(g.rf, cBB).on
      BY <1>1, <1>2, <1>6, UpdateType
    <3> QED BY <3>1, GetRegionType
  <2> HIDE DEF r
  <2>6. h.rf = r /\ h.blk = g.blk /\ h = [g EXCEPT !.rf = r]
    BY <1>2 DEF r
  <2> HIDE DEF h, t
  <2>7. Live(h) = Live(g) /\ Done(h) = Done(g) /\ PathsOK(h)
    BY <2>5, <2>6, SamePaths DEF Live, Done, Trailing
  <2>8. GraphOK(prog, h)
    <3>1. TraceOK(h)
      BY <2>5, <2>6 DEF TraceOK
    <3> QED BY <1>1, <2>5, <2>6, <3>1, FinderFrame
  <2>9. CanClose(prog, h, cBB)
    BY <1>1, <2>3, <2>5, <2>6, <2>7, <2>8 DEF CanClose
  <2>10. IsPathIn(h, t) /\ cBB \in h.blk[Last(t)].succs
    BY <1>3, <2>2, <2>6 DEF IsPathIn
  <2>11. PathsOK(RegionClosed(h, t, typed, up))
    BY <1>1, <1>3, <2>2, <2>3, <2>7, <2>9, <2>10, RegionClosedPaths
  <2> QED BY <1>4, <1>5, <2>1, <2>4, <2>11 DEF Trailing, OnTrail
<1>7. CASE ~RegionComplete(g.rf, cBB)
  <2> DEFINE r == update(g.rf, cBB)
             s == Append(t, cBB)
  <2>1. g' = [g EXCEPT !.rf = r]
    BY <1>7 DEF ExecuteJIT, Dispatched
  <2>2. r.on => g.rf.on /\ r.hist = s
    BY <1>1, <1>2, UpdateType
  <2> HIDE DEF r
  <2>3. g'.rf = r /\ g'.blk = g.blk
    BY <1>2, <2>1
  <2>4. Last(s) = cBB /\ s # <<>>
    BY <1>1, <1>3 DEF Last
  <2>5. ASSUME r.on PROVE IsPathIn(g, s)
    <3> HIDE DEF t
    <3> SUFFICES ASSUME NEW i \in 1 .. Len(s) - 1 PROVE s[i + 1] \in g.blk[s[i]].succs
      BY DEF IsPathIn
    <3>1. Len(s) = Len(t) + 1 /\ Len(t) \in Nat /\ i \in 1 .. Len(t) /\ s[i] = t[i]
      BY <1>1, <1>3
    <3>2. CASE i < Len(t)
      <4>1. s[i + 1] = t[i + 1] /\ i \in 1 .. Len(t) - 1
        BY <1>1, <1>3, <3>1, <3>2
      <4> QED BY <1>3, <2>2, <2>5, <3>1, <4>1 DEF IsPathIn
    <3>3. CASE i = Len(t)
      <4>1. s[i + 1] = cBB /\ t # <<>> /\ t[i] = Last(t)
        BY <1>1, <1>3, <3>1, <3>3 DEF Last
      <4> QED BY <1>3, <2>2, <2>5, <3>1, <4>1
    <3> QED BY <3>1, <3>2, <3>3
  <2> HIDE DEF t, s
  <2>6. PathsOK(g')
    <3>1. /\ \A b \in Live(g) : \A x \in g.blk[b].traces : LoopIn(g, b, x[1])
          /\ Live(g') = Live(g)
      BY <2>3 DEF Trailing, PathsOK, Live
    <3>2. \A x : (IsPathIn(g, x) => IsPathIn(g', x)) /\ \A b : LoopIn(g, b, x) => LoopIn(g', b, x)
      BY <2>3 DEF IsPathIn, LoopIn
    <3> QED BY <2>2, <2>3, <2>5, <3>1, <3>2 DEF PathsOK
  <2> QED BY <1>4, <1>5, <2>2, <2>3, <2>4, <2>6 DEF Trailing, OnTrail
<1> QED BY <1>6, <1>7

(* Interpreting a block leaves the graph alone until its last instruction. *)
LEMMA RunWithinTrailing ==
  ASSUME IInv, Trailing, RunPlain \/ RunTrap
  PROVE  Trailing'
<1>1. Interpreting /\ UNCHANGED <<g, cBB, mode, unit>> /\ mode = "run"
  BY DEF RunPlain, RunTrap, Interpreting
<1>2. cBB = unit /\ ~brk
  BY <1>1, Interpreted
<1> QED BY <1>1, <1>2 DEF Trailing, OnTrail, PathsOK

LEMMA RunEndTrailing ==
  ASSUME IInv, Trailing, RunEnd
  PROVE  Trailing'
<1>1. PICK q \in NextPcs(prog, pc) :
        /\ g' = getNextBlock(prog, g, cBB, q) /\ cBB' = q /\ pc' = q
        /\ CanFind(prog, g, cBB, q) /\ Ended(prog, g.blk[cBB])
  BY AtRunEnd
<1>2. mode = "run" /\ ~brk /\ UNCHANGED <<mode, unit, brk>>
  BY DEF RunEnd, Interpreting
<1>3. GraphOK(prog, g) /\ Trails(g, g')
  BY <1>1, GetNextTrails DEF CanFind
<1>4. PathsOK(g')
  BY <1>3, TrailsOK DEF Trailing
<1>5. g'.rf.on => g'.rf = g.rf
  BY <1>3 DEF Trails, Steady
<1> QED BY <1>1, <1>2, <1>4, <1>5 DEF Trailing, OnTrail

LEMMA RunReturnTrailing ==
  ASSUME IInv, Trailing, RunReturn
  PROVE  Trailing'
<1>1. g' = findBlock(prog, g, unit, pc) /\ CanFind(prog, g, unit, pc)
  BY AtRunReturn
<1>2. /\ mode = "run" /\ mode' = "post" /\ (todo = 0 \/ brk) /\ UNCHANGED <<cBB, pc, brk>>
      /\ cBB \in Live(g)
  BY DEF RunReturn, IInv, BlocksOK
<1>3. /\ GraphOK(prog, g) /\ Trails(g, g')
      /\ pc \in g'.blk[unit].succs \/ (g' = g /\ g.blk[pc] = None)
  BY <1>1, FindTrails DEF CanFind
<1>4. PathsOK(g')
  BY <1>3, TrailsOK DEF Trailing
<1>5. OnTrail'
  <2> SUFFICES ASSUME ~brk, g'.rf.on, g'.rf.hist # <<>>
               PROVE  \/ pc \in g'.blk[Last(g'.rf.hist)].succs
                      \/ g'.blk[pc] = None /\ cBB = Last(g'.rf.hist)
    BY <1>2 DEF OnTrail
  <2>1. g'.rf = g.rf /\ unit = Last(g.rf.hist) /\ cBB \in {unit, pc}
    BY <1>2, <1>3 DEF Trails, Steady, Trailing, OnTrail
  <2>2. g.blk[pc] = None => cBB = unit
    BY <1>2, <2>1 DEF Live
  <2> QED BY <1>3, <2>1, <2>2
<1> QED BY <1>4, <1>5 DEF Trailing

(* Compiled code runs with no trace being collected.                       *)
LEMMA CfgTrailing ==
  ASSUME IInv, Trailing, CfgWithin \/ CfgEdge \/ CfgAbort
  PROVE  Trailing'
<1>1. mode = "cfg" /\ g' = g /\ mode' # "run"
  BY DEF CfgWithin, CfgEdge, CfgAbort
<1>2. ~g.rf.on
  BY <1>1 DEF IInv, CfgOK
<1> QED BY <1>1, <1>2, QuietTrailing DEF Trailing, PathsOK

(* The end of executeJIT: n is the graph in which the next block is there. *)
HasReached(n) ==
  /\ GraphOK(prog, n) /\ n.rf = g.rf /\ n.blk[pc] # None
  /\ \/ n = g
     \/ /\ n = newBlockAfter(g, pc, cBB) /\ g.blk[pc] = None
        /\ cBB \in Live(g) /\ HasNewAfter(prog, g, cBB, pc)
  /\ g'.blk = n.blk
  /\ g'.rf.on => g'.rf = n.rf \/ g'.rf.hist = <<>>

LEMMA AtPost ==
  ASSUME IInv, Post
  PROVE  \E n : HasReached(n)
<1> DEFINE n == IF g.blk[pc] = None THEN newBlockAfter(g, pc, cBB) ELSE g
<1>1. mode = "post"
  BY DEF Post
<1>2. GraphOK(prog, g) /\ cBB \in Live(g) /\ pc \in Addr
  BY <1>1 DEF IInv, BlocksOK
<1>3. \/ g' = n
      \/ \E reused \in BOOLEAN : g' = [n EXCEPT !.rf = updateRegionHeads(n.rf, pc, cBB, reused)]
  BY DEF Post
<1>4. /\ GraphOK(prog, n) /\ n.rf = g.rf /\ n.blk[pc] # None
      /\ \/ n = g
         \/ /\ n = newBlockAfter(g, pc, cBB) /\ g.blk[pc] = None
            /\ cBB \in Live(g) /\ HasNewAfter(prog, g, cBB, pc)
  <2>1. CASE g.blk[pc] = None
    <3> DEFINE m == newBlockAfter(g, pc, cBB)
    <3>1. HasNewAfter(prog, g, cBB, pc)
      BY <1>2, <2>1, NewBlockAfterOK
    <3>2. n = m
      BY <2>1
    <3>3. GraphOK(prog, m) /\ m.rf = g.rf /\ pc \in Live(m)
      BY <3>1 DEF HasNewAfter
    <3> HIDE DEF m, n
    <3> QED BY <1>2, <2>1, <3>1, <3>2, <3>3 DEF Live, m
  <2>2. CASE g.blk[pc] # None
    BY <1>2, <2>2
  <2> QED BY <2>1, <2>2
<1> HIDE DEF n
<1>5. /\ g'.blk = n.blk
      /\ g'.rf.on => g'.rf = n.rf \/ g'.rf.hist = <<>>
  <2>1. CASE g' = n
    BY <2>1
  <2>2. ASSUME NEW reused \in BOOLEAN,
               g' = [n EXCEPT !.rf = updateRegionHeads(n.rf, pc, cBB, reused)]
        PROVE  /\ g'.blk = n.blk
               /\ g'.rf.on => g'.rf = n.rf \/ g'.rf.hist = <<>>
    <3> DEFINE r == updateRegionHeads(n.rf, pc, cBB, reused)
    <3>1. n.rf \in FinderType /\ n \in GraphType
      BY <1>4 DEF GraphOK, GraphType
    <3>2. r = n.rf \/ ~r.on \/ r.hist = <<>>
      BY <1>2, <3>1, UpdateHeadsType
    <3> HIDE DEF r
    <3>3. g'.rf = r /\ g'.blk = n.blk
      BY <2>2, <3>1 DEF r, GraphType
    <3> QED BY <3>2, <3>3
  <2> QED BY <1>3, <2>1, <2>2
<1> QED BY <1>4, <1>5 DEF HasReached

LEMMA PostTrailing ==
  ASSUME IInv, Trailing, Post
  PROVE  Trailing'
<1>1. mode = "post" /\ cBB' = pc /\ mode' = "loop" /\ UNCHANGED <<pc, brk>>
  BY DEF Post
<1>2. PICK n : HasReached(n)
  BY AtPost
<1>3. GraphOK(prog, g) /\ pc \in Addr
  BY <1>1 DEF IInv, BlocksOK
<1>4. Trails(g, n) /\ (g.blk[pc] = None => pc \in n.blk[cBB].succs)
  <2>1. CASE n = g
    BY <1>2, <2>1, SameTrails DEF HasReached
  <2>2. CASE n # g
    <3>1. /\ n = newBlockAfter(g, pc, cBB) /\ g.blk[pc] = None
          /\ cBB \in Live(g) /\ HasNewAfter(prog, g, cBB, pc)
      BY <1>2, <2>2 DEF HasReached
    <3>2. Trails(g, n)
      BY <1>3, <3>1, NewBlockAfterTrails
    <3>3. pc \in n.blk[cBB].succs
      BY <3>1 DEF HasNewAfter
    <3> QED BY <3>2, <3>3
  <2> QED BY <2>1, <2>2
<1>5. PathsOK(n)
  BY <1>3, <1>4, TrailsOK DEF Trailing
<1>6. PathsOK(g')
  BY <1>2, <1>5, SamePaths DEF HasReached
<1>7. OnTrail'
  <2> SUFFICES ASSUME ~brk, g'.rf.on, g'.rf.hist # <<>>
               PROVE  pc \in g'.blk[Last(g'.rf.hist)].succs
    BY <1>1 DEF OnTrail
  <2> DEFINE t == g.rf.hist
  <2>1. g'.rf = g.rf /\ n.rf = g.rf /\ g'.blk = n.blk
    BY <1>2 DEF HasReached
  <2>2. t \in Seq(Addr) /\ t # <<>> /\ ToSet(t) \subseteq Done(g)
    BY <1>3, <2>1 DEF GraphOK, GraphType, FinderType, TraceOK
  <2>3. pc \in g.blk[Last(t)].succs \/ (g.blk[pc] = None /\ cBB = Last(t))
    BY <1>1, <2>1 DEF Trailing, OnTrail
  <2> HIDE DEF t
  <2>4. Last(t) \in Done(g)
    BY <2>2, PathMembers
  <2>5. g.blk[Last(t)].succs \subseteq n.blk[Last(t)].succs
    BY <1>4, <2>1, <2>4 DEF Trails, Steady
  <2> QED BY <1>4, <2>1, <2>3, <2>5 DEF t
<1> QED BY <1>6, <1>7 DEF Trailing

LEMMA ShutdownTrailing ==
  ASSUME IInv, Shutdown
  PROVE  Trailing'
<1>1. g' = dropAllBBs(g) /\ g.rf \in FinderType /\ mode' = "exit"
  BY DEF Shutdown, IInv, BlocksOK, GraphOK, GraphType
<1>2. Live(g') = {} /\ ~g'.rf.on
  BY <1>1, DropAllOK
<1> QED BY <1>1, <1>2, NoBlocksPaths, QuietTrailing

LEMMA NextTrailing ==
  ASSUME IInv, Trailing, [Next]_vars
  PROVE  Trailing'
<1>1. CASE BuildPlain
  BY <1>1, BuildPlainTrailing
<1>2. CASE BuildEnd
  BY <1>2, BuildEndTrailing
<1>3. CASE BuildSync
  BY <1>3, BuildSyncTrailing
<1>4. CASE BuildStop
  BY <1>4, BuildStopTrailing
<1>5. CASE ExecuteJIT
  BY <1>5, ExecuteJITTrailing
<1>6. CASE RunPlain \/ RunTrap
  BY <1>6, RunWithinTrailing
<1>7. CASE RunEnd
  BY <1>7, RunEndTrailing
<1>8. CASE RunReturn
  BY <1>8, RunReturnTrailing
<1>9. CASE CfgWithin \/ CfgEdge \/ CfgAbort
  BY <1>9, CfgTrailing
<1>10. CASE Post
  BY <1>10, PostTrailing
<1>11. CASE Interrupt
  BY <1>11 DEF Interrupt, Trailing, OnTrail, PathsOK
<1>12. CASE Shutdown
  BY <1>12, ShutdownTrailing
<1>13. CASE Exited \/ UNCHANGED vars
  <2>1. UNCHANGED <<g, cBB, pc, brk, mode, unit, todo>>
    BY <1>13 DEF Exited, vars
  <2> QED BY <2>1 DEF Trailing, OnTrail, PathsOK
<1> QED BY <1>1, <1>2, <1>3, <1>4, <1>5, <1>6, <1>7, <1>8, <1>9, <1>10, <1>11, <1>12, <1>13 DEF Next

LEMMA AlwaysTrailing == Spec => []Trailing
<1>1. Init => Trailing
  BY InitTrailing
<1>2. IInv /\ Trailing /\ [Next]_vars => Trailing'
  BY NextTrailing
<1> QED BY <1>1, <1>2, InvariantHolds, PTL DEF Spec

LEMMA TrailingTrace == IInv /\ Trailing => TraceIsPath
<1> SUFFICES ASSUME IInv, Trailing, g.rf.on, ~brk
             PROVE  /\ ToSet(g.rf.hist) \subseteq Live(g)
                    /\ IsPath(g.rf.hist)
                    /\ mode = "loop" /\ g.rf.hist # <<>> => cBB \in g.blk[Last(g.rf.hist)].succs
  BY DEF TraceIsPath
<1>1. ToSet(g.rf.hist) \subseteq Live(g)
  BY DEF IInv, BlocksOK, GraphOK, TraceOK, Done
<1> QED BY <1>1 DEF Trailing, PathsOK, OnTrail, IsPath, IsPathIn

LEMMA TrailingRegions == IInv /\ Trailing => RegionsAreLoops
<1> SUFFICES ASSUME IInv, Trailing, NEW b \in Live(g), NEW s \in g.blk[b].traces
             PROVE  s[1][1] = b /\ IsPath(s[1]) /\ b \in g.blk[Last(s[1])].succs
  BY DEF RegionsAreLoops
<1>1. TracesOK(Done(g), b, g.blk[b])
  BY DEF IInv, BlocksOK, GraphOK, BlockOK
<1>2. LoopIn(g, b, s[1])
  BY DEF Trailing, PathsOK
<1> QED BY <1>1, <1>2 DEF TracesOK, LoopIn, IsPath, IsPathIn

-----------------------------------------------------------------------------
(* basicBlock::validPath would hold of the trace in progress whenever it   *)
(* was asked: a split or a flush of the cache leaves no trace with a hole  *)
(* in it, and the block about to run is a successor of the trace's last.   *)
THEOREM TraceStaysPath == Spec => []TraceIsPath
<1>1. IInv /\ Trailing => TraceIsPath
  BY TrailingTrace
<1> QED BY <1>1, InvariantHolds, AlwaysTrailing, PTL

(* Every region in bbRegions is a closed path of the graph as it is now,   *)
(* from its head back to it: buildCFG finds one head and a back edge.      *)
THEOREM RegionsStayLoops == Spec => []RegionsAreLoops
<1>1. IInv /\ Trailing => RegionsAreLoops
  BY TrailingRegions
<1> QED BY <1>1, InvariantHolds, AlwaysTrailing, PTL

-----------------------------------------------------------------------------
(* The second half: an edge from a block leads where its last instruction  *)
(* can go, and a block still being built has none.                         *)
Leads(p, h, b, q) == h.blk[b].term # None /\ q \in NextPcs(p, h.blk[b].term)

Real(p, h) == \A b \in Live(h) : \A q \in h.blk[b].succs : Leads(p, h, b, q)

LEMMA AlikeReal ==
  ASSUME NEW p, NEW h, NEW n, Real(p, h), Live(n) = Live(h),
         \A b \in Live(h) : n.blk[b].term = h.blk[b].term /\ n.blk[b].succs = h.blk[b].succs
  PROVE  Real(p, n)
BY DEF Real, Leads

LEMMA EdgeReal ==
  ASSUME NEW p, NEW h, NEW b \in Live(h), NEW s, HasEdge(p, h, b, s),
         Real(p, h), Leads(p, h, b, s)
  PROVE  LET n == addSuccessor(h, b, s) IN Real(p, n) /\ Leads(p, n, b, s)
<1> DEFINE n == addSuccessor(h, b, s)
<1>1. /\ Live(n) = Live(h)
      /\ \A a \in Live(h) :
           /\ n.blk[a].term = h.blk[a].term
           /\ n.blk[a].succs = IF a = b THEN h.blk[b].succs \cup {s} ELSE h.blk[a].succs
  BY DEF HasEdge
<1> HIDE DEF n
<1>2. Real(p, n) /\ Leads(p, n, b, s)
  BY <1>1 DEF Real, Leads
<1> QED BY <1>2 DEF n

LEMMA NewAfterReal ==
  ASSUME NEW p, NEW h, NEW b \in Live(h), NEW q, HasNewAfter(p, h, b, q), h.blk[q] = None,
         Real(p, h), Leads(p, h, b, q)
  PROVE  LET n == newBlockAfter(h, q, b) IN Real(p, n) /\ Leads(p, n, b, q)
<1> DEFINE n == newBlockAfter(h, q, b)
<1>1. /\ Live(n) = Live(h) \cup {q} /\ n.blk[q].succs = {}
      /\ \A a \in Live(h) :
           /\ n.blk[a].term = h.blk[a].term
           /\ n.blk[a].succs = IF a = b THEN h.blk[b].succs \cup {q} ELSE h.blk[a].succs
  BY DEF HasNewAfter
<1> HIDE DEF n
<1>2. Real(p, n) /\ Leads(p, n, b, q)
  BY <1>1 DEF Real, Leads
<1> QED BY <1>2 DEF n

(* The last instruction of a finished block is one of its instructions.    *)
LEMMA EndedTerm ==
  ASSUME NEW p, NEW h, GraphOK(p, h), NEW b \in Live(h), Ended(p, h.blk[b])
  PROVE  h.blk[b].term \in Addr /\ h.blk[b].term # None
<1> DEFINE s == h.blk[b].ins
<1>1. s \in Seq(Addr) /\ s # <<>> /\ h.blk[b].term = BranchOf(p, s)
  <2>1. h.blk[b] \in BlockType
    BY DEF GraphOK, GraphType, Live
  <2> QED BY <2>1 DEF BlockType, Ended
<1> HIDE DEF s
<1>2. /\ Len(s) \in 1 .. Len(s)
      /\ Len(s) >= 2 => Len(s) - 1 \in 1 .. Len(s)
  BY <1>1
<1>3. BranchOf(p, s) \in Addr
  BY <1>1, <1>2 DEF BranchOf, Last
<1> QED BY <1>1, <1>3, RegionFinderAssumption

(* A split leaves both parts their edges: the head goes on to the tail,    *)
(* which goes where the block went.                                        *)
LEMMA SplitReal ==
  ASSUME NEW p, NEW h, NEW x, NEW q, CanSplit(p, h, x, q), Real(p, h)
  PROVE  LET n == split(p, h, x, q) IN
         Real(p, n) /\ \A b \in Live(h) : Leads(p, h, b, q) => Leads(p, n, b, q)
<1> DEFINE d == Dropped(h, x)
           n == split(p, h, x, q)
<1>1. /\ GraphOK(p, d) /\ d.blk[q] = None /\ q \in Addr /\ Live(d) = Live(h)
      /\ \A a \in Live(h) : d.blk[a].term = h.blk[a].term /\ d.blk[a].succs = h.blk[a].succs
      /\ \/ n = DelaySlotBlock(d, q) /\ p[q].kind \in {"alu", "nc"}
         \/ n = MoveTail(d, x, q) /\ CanMoveTail(p, d, x, q, q - x)
  BY SplitSteps DEF SplitInSteps, CanSplit
<1> HIDE DEF d, n
<1>2. Real(p, d)
  BY <1>1, AlikeReal
<1>3. \A b \in Live(h) : Leads(p, h, b, q) => Leads(p, d, b, q)
  BY <1>1 DEF Leads
<1>4. CASE n = DelaySlotBlock(d, q) /\ p[q].kind \in {"alu", "nc"}
  <2>1. /\ Live(n) = Live(d) \cup {q} /\ n.blk[q].succs = {}
        /\ \A a \in Addr \ {q} : n.blk[a] = d.blk[a]
    BY <1>1, <1>4, DelaySlotOK
  <2>2. \A a \in Live(d) : n.blk[a] = d.blk[a]
    BY <1>1, <2>1 DEF Live
  <2>3. Real(p, n)
    BY <1>2, <2>1, <2>2 DEF Real, Leads
  <2> QED BY <1>1, <1>3, <2>2, <2>3 DEF n, Leads
<1>5. CASE n = MoveTail(d, x, q) /\ CanMoveTail(p, d, x, q, q - x)
  <2>1. /\ GraphOK(p, n) /\ Live(n) = Live(d) \cup {q} /\ x \in Done(n)
        /\ \A a \in Live(d) \ {x} : n.blk[a].term = d.blk[a].term /\ n.blk[a].succs = d.blk[a].succs
        /\ n.blk[x].succs = {q} /\ n.blk[x].term = q - 1 /\ ~EndsBlock(p[q - 1].kind)
        /\ n.blk[q].succs = d.blk[x].succs /\ n.blk[q].term = d.blk[x].term
        /\ x \in Live(d)
    <3>1. HasMovedTail(p, d, x, q)
      BY <1>5, MoveTailOK
    <3> QED BY <3>1, <1>5 DEF HasMovedTail, CanMoveTail
  <2>2. Leads(p, n, x, q)
    <3>1. n.blk[x].term # None
      BY <2>1, EndedTerm DEF Done, GraphOK, BlockOK
    <3>2. NextPcs(p, q - 1) = {q}
      <4>1. q - 1 + 1 = q
        BY <1>1, ProgramsAssumption
      <4> QED BY <2>1, <4>1, PlainNext
    <3> QED BY <2>1, <3>1, <3>2 DEF Leads
  <2>3. \A a \in Live(d) : Leads(p, d, a, q) => Leads(p, n, a, q)
    BY <2>1, <2>2 DEF Leads
  <2>4. Real(p, n)
    <3> SUFFICES ASSUME NEW b \in Live(n), NEW s \in n.blk[b].succs PROVE Leads(p, n, b, s)
      BY DEF Real
    <3>1. CASE b = x
      BY <2>1, <2>2, <3>1
    <3>2. CASE b = q /\ b # x
      BY <1>2, <2>1, <3>2 DEF Real, Leads
    <3>3. CASE b # q /\ b # x
      BY <1>2, <2>1, <3>3 DEF Real, Leads
    <3> QED BY <3>1, <3>2, <3>3
  <2> QED BY <1>1, <1>3, <2>3, <2>4 DEF n
<1> QED BY <1>1, <1>4, <1>5

LEMMA FindReal ==
  ASSUME NEW p, NEW h, NEW b, NEW q, CanFind(p, h, b, q), Real(p, h), Leads(p, h, b, q)
  PROVE  LET n == findBlock(p, h, b, q) IN Real(p, n) /\ Leads(p, n, b, q)
<1> DEFINE n == findBlock(p, h, b, q)
           x == h.insMap[q]
<1>1. /\ p \in Programs /\ GraphOK(p, h) /\ b \in Live(h) /\ q \in Addr
      /\ \A y \in Live(h) : Ended(p, h.blk[y]) \/ h.blk[y].ins = <<>>
  BY DEF CanFind
<1>2. CASE n = h
  BY <1>2
<1>3. CASE n = addSuccessor(h, b, q) /\ h.blk[q] # None
  <2>1. q \in Live(h)
    BY <1>1, <1>3 DEF Live
  <2>2. HasEdge(p, h, b, q)
    BY <1>1, <2>1, AddSuccessorOK
  <2> QED BY <1>1, <1>3, <2>2, EdgeReal
<1>4. CASE n = addSuccessor(split(p, h, x, q), b, q) /\ h.blk[q] = None /\ x # None
  <2> DEFINE s == split(p, h, x, q)
  <2>1. CanSplit(p, h, x, q)
    <3>1. x \in Live(h) /\ q \in ToSet(h.blk[x].ins)
      BY <1>1, <1>4 DEF GraphOK, InsMapOK
    <3>2. h.blk[x].ins # <<>>
      BY <3>1 DEF ToSet
    <3> QED BY <3>1, <3>2, <1>1, <1>4 DEF CanSplit
  <2>2. /\ GraphOK(p, s) /\ Live(s) = Live(h) \cup {q}
        /\ Real(p, s) /\ Leads(p, s, b, q)
    BY <1>1, <2>1, SplitOK, SplitReal DEF HasSplit
  <2>3. n = addSuccessor(s, b, q)
    BY <1>4
  <2> HIDE DEF s, n
  <2>4. HasEdge(p, s, b, q) /\ b \in Live(s)
    BY <1>1, <2>2, AddSuccessorOK
  <2>5. Real(p, n) /\ Leads(p, n, b, q)
    BY <2>2, <2>3, <2>4, EdgeReal
  <2> QED BY <2>5 DEF n
<1>5. \/ n = h
      \/ n = addSuccessor(h, b, q) /\ h.blk[q] # None
      \/ n = addSuccessor(split(p, h, x, q), b, q) /\ h.blk[q] = None /\ x # None
  BY DEF findBlock
<1> QED BY <1>2, <1>3, <1>4, <1>5

LEMMA GetNextReal ==
  ASSUME NEW p, NEW h, NEW b, NEW q, CanFind(p, h, b, q), Ended(p, h.blk[b]),
         Real(p, h), Leads(p, h, b, q)
  PROVE  LET n == getNextBlock(p, h, b, q) IN Real(p, n) /\ Leads(p, n, b, q)
<1> DEFINE f == findBlock(p, h, b, q)
           m == IF f.blk[q] = None THEN newBlockAfter(f, q, b) ELSE f
           n == getNextBlock(p, h, b, q)
<1>1. b \in Live(h) /\ q \in Addr /\ p \in Programs
  BY DEF CanFind
<1>2. GraphOK(p, f) /\ Evolves(h, f) /\ Real(p, f) /\ Leads(p, f, b, q)
  BY FindBlockOK, FindReal DEF HasFound
<1> HIDE DEF f
<1>3. b \in Live(f)
  BY <1>1, <1>2 DEF Evolves
<1>4. GraphOK(p, m) /\ Evolves(f, m) /\ Real(p, m) /\ Leads(p, m, b, q)
  <2>1. CASE f.blk[q] = None
    <3>1. m = newBlockAfter(f, q, b)
      BY <2>1
    <3> HIDE DEF m
    <3>2. HasNewAfter(p, f, b, q)
      BY <1>1, <1>2, <1>3, <2>1, NewBlockAfterOK
    <3>3. GraphOK(p, m) /\ Evolves(f, m)
      BY <3>1, <3>2 DEF HasNewAfter
    <3>4. Real(p, m) /\ Leads(p, m, b, q)
      BY <1>2, <1>3, <2>1, <3>1, <3>2, NewAfterReal
    <3> QED BY <3>3, <3>4
  <2>2. CASE f.blk[q] # None
    <3>1. m = f
      BY <2>2
    <3> HIDE DEF m
    <3> QED BY <1>2, <3>1 DEF Evolves
  <2> QED BY <2>1, <2>2
<1>5. n = setReadOnly(m, b)
  BY DEF getNextBlock, f
<1> HIDE DEF m, n
<1>6. Evolves(h, m)
  BY <1>2, <1>4, EvolvesTrans
<1>7. b \in Live(m) /\ Ended(p, m.blk[b])
  <2>1. b \in Live(m)
    BY <1>1, <1>6 DEF Evolves
  <2>2. CASE b \in Done(m)
    BY <2>1, <2>2, <1>4 DEF GraphOK, BlockOK, Done
  <2>3. CASE m.blk[b].ins = h.blk[b].ins /\ m.blk[b].term = h.blk[b].term
    BY <2>1, <2>3 DEF Ended
  <2> QED BY <2>1, <2>2, <2>3, <1>1, <1>6 DEF Evolves
<1>8. /\ Live(n) = Live(m)
      /\ \A a \in Live(m) : n.blk[a].term = m.blk[a].term /\ n.blk[a].succs = m.blk[a].succs
  <2>1. /\ Live(n) = Live(m) /\ \A a \in Addr \ {b} : n.blk[a] = m.blk[a]
        /\ n.blk[b].succs = m.blk[b].succs /\ n.blk[b].term = m.blk[b].term
    BY <1>4, <1>5, <1>7, SetReadOnlyOK
  <2> QED BY <2>1 DEF Live
<1>9. Real(p, n) /\ Leads(p, n, b, q)
  BY <1>4, <1>7, <1>8, AlikeReal DEF Leads
<1> QED BY <1>9 DEF n

-----------------------------------------------------------------------------
(* An edge that is still to be added leads where control has gone.         *)
OnEdge ==
  ~brk =>
    /\ Real(prog, g)
    /\ mode = "run" /\ todo = 0 => Leads(prog, g, unit, pc)
    /\ mode = "post" /\ g.blk[pc] = None => Leads(prog, g, cBB, pc)
    /\ mode = "cfg" => at[2] = 1 \/ ~isBranchOrJump(prog[Code.ins[at[1]][at[2] - 1]].kind)

LEMMA InitOnEdge == Init => OnEdge
<1> SUFFICES ASSUME Init PROVE OnEdge
  OBVIOUS
<1>1. g = newBlock(EmptyGraph, 0) /\ mode = "loop"
  BY DEF Init
<1> DEFINE e == EmptyGraph
           k == [a \in Addr |-> None]
<1>2. e = [blk |-> k, insMap |-> k, rf |-> NewFinder]
  BY DEF EmptyGraph
<1> HIDE DEF e
<1>3. g.blk = [k EXCEPT ![0] = FreshBlock]
  BY <1>1, <1>2 DEF newBlock, e
<1>4. \A b \in Live(g) : g.blk[b] = FreshBlock
  BY <1>3 DEF Live
<1>5. FreshBlock.succs = {}
  BY DEF FreshBlock
<1> QED BY <1>1, <1>4, <1>5 DEF OnEdge, Real

LEMMA LoopOnEdge ==
  ASSUME mode' = "loop", prog' = prog, Real(prog, g')
  PROVE  OnEdge'
BY DEF OnEdge, Real, Leads, Live

LEMMA BuildPlainOnEdge ==
  ASSUME IInv, OnEdge, BuildPlain
  PROVE  OnEdge'
<1> DEFINE h == Building(g)
<1>1. /\ NotReady /\ prog[pc].kind # "brl" /\ g' = addIns(h, cBB, pc)
      /\ mode' = "loop" /\ prog' = prog /\ ~brk
  BY DEF BuildPlain, Kind, NotReady, Appended
<1>2. Growing(prog, h, cBB, pc) /\ h.blk = g.blk
  BY <1>1, BuildingOK
<1> HIDE DEF h
<1>3. HasGrown(prog, h, cBB, pc)
  BY <1>1, <1>2, AddInsOK
<1>4. /\ Live(g') = Live(h) /\ \A x \in Addr \ {cBB} : g'.blk[x] = h.blk[x]
      /\ g'.blk[cBB].term = h.blk[cBB].term /\ g'.blk[cBB].succs = h.blk[cBB].succs
  BY <1>1, <1>3 DEF HasGrown
<1>5. Real(prog, h)
  BY <1>1, <1>2 DEF OnEdge, Real, Leads, Live
<1>6. \A x \in Live(h) : g'.blk[x].term = h.blk[x].term /\ g'.blk[x].succs = h.blk[x].succs
  BY <1>4 DEF Live
<1>7. Real(prog, g')
  BY <1>4, <1>5, <1>6, AlikeReal
<1> QED BY <1>1, <1>7, LoopOnEdge

(* sync leaves one block, not yet begun.                                   *)
LEMMA BuildSyncOnEdge ==
  ASSUME IInv, BuildSync
  PROVE  OnEdge'
<1> DEFINE h == Appended
           d == dropAllBBs(h)
<1>1. /\ NotReady /\ prog[pc].kind = "sync" /\ g' = newBlock(d, pc + 1)
      /\ mode' = "loop" /\ prog' = prog
  BY DEF BuildSync, Kind, NotReady
<1>2. prog \in Programs /\ pc \in Addr
  BY <1>1 DEF NotReady, IInv, BlocksOK
<1>3. h.rf \in FinderType
  <2>1. GraphOK(prog, h)
    BY <1>1, AppendedOK
  <2> HIDE DEF h
  <2> QED BY <2>1 DEF GraphOK, GraphType
<1>4. pc + 1 \in Addr
  BY <1>1, <1>2, NextWord
<1>5. GraphOK(prog, d) /\ Live(d) = {} /\ d.blk = [a \in Addr |-> None]
  BY <1>3, DropAllOK
<1> HIDE DEF d
<1>6. d.blk[pc + 1] = None
  BY <1>4, <1>5
<1>7. Live(g') = {pc + 1} /\ g'.blk[pc + 1] = FreshBlock
  BY <1>1, <1>4, <1>5, <1>6, NewBlockOK
<1>8. FreshBlock.succs = {}
  BY DEF FreshBlock
<1>9. Real(prog, g')
  BY <1>7, <1>8 DEF Real
<1> QED BY <1>1, <1>9, LoopOnEdge

(* The block that ends had no edge; its first one is where control goes.   *)
LEMMA BuildEndOnEdge ==
  ASSUME IInv, OnEdge, BuildEnd
  PROVE  OnEdge'
<1> DEFINE h == Building(g)
           d == Ending(prog, h, cBB, pc)
<1>1. PICK q \in NextPcs(prog, pc) : g' = getNextBlock(prog, d, cBB, q) /\ CanEnd(h, d, q)
  BY AtEnd
<1>2. EndsBlock(prog[pc].kind) /\ mode' = "loop" /\ prog' = prog /\ ~brk
  BY DEF BuildEnd, Kind, NotReady
<1> HIDE DEF h, d
<1>3. /\ h.blk = g.blk
      /\ Growing(prog, h, cBB, pc) /\ d = Ending(prog, h, cBB, pc)
      /\ Ended(prog, d.blk[cBB]) /\ CanFind(prog, d, cBB, q)
  BY <1>1 DEF CanEnd
<1>4. Real(prog, h)
  BY <1>2, <1>3 DEF OnEdge, Real, Leads, Live
<1>5. h.blk[cBB].term = None /\ cBB \in Live(h) /\ pc \in Addr
  BY <1>3 DEF Growing, Open
<1>6. h.blk[cBB].succs = {}
  BY <1>4, <1>5 DEF Real, Leads
<1>7. /\ Live(d) = Live(h) /\ d.blk[cBB].term = pc /\ d.blk[cBB].succs = {}
      /\ \A x \in Addr \ {cBB} : d.blk[x] = h.blk[x]
  BY <1>2, <1>3, <1>6, EndingOK DEF HasEnded
<1>8. Real(prog, d)
  <2>1. \A x \in Live(d) : x = cBB \/ d.blk[x] = h.blk[x]
    BY <1>7 DEF Live
  <2> QED BY <1>4, <1>7, <2>1 DEF Real, Leads
<1>9. Leads(prog, d, cBB, q)
  BY <1>5, <1>7, RegionFinderAssumption DEF Leads
<1>10. Real(prog, g')
  BY <1>1, <1>3, <1>8, <1>9, GetNextReal
<1> QED BY <1>2, <1>10, LoopOnEdge

LEMMA ExecuteJITOnEdge ==
  ASSUME IInv, OnEdge, ExecuteJIT
  PROVE  OnEdge'
<1>1. /\ GraphOK(prog, g) /\ cBB \in Done(g) /\ BlocksOK /\ ~brk
  BY AtDispatch
<1>2. /\ prog' = prog
      /\ \/ mode' = "cfg" /\ at' = <<cBB, 1>>
         \/ mode' = "run" /\ todo' = g.blk[cBB].term - cBB + 1
  BY DEF ExecuteJIT
<1>3. mode' = "run" => todo' # 0
  <2>1. g.blk[cBB].term \in Nat /\ cBB \in Nat /\ g.blk[cBB].term >= cBB
    BY <1>1, DoneBlock
  <2> QED BY <1>2, <2>1
<1>4. Real(prog, g)
  BY <1>1 DEF OnEdge
<1>5. Real(prog, g')
  <2>1. CASE RegionComplete(g.rf, cBB)
    <3> DEFINE h == [g EXCEPT !.rf = getRegion(update(@, cBB))]
    <3>1. PICK typed \in {TRUE, EnableBoth}, up \in (IF Aug = "head" THEN BOOLEAN ELSE {TRUE}) :
            g' = RegionClosed(h, g.rf.hist, typed, up)
      BY <2>1 DEF ExecuteJIT, Dispatched
    <3>2. Alike(h, g') /\ h.blk = g.blk
      BY <2>1, <3>1, ClosingOK
    <3> HIDE DEF h
    <3>3. Real(prog, h)
      BY <1>4, <3>2 DEF Real, Leads, Live
    <3> QED BY <3>2, <3>3, AlikeReal DEF Alike
  <2>2. CASE ~RegionComplete(g.rf, cBB)
    <3>1. g' = [g EXCEPT !.rf = update(@, cBB)]
      BY <2>2 DEF ExecuteJIT, Dispatched
    <3>2. g'.blk = g.blk
      BY <2>2, <3>1, SeenOK
    <3> QED BY <1>4, <3>2 DEF Real, Leads, Live
  <2> QED BY <2>1, <2>2
<1>6. Real(prog, g)'
  BY <1>2, <1>5 DEF Real, Leads, Live
<1>7. mode' = "cfg" => at'[2] = 1
  BY <1>2
<1> QED BY <1>2, <1>3, <1>6, <1>7 DEF OnEdge

(* When the last word of the block is a plain one, run falls through.      *)
LEMMA RunPlainOnEdge ==
  ASSUME IInv, OnEdge, RunPlain
  PROVE  OnEdge'
<1>1. /\ Interpreting /\ prog[pc].kind \in {"alu", "nc", "teq"}
      /\ pc' = pc + 1 /\ todo' = todo - 1 /\ UNCHANGED <<prog, g, brk, mode, unit>>
  BY DEF RunPlain, Kind
<1>2. /\ mode = "run" /\ todo \in Nat \ {0} /\ pc \in Nat /\ brk = FALSE
      /\ pc + todo - 1 = g.blk[unit].term /\ unit \in Done(g) /\ BlocksOK
  BY <1>1, Interpreted
<1>3. g.blk[unit].term # None
  BY <1>2, EndedTerm DEF BlocksOK, GraphOK, BlockOK, Done
<1>4. todo' = 0 => Leads(prog, g, unit, pc + 1)
  <2>1. todo' = 0 => g.blk[unit].term = pc
    BY <1>1, <1>2
  <2>2. NextPcs(prog, pc) = {pc + 1}
    BY <1>1, PlainNext DEF EndsBlock, isBranchOrJump
  <2> QED BY <1>3, <2>1, <2>2 DEF Leads
<1>5. Real(prog, g)'
  BY <1>1, <1>2 DEF OnEdge, Real, Leads, Live
<1> QED BY <1>1, <1>2, <1>4, <1>5 DEF OnEdge, Leads

LEMMA RunEndOnEdge ==
  ASSUME IInv, OnEdge, RunEnd
  PROVE  OnEdge'
<1>1. PICK q \in NextPcs(prog, pc) :
        /\ g' = getNextBlock(prog, g, cBB, q) /\ cBB' = q /\ pc' = q
        /\ CanFind(prog, g, cBB, q) /\ Ended(prog, g.blk[cBB])
  BY AtRunEnd
<1>2. Interpreting /\ EndsBlock(prog[pc].kind) /\ UNCHANGED <<mode, unit, brk, prog>>
  BY DEF RunEnd, Kind
<1>3. /\ mode = "run" /\ cBB = unit /\ pc \in Nat /\ brk = FALSE
      /\ pc + todo - 1 = g.blk[unit].term /\ todo = 1
  BY <1>2, Interpreted
<1>4. Leads(prog, g, cBB, q)
  <2>1. g.blk[cBB].term = pc
    BY <1>3
  <2>2. g.blk[cBB].term # None
    BY <1>1, EndedTerm DEF CanFind
  <2> QED BY <2>1, <2>2 DEF Leads
<1>5. Real(prog, g') /\ Leads(prog, g', cBB, q)
  BY <1>1, <1>3, <1>4, GetNextReal DEF OnEdge
<1>6. Real(prog, g)' /\ Leads(prog, g, unit, pc)'
  BY <1>1, <1>2, <1>3, <1>5 DEF Real, Leads, Live
<1> QED BY <1>2, <1>3, <1>6 DEF OnEdge

LEMMA RunReturnOnEdge ==
  ASSUME IInv, Trailing, OnEdge, RunReturn
  PROVE  OnEdge'
<1> SUFFICES ASSUME ~brk PROVE OnEdge'
  BY DEF RunReturn, OnEdge
<1>1. g' = findBlock(prog, g, unit, pc) /\ CanFind(prog, g, unit, pc)
  BY AtRunReturn
<1>2. /\ mode = "run" /\ mode' = "post" /\ todo = 0 /\ UNCHANGED <<prog, cBB, pc, brk>>
      /\ cBB \in Live(g)
  BY DEF RunReturn, IInv, BlocksOK
<1>3. Real(prog, g') /\ Leads(prog, g', unit, pc)
  BY <1>1, <1>2, FindReal DEF OnEdge
<1>4. g'.blk[pc] = None => cBB = unit
  <2> SUFFICES ASSUME g'.blk[pc] = None PROVE cBB = unit
    OBVIOUS
  <2>1. /\ GraphOK(prog, g') /\ Evolves(g, g')
        /\ pc \in g'.blk[unit].succs \/ (g' = g /\ g.blk[pc] = None)
    BY <1>1, FindBlockOK, FindTrails DEF HasFound
  <2>2. unit \in Live(g')
    BY <1>1, <2>1 DEF Evolves, CanFind
  <2>3. g.blk[pc] = None
    BY <2>1, <2>2 DEF GraphOK, Linked, Live
  <2>4. cBB \in {unit, pc}
    BY <1>2 DEF Trailing, OnTrail
  <2> QED BY <1>2, <2>3, <2>4 DEF Live
<1>5. Real(prog, g)' /\ (g'.blk[pc'] = None => Leads(prog, g, cBB, pc)')
  BY <1>2, <1>3, <1>4 DEF Real, Leads, Live
<1> QED BY <1>2, <1>5 DEF OnEdge

(* Compiled code leaves a block at its last instruction.                   *)
LEMMA LeavesAtTerm ==
  ASSUME IInv, Fresh, OnEdge, mode = "cfg", LeavesBlock
  PROVE  at[1] \in Done(g) /\ g.blk[at[1]].term = CodePc /\ CodePc # None
<1>1. /\ BlocksOK /\ brk = FALSE /\ prog \in Programs /\ unit \in Done(g)
      /\ g.blk[unit].code # None /\ CodeOK(prog, Done(g), unit, Code)
      /\ at[1] \in Code.blocks /\ at[2] \in 1 .. Len(Code.ins[at[1]])
  BY CodeShape
<1> DEFINE b == at[1]
           s == Code.ins[b]
           k == at[2]
           len == Len(s)
<1>2. b \in Done(g) /\ s = g.blk[b].ins
  <2>1. unit \in Live(g)
    BY <1>1 DEF Done
  <2> QED BY <1>1, <2>1 DEF CodeOK, Fresh, FreshOK, CurrentOK, Code
<1>3. s \in Seq(Addr) /\ s # <<>> /\ Ended(prog, g.blk[b]) /\ len \in Nat
  <2>1. g.blk[b].ins \in Seq(Addr) /\ g.blk[b].ins # <<>> /\ Ended(prog, g.blk[b])
    BY <1>1, <1>2, DoneBlock
  <2> QED BY <1>2, <2>1
<1>4. CodePc = s[k] /\ k \in 1 .. len
  BY <1>1 DEF CodePc
<1>5. k = 1 \/ ~isBranchOrJump(prog[s[k - 1]].kind)
  BY <1>1 DEF OnEdge
<1>6. isBranchOrJump(prog[CodePc].kind) \/ k = len
  BY DEF LeavesBlock, Kind
<1>7. g.blk[b].term = BranchOf(prog, s)
      /\ \A a \in ToSet(s) : EndsBlock(prog[a].kind) => a = g.blk[b].term
  BY <1>2, <1>3 DEF Ended
<1>8. s[k] \in ToSet(s) /\ s[k] \in Addr
  <2> HIDE DEF s, k
  <2> QED BY <1>3, <1>4, ToSetIndex
<1> HIDE DEF s, k, b
<1>9. g.blk[b].term = CodePc
  <2>1. CASE isBranchOrJump(prog[CodePc].kind)
    BY <1>4, <1>7, <1>8, <2>1 DEF EndsBlock
  <2>2. CASE k = len
    <3>1. BranchOf(prog, s) = s[len]
      <4>1. len >= 2 => ~isBranchOrJump(prog[s[len - 1]].kind)
        BY <1>3, <1>5, <2>2
      <4> QED BY <1>3, <4>1 DEF BranchOf, Last
    <3> QED BY <1>4, <1>7, <2>2, <3>1
  <2> QED BY <1>6, <2>1, <2>2
<1> QED BY <1>2, <1>4, <1>8, <1>9, RegionFinderAssumption DEF b

LEMMA CfgOnEdge ==
  ASSUME IInv, Fresh, OnEdge, CfgWithin \/ CfgEdge \/ CfgAbort
  PROVE  OnEdge'
<1>1. mode = "cfg" /\ UNCHANGED <<prog, g, brk, unit>> /\ ~brk
  BY DEF CfgWithin, CfgEdge, CfgAbort, IInv, CfgOK
<1>2. Real(prog, g)'
  BY <1>1 DEF OnEdge, Real, Leads, Live
<1>3. CASE CfgWithin
  <2>1. mode' = "cfg" /\ at' = <<at[1], at[2] + 1>> /\ ~LeavesBlock
    BY <1>3 DEF CfgWithin
  <2>2. at[2] \in Nat
    <3>1. at[2] \in 1 .. Len(Code.ins[at[1]]) /\ Code \in CodeType /\ at[1] \in Code.blocks
      BY <1>1, CodeShape
    <3> DEFINE s == Code.ins[at[1]]
    <3>2. Len(s) \in Nat
      BY <3>1 DEF CodeType
    <3> HIDE DEF s
    <3> QED BY <3>1, <3>2 DEF s
  <2>3. at'[1] = at[1] /\ at'[2] - 1 = at[2] /\ Code' = Code
    BY <1>1, <2>1, <2>2 DEF Code
  <2>4. ~isBranchOrJump(prog[Code.ins[at[1]][at[2]]].kind)
    BY <2>1 DEF LeavesBlock, Kind, CodePc
  <2> QED BY <1>1, <1>2, <2>1, <2>3, <2>4 DEF OnEdge
<1>4. CASE CfgEdge
  <2>1. mode' = "cfg" /\ at'[2] = 1
    BY <1>1, <1>4 DEF CfgEdge
  <2> QED BY <1>2, <2>1 DEF OnEdge
<1>5. CASE CfgAbort
  <2>1. LeavesBlock /\ pc' \in NextPcs(prog, CodePc) /\ cBB' = at[1] /\ mode' = "post"
    BY <1>5 DEF CfgAbort
  <2>2. Leads(prog, g, cBB, pc)'
    BY <1>1, <2>1, LeavesAtTerm DEF Leads
  <2> QED BY <1>2, <2>1, <2>2 DEF OnEdge
<1> QED BY <1>3, <1>4, <1>5

LEMMA PostOnEdge ==
  ASSUME IInv, OnEdge, Post
  PROVE  OnEdge'
<1>1. mode = "post" /\ mode' = "loop" /\ UNCHANGED <<prog, brk>>
  BY DEF Post
<1> SUFFICES ASSUME ~brk PROVE OnEdge'
  BY <1>1 DEF OnEdge
<1>2. PICK n : HasReached(n)
  BY AtPost
<1>3. Real(prog, n)
  <2>1. CASE n = g
    BY <2>1 DEF OnEdge
  <2>2. CASE n # g
    <3>1. /\ n = newBlockAfter(g, pc, cBB) /\ g.blk[pc] = None
          /\ cBB \in Live(g) /\ HasNewAfter(prog, g, cBB, pc)
      BY <1>2, <2>2 DEF HasReached
    <3>2. Real(prog, g) /\ Leads(prog, g, cBB, pc)
      BY <1>1, <3>1 DEF OnEdge
    <3> QED BY <3>1, <3>2, NewAfterReal
  <2> QED BY <2>1, <2>2
<1>4. Real(prog, g')
  BY <1>2, <1>3 DEF HasReached, Real, Leads, Live
<1> QED BY <1>1, <1>4, LoopOnEdge

LEMMA NextOnEdge ==
  ASSUME IInv, Fresh, Trailing, OnEdge, [Next]_vars
  PROVE  OnEdge'
<1>1. CASE BuildPlain
  BY <1>1, BuildPlainOnEdge
<1>2. CASE BuildEnd
  BY <1>2, BuildEndOnEdge
<1>3. CASE BuildSync
  BY <1>3, BuildSyncOnEdge
<1>4. CASE brk'
  BY <1>4 DEF OnEdge
<1>5. CASE ExecuteJIT
  BY <1>5, ExecuteJITOnEdge
<1>6. CASE RunPlain
  BY <1>6, RunPlainOnEdge
<1>7. CASE RunEnd
  BY <1>7, RunEndOnEdge
<1>8. CASE RunReturn
  BY <1>8, RunReturnOnEdge
<1>9. CASE CfgWithin \/ CfgEdge \/ CfgAbort
  BY <1>9, CfgOnEdge
<1>10. CASE Post
  BY <1>10, PostOnEdge
<1>11. CASE Exited \/ UNCHANGED vars
  <2>1. UNCHANGED vars
    BY <1>11 DEF Exited
  <2> QED BY <2>1 DEF vars, OnEdge, Real, Leads, Live, Code
<1>12. BuildStop \/ RunTrap \/ Interrupt \/ Shutdown => brk'
  BY DEF BuildStop, RunTrap, Interrupt, Shutdown
<1> QED BY <1>1, <1>2, <1>3, <1>4, <1>5, <1>6, <1>7, <1>8, <1>9, <1>10, <1>11, <1>12 DEF Next

LEMMA AlwaysOnEdge == Aug = "none" => (Spec => []OnEdge)
<1> SUFFICES ASSUME Aug = "none" PROVE Spec => []OnEdge
  OBVIOUS
<1>1. Init => OnEdge
  BY InitOnEdge
<1>2. IInv /\ Fresh /\ Trailing /\ OnEdge /\ [Next]_vars => OnEdge'
  BY NextOnEdge
<1>3. Spec => []Fresh
  BY AlwaysFresh
<1> QED BY <1>1, <1>2, <1>3, InvariantHolds, AlwaysTrailing, PTL DEF Spec

LEMMA OnEdgeRealizable == IInv /\ OnEdge => EdgesRealizable
<1> SUFFICES ASSUME IInv, OnEdge, NEW b \in Live(g), g.blk[b].ro, ~brk
             PROVE  g.blk[b].succs \subseteq Exits(prog, g.blk[b].ins)
  BY DEF EdgesRealizable
<1>1. g.blk[b].term = BranchOf(prog, g.blk[b].ins)
  BY DEF IInv, BlocksOK, GraphOK, BlockOK, Ended
<1> QED BY <1>1 DEF OnEdge, Real, Leads, Exits

(* A finished block's succs are pcs its last instruction can go to, as     *)
(* read from the guest program: neither a split nor leaving compiled code  *)
(* links a block to one control cannot reach from it, so addSuccessor's    *)
(* own check on the number of successors has nothing to object to but a    *)
(* register jump or a monitor call.                                        *)
THEOREM EdgesStayRealizable == Aug = "none" => (Spec => []EdgesRealizable)
<1>1. IInv /\ OnEdge => EdgesRealizable
  BY OnEdgeRealizable
<1> QED BY <1>1, InvariantHolds, AlwaysOnEdge, PTL
=============================================================================
